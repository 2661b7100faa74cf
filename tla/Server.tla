------------------------------- MODULE Server -------------------------------
(***************************************************************************)
(* The event loop of core::Server (src/src/core/server.cpp): one thread    *)
(* that runs RunEventLoopOnce for ever.  A round drains the ReadyQueue,    *)
(* fires expired timers, waits in epoll, handles the events it got, fires  *)
(* timers again and releases the connections it closed.                    *)
(*                                                                         *)
(* One action is one system call, or one iteration or one branch of a      *)
(* function, with the local computation that goes with it; `pc' is the     *)
(* point the thread has reached and `cur' its locals.  Only the thread     *)
(* changes the server's state, so splitting a handler at these points adds *)
(* no behaviour: the peers and the kernel act through the results of       *)
(* accept4, epoll_wait, read and write, chosen here with \E.               *)
(*                                                                         *)
(* Bytes are counted in tokens.  A header is any number of Fragments ended *)
(* by a member of Requests (the bytes up to its CRLFCRLF, with what the    *)
(* parser makes of the whole header); a body is a run of BodyBytes.        *)
(* Metrics, logging and the text of the responses are left out.            *)
(***************************************************************************)
EXTENDS Integers, Sequences, FiniteSets, Functions

CONSTANTS
    Fd,                     \* descriptors the kernel may give to clients
    ListenFd,               \* the listening descriptor
    Requests,               \* the request headers clients send
    Parse,                  \* what ParseRequestHeader makes of each of them
    ResponseSize,           \* bytes of a 200 response
    kMaxRequestsPerRound, kReadChunkSize,
    kMaxReadBytesPerEvent, kMaxWriteBytesPerEvent,
    kMaxHeaderBytes, kMaxBodyBytes, kMaxInflightBytes, kMaxConnections,
    MaxRequests,            \* bound: requests a client sends on one connection
    MaxAccepts              \* bound: connections accepted in a behaviour

ParseErrors == {"kNone", "kBadRequest", "kLengthRequired", "kNotImplementedChunked"}

(* What the loop uses of an HttpRequest, with the parser's verdict. *)
HttpRequest == [version        : {"HTTP/1.0", "HTTP/1.1"},
                connection     : SUBSET {"close", "keep-alive"},
                content_length : Nat,
                parse_error    : ParseErrors]

Fragment  == "fragment"
BodyByte  == "body byte"
NoRequest == "no request"
Token     == {Fragment, BodyByte} \cup Requests

ASSUME FdAssumption == ListenFd \notin Fd
ASSUME RequestAssumption ==
    /\ Parse \in [Requests -> HttpRequest]
    /\ {Fragment, BodyByte, NoRequest} \cap Requests = {}
ASSUME SizeAssumption ==
    /\ {ResponseSize, kMaxRequestsPerRound, kReadChunkSize, kMaxReadBytesPerEvent,
        kMaxWriteBytesPerEvent, kMaxHeaderBytes, kMaxConnections} \subseteq Nat \ {0}
    /\ {kMaxBodyBytes, kMaxInflightBytes, MaxRequests, MaxAccepts} \subseteq Nat

TimerKind == {"header", "body", "idle"}

(* `armed' is the three *_timeout_armed flags, `pollout' whether the epoll  *)
(* registration asks for EPOLLOUT; output_buffer is kept as its size.       *)
(* `responses' and `wire' are history: the 200 responses built for the      *)
(* connection and the bytes of them that write() has taken.  `closing' is   *)
(* never seen set: CloseClientConnection sets it and erases the entry.      *)
ClientConnection ==
    [connection_id                : Nat \ {0},
     input_buffer                 : Seq(Token),
     output_buffer                : Nat,
     close_after_write            : BOOLEAN,
     in_ready_queue               : BOOLEAN,
     ready_for_read               : BOOLEAN,
     keep_alive_enabled           : BOOLEAN,
     waiting_for_request_body     : BOOLEAN,
     pending_request              : Requests \cup {NoRequest},
     pending_body_bytes_remaining : Nat,
     armed                        : SUBSET TimerKind,
     pollout                      : BOOLEAN,
     responses                    : Nat,
     wire                         : Nat]

VARIABLES
    clients,                    \* clients_: the open descriptors' connections
    ready_queue,                \* ready_queue_
    pending_close_queue,        \* pending_close_queue_, with why each was closed
    active_connection_count, global_inflight_bytes, next_connection_id,
    batch,                      \* the events epoll_wait returned, not yet handled
    left,                       \* what ProcessReadyQueue has left of this round
    pc, cur                     \* where the thread is, and its locals

conns == <<clients, ready_queue, pending_close_queue, active_connection_count,
           global_inflight_bytes>>
loop  == <<next_connection_id, batch, left>>
vars  == <<conns, loop, pc, cur>>

(* The locals of the handler that is running: the connection, the loop that *)
(* called it, its EventBudget, processed_requests, the request being        *)
(* answered and where StartOkResponse or ConsumePendingRequestBody returns. *)
(* `popped' is history: the headers this handler has taken so far.          *)
Frame == [fd : Fd, origin : {"ready", "dispatch"}, readable : BOOLEAN,
          reading : BOOLEAN, read_remaining : Nat, write_remaining : Nat,
          processed_requests : Nat, popped : Nat,
          request : Requests \cup {NoRequest},
          back : {"process", "tail", "chunk", "continue_parse"}]

NewFrame(fd, origin, readable) ==
    [fd |-> fd, origin |-> origin, readable |-> readable, reading |-> FALSE,
     read_remaining |-> kMaxReadBytesPerEvent,
     write_remaining |-> kMaxWriteBytesPerEvent,
     processed_requests |-> 0, popped |-> 0, request |-> NoRequest,
     back |-> "process"]

NoFrame == [fd |-> ListenFd]

HandlerPoints == {"continue", "continue_parse", "continue_read", "flush", "event_read",
                  "read", "check_header", "process", "tail", "chunk", "consume", "respond"}
LoopPoints    == {"ready", "timers", "wait", "dispatch", "accept", "timers_after",
                  "release", "exited"}

Event == [fd : Fd \cup {ListenFd}, connection_id : Nat, events : SUBSET {"IN", "OUT", "HUP"}]
CloseReason == {"peer", "limit", "error response", "done"} \cup TimerKind
PendingCloseEntry ==
    [connection_id : Nat \ {0}, unsent : Int, reason : CloseReason]

TypeOK ==
    /\ \E open \in SUBSET Fd : clients \in [open -> ClientConnection]
    /\ ready_queue \in Seq(Fd)
    /\ pending_close_queue \in SUBSET PendingCloseEntry
    /\ active_connection_count \in Nat
    /\ global_inflight_bytes \in Nat
    /\ next_connection_id \in Nat \ {0}
    /\ batch \in SUBSET Event
    /\ left \in Nat
    /\ pc \in HandlerPoints \cup LoopPoints \cup {"limit"}
    /\ \/ pc \in HandlerPoints \cup {"limit"} /\ cur \in Frame
       \/ pc \in LoopPoints /\ cur = NoFrame

Init ==
    /\ clients = << >>
    /\ ready_queue = << >>
    /\ pending_close_queue = {}
    /\ active_connection_count = 0
    /\ global_inflight_bytes = 0
    /\ next_connection_id = 1
    /\ batch = {}
    /\ left = 0
    /\ pc = "ready"
    /\ cur = NoFrame

-----------------------------------------------------------------------------
(* The input buffer (net::DynamicBuffer).                                   *)

HeaderEnds(in) == {i \in 1..Len(in) : in[i] \in Requests}
HasCompleteHeader(in) == HeaderEnds(in) # {}
IsHeaderEnd(in, i) == i \in HeaderEnds(in) /\ \A j \in HeaderEnds(in) : i <= j
HeaderExceedsLimit(in, limit) ==
    Len(in) > limit /\ \A i \in HeaderEnds(in) : i > limit
ConsumePrefix(in, size) == SubSeq(in, size + 1, Len(in))

(* What a client sends next, given what it sent before: body bytes exactly  *)
(* where the last header announced them, and no more than MaxRequests       *)
(* requests on the connection.                                              *)
Owed(sent, owed, i) ==
    LET before == {j \in HeaderEnds(sent) : j < i} IN
    IF before = {} THEN i <= owed
    ELSE \E j \in before : /\ \A k \in before : k <= j
                           /\ i - j <= Parse[sent[j]].content_length

ClientMaySend(c, data) ==
    LET sent == c.input_buffer \o data
        asked == c.responses + (IF c.waiting_for_request_body THEN 1 ELSE 0)
    IN  /\ \A i \in 1..Len(sent) :
              (sent[i] = BodyByte) <=> Owed(sent, c.pending_body_bytes_remaining, i)
        /\ asked + Cardinality(HeaderEnds(sent)) <= MaxRequests

-----------------------------------------------------------------------------
(* The helpers on one connection.  A definition named Faulty... is no part  *)
(* of the server: it is the definition after it with a plausible bug, there *)
(* to show that a property can tell the two apart.                          *)

ArmHeaderTimeout(c) == [c EXCEPT !.armed = (@ \ {"idle"}) \cup {"header"}]
FaultyArmBodyTimeout(c) == [c EXCEPT !.armed = {}]
ArmBodyTimeout(c)   == [c EXCEPT !.armed = {"body"}]
ArmIdleKeepAliveTimeout(c) == [c EXCEPT !.armed = (@ \ {"header"}) \cup {"idle"}]
FaultyDisarmBodyTimeout(c) == c
DisarmBodyTimeout(c) == [c EXCEPT !.armed = @ \ {"body"}]
FaultyUpdateClientPollMask(c) == [c EXCEPT !.pollout = @ \/ c.output_buffer > 0]
UpdateClientPollMask(c) == [c EXCEPT !.pollout = c.output_buffer > 0]

ShouldKeepAlive(r) ==
    IF Parse[r].version = "HTTP/1.1" THEN "close" \notin Parse[r].connection
                                     ELSE "keep-alive" \in Parse[r].connection

FaultyBeginRequestBodyReceive(c, request) ==
    ArmBodyTimeout([c EXCEPT !.waiting_for_request_body = TRUE,
                             !.pending_request = request,
                             !.pending_body_bytes_remaining = Parse[request].content_length - 1])

BeginRequestBodyReceive(c, request) ==
    ArmBodyTimeout([c EXCEPT !.waiting_for_request_body = TRUE,
                             !.pending_request = request,
                             !.pending_body_bytes_remaining = Parse[request].content_length])

NewConnection(id) ==
    [connection_id |-> id, input_buffer |-> << >>, output_buffer |-> 0,
     close_after_write |-> FALSE, in_ready_queue |-> FALSE, ready_for_read |-> FALSE,
     keep_alive_enabled |-> FALSE, waiting_for_request_body |-> FALSE,
     pending_request |-> NoRequest, pending_body_bytes_remaining |-> 0,
     armed |-> {}, pollout |-> FALSE, responses |-> 0, wire |-> 0]

FaultyOverBudget(add_bytes) == global_inflight_bytes > kMaxInflightBytes

(* TryReserveInflightBytes fails. *)
OverBudget(add_bytes) ==
    /\ add_bytes > 0
    /\ \/ global_inflight_bytes > kMaxInflightBytes
       \/ add_bytes > kMaxInflightBytes - global_inflight_bytes

ReleaseInflightBytes(release_bytes) ==
    IF release_bytes >= global_inflight_bytes THEN 0
    ELSE global_inflight_bytes - release_bytes

FaultyWithout(queue, fd) == queue

(* std::remove drops every fd it meets; there is at most one. *)
Without(queue, fd) ==
    IF \E i \in 1..Len(queue) : queue[i] = fd
    THEN LET i == CHOOSE i \in 1..Len(queue) : queue[i] = fd
         IN  SubSeq(queue, 1, i - 1) \o SubSeq(queue, i + 1, Len(queue))
    ELSE queue

FaultyEnqueueReadyConnection(fd, c) ==
    /\ clients' = [clients EXCEPT ![fd] = [c EXCEPT !.in_ready_queue = TRUE]]
    /\ ready_queue' = IF c.in_ready_queue THEN ready_queue ELSE <<fd>> \o ready_queue

EnqueueReadyConnection(fd, c) ==
    /\ clients' = [clients EXCEPT ![fd] = [c EXCEPT !.in_ready_queue = TRUE]]
    /\ ready_queue' = IF c.in_ready_queue THEN ready_queue ELSE Append(ready_queue, fd)

(* The one place a connection ends.  `unsent' is what is missing on the     *)
(* wire of the 200 responses built for it.                                  *)
CloseClientConnection(fd, c, reason) ==
    /\ clients' = Restrict(clients, DOMAIN clients \ {fd})
    /\ active_connection_count' =
          IF active_connection_count > 0 THEN active_connection_count - 1 ELSE 0
    /\ ready_queue' = Without(ready_queue, fd)
    /\ global_inflight_bytes' =
          ReleaseInflightBytes(Len(c.input_buffer) + c.output_buffer)
    /\ pending_close_queue' = pending_close_queue \cup
          {[connection_id |-> c.connection_id, reason |-> reason,
            unsent |-> ResponseSize * c.responses - c.wire]}

(* WriteBestEffort puts the error response straight on the socket. *)
SendErrorResponseAndClose(fd, c) == CloseClientConnection(fd, c, "error response")

-----------------------------------------------------------------------------
(* How a handler moves on: `me' is the connection it works on.              *)

me == clients[cur.fd]

Keep(c) == /\ clients' = [clients EXCEPT ![cur.fd] = c]
           /\ UNCHANGED <<ready_queue, pending_close_queue, active_connection_count, loop>>
Requeue(c) == /\ EnqueueReadyConnection(cur.fd, c)
              /\ UNCHANGED <<pending_close_queue, active_connection_count, loop>>
Goto(point) == pc' = point /\ cur' = cur
Return      == pc' = cur.origin /\ cur' = NoFrame
Close(c, reason) == /\ CloseClientConnection(cur.fd, c, reason) /\ Return
                    /\ UNCHANGED loop
Reject(c)        == /\ SendErrorResponseAndClose(cur.fd, c) /\ Return
                    /\ UNCHANGED loop

-----------------------------------------------------------------------------
(* ProcessReadyQueue: only what was queued when the round began.            *)

FaultyPopReady ==
    /\ pc = "ready" /\ left > 0
    /\ left' = Len(ready_queue) - 1
    /\ ready_queue' = Tail(ready_queue)
    /\ LET fd == Head(ready_queue) IN
       /\ clients' = [clients EXCEPT ![fd].in_ready_queue = FALSE]
       /\ cur' = NewFrame(fd, "ready", FALSE)
       /\ pc' = IF clients[fd].output_buffer > 0 THEN "flush" ELSE "continue"
    /\ UNCHANGED <<pending_close_queue, active_connection_count, global_inflight_bytes,
                   next_connection_id, batch>>

PopReady ==
    /\ pc = "ready" /\ left > 0
    /\ left' = left - 1
    /\ ready_queue' = Tail(ready_queue)
    /\ LET fd == Head(ready_queue) IN
       IF fd \in DOMAIN clients
       THEN /\ clients' = [clients EXCEPT ![fd].in_ready_queue = FALSE]
            /\ cur' = NewFrame(fd, "ready", FALSE)
            /\ pc' = IF clients[fd].output_buffer > 0 THEN "flush" ELSE "continue"
       ELSE UNCHANGED <<clients, cur, pc>>
    /\ UNCHANGED <<pending_close_queue, active_connection_count, global_inflight_bytes,
                   next_connection_id, batch>>

ReadyQueueDone ==
    /\ pc = "ready" /\ left = 0
    /\ Goto("timers")
    /\ UNCHANGED <<conns, loop>>

(* ContinueReadyConnection, after its FlushClientOutput: the body, then the *)
(* headers already buffered, then the read its budget interrupted.          *)
ContinueWithBody ==
    /\ pc = "continue" /\ me.output_buffer = 0 /\ me.waiting_for_request_body
    /\ pc' = "consume" /\ cur' = [cur EXCEPT !.back = "continue_parse"]
    /\ UNCHANGED <<conns, loop>>

ContinueWithHeaders ==
    /\ \/ pc = "continue"
       \/ pc = "continue_parse"
    /\ me.output_buffer = 0 /\ ~me.waiting_for_request_body
    /\ IF HasCompleteHeader(me.input_buffer)
       THEN pc' = "process" /\ cur' = [cur EXCEPT !.processed_requests = 0]
       ELSE Goto("continue_read")
    /\ UNCHANGED <<conns, loop>>

ContinueWithRead ==
    /\ pc = "continue_read" /\ me.output_buffer = 0 /\ me.ready_for_read
    /\ pc' = "read" /\ cur' = [cur EXCEPT !.reading = TRUE]
    /\ Keep([me EXCEPT !.ready_for_read = FALSE]) /\ UNCHANGED global_inflight_bytes

ContinueReturns ==
    /\ \/ pc = "continue" /\ me.output_buffer > 0
       \/ pc = "continue_parse" /\ (me.output_buffer > 0 \/ me.waiting_for_request_body)
       \/ pc = "continue_read" /\ (me.output_buffer > 0 \/ ~me.ready_for_read)
    /\ Return
    /\ UNCHANGED <<conns, loop>>

-----------------------------------------------------------------------------
(* ProcessExpiredTimers: any armed timer may be the one that is due.        *)

ExpireTimer ==
    /\ pc \in {"timers", "timers_after"}
    /\ \E fd \in DOMAIN clients : \E kind \in clients[fd].armed :
          CloseClientConnection(fd, clients[fd], kind)
    /\ UNCHANGED <<loop, pc, cur>>

TimersDone ==
    /\ \/ pc = "timers" /\ Goto("wait")
       \/ pc = "timers_after" /\ Goto("release")
    /\ UNCHANGED <<conns, loop>>

(* epoll_wait: one event per descriptor, and EPOLLOUT only where it was     *)
(* asked for; none when it times out or is interrupted.                     *)
Wait ==
    /\ pc = "wait"
    /\ \E listening \in BOOLEAN,
          got \in [DOMAIN clients -> {{}, {"HUP"}, {"IN"}, {"OUT"}, {"IN", "OUT"}}] :
          /\ \A fd \in DOMAIN clients : "OUT" \in got[fd] => clients[fd].pollout
          /\ batch' =
                {[fd |-> fd, connection_id |-> clients[fd].connection_id, events |-> got[fd]] :
                    fd \in {f \in DOMAIN clients : got[f] # {}}}
                \cup (IF listening THEN {[fd |-> ListenFd, connection_id |-> 0, events |-> {"IN"}]}
                      ELSE {})
    /\ Goto("dispatch")
    /\ UNCHANGED <<conns, next_connection_id, left>>

-----------------------------------------------------------------------------
(* HandlePollEvent, one event at a time in any order.                       *)

BatchDone ==
    /\ pc = "dispatch" /\ batch = {}
    /\ Goto("timers_after")
    /\ UNCHANGED <<conns, loop>>

HandleListenEvent ==
    /\ pc = "dispatch"
    /\ \E e \in batch : e.fd = ListenFd /\ batch' = batch \ {e}
    /\ Goto("accept")
    /\ UNCHANGED <<conns, next_connection_id, left>>

(* HandleClientEvent.  EPOLLRDHUP, EPOLLHUP and EPOLLERR close at once. *)
HandleHangUp ==
    /\ pc = "dispatch"
    /\ \E e \in batch :
          /\ e.fd \in DOMAIN clients /\ "HUP" \in e.events
          /\ batch' = batch \ {e}
          /\ CloseClientConnection(e.fd, clients[e.fd], "peer")
    /\ UNCHANGED <<next_connection_id, left, pc, cur>>

HandleClientEvent ==
    /\ pc = "dispatch"
    /\ \E e \in batch :
          /\ e.fd # ListenFd
          /\ e.fd \in DOMAIN clients => "HUP" \notin e.events
          /\ batch' = batch \ {e}
          /\ IF e.fd \in DOMAIN clients
             THEN /\ cur' = NewFrame(e.fd, "dispatch", "IN" \in e.events)
                  /\ pc' = IF clients[e.fd].output_buffer > 0 /\ "OUT" \in e.events
                           THEN "flush" ELSE "event_read"
             ELSE UNCHANGED <<pc, cur>>
    /\ UNCHANGED <<conns, next_connection_id, left>>

(* ... and after its FlushClientOutput: only with nothing left to send is   *)
(* EPOLLIN looked at, and an idle connection starts its next header.        *)
EventRead ==
    /\ pc = "event_read" /\ me.output_buffer = 0 /\ cur.readable
    /\ pc' = "read" /\ cur' = [cur EXCEPT !.reading = TRUE]
    /\ Keep(IF "idle" \in me.armed THEN ArmHeaderTimeout(me) ELSE me)
    /\ UNCHANGED global_inflight_bytes

EventReturns ==
    /\ pc = "event_read" /\ (me.output_buffer > 0 \/ ~cur.readable)
    /\ Return
    /\ UNCHANGED <<conns, loop>>

-----------------------------------------------------------------------------
(* DrainAcceptQueue.  A connection the rate limiter refuses is answered 429 *)
(* and dropped before it reaches any of this state, so it is not a step.    *)

RegisterAcceptedConnection ==
    /\ pc = "accept" /\ next_connection_id <= MaxAccepts
    /\ \E fd \in Fd \ DOMAIN clients :
          /\ clients' = [f \in DOMAIN clients \cup {fd} |->
                            IF f = fd THEN ArmHeaderTimeout(NewConnection(next_connection_id))
                            ELSE clients[f]]
          /\ cur' = NewFrame(fd, "dispatch", FALSE)
    /\ next_connection_id' = next_connection_id + 1
    /\ active_connection_count' = active_connection_count + 1
    /\ pc' = "limit"
    /\ UNCHANGED <<ready_queue, pending_close_queue, global_inflight_bytes, batch, left>>

FaultyEnforceConnectionLimit ==
    /\ pc = "limit"
    /\ pc' = "accept" /\ cur' = NoFrame
    /\ IF active_connection_count - 1 > kMaxConnections
       THEN CloseClientConnection(cur.fd, me, "limit")
       ELSE UNCHANGED conns
    /\ UNCHANGED loop

EvictingEnforceConnectionLimit ==
    /\ pc = "limit"
    /\ pc' = "accept" /\ cur' = NoFrame
    /\ IF active_connection_count > kMaxConnections
       THEN \E fd \in DOMAIN clients : CloseClientConnection(fd, clients[fd], "limit")
       ELSE UNCHANGED conns
    /\ UNCHANGED loop

EnforceConnectionLimit ==
    /\ pc = "limit"
    /\ pc' = "accept" /\ cur' = NoFrame
    /\ IF active_connection_count > kMaxConnections
       THEN CloseClientConnection(cur.fd, me, "limit")
       ELSE UNCHANGED conns
    /\ UNCHANGED loop

AcceptQueueEmpty ==
    /\ pc = "accept"
    /\ Goto("dispatch")
    /\ UNCHANGED <<conns, loop>>

-----------------------------------------------------------------------------
(* FlushClientOutput.                                                       *)

AfterFlush == IF cur.origin = "ready" THEN "continue" ELSE "event_read"

FlushWrites ==
    /\ pc = "flush"
    /\ \E n \in 1..me.output_buffer :
          /\ n <= cur.write_remaining
          /\ Keep([me EXCEPT !.output_buffer = @ - n, !.wire = @ + n])
          /\ cur' = [cur EXCEPT !.write_remaining = @ - n]
          /\ global_inflight_bytes' = ReleaseInflightBytes(n)
    /\ pc' = pc

(* write() would block, or the write budget of this handler is used up. *)
FlushPauses ==
    /\ pc = "flush" /\ me.output_buffer > 0
    /\ \/ cur.write_remaining > 0 /\ Keep(me)
       \/ cur.write_remaining = 0 /\ Keep(UpdateClientPollMask(me))
    /\ Goto(AfterFlush)
    /\ UNCHANGED global_inflight_bytes

FaultyFlushedRequeues ==
    /\ pc = "flush" /\ me.output_buffer = 0
    /\ HasCompleteHeader(me.input_buffer) \/ me.ready_for_read
    /\ Keep(UpdateClientPollMask(me))
    /\ Goto(AfterFlush)
    /\ UNCHANGED global_inflight_bytes

FlushedRequeues ==
    /\ pc = "flush" /\ me.output_buffer = 0
    /\ HasCompleteHeader(me.input_buffer) \/ me.ready_for_read
    /\ Requeue(UpdateClientPollMask(me))
    /\ Goto(AfterFlush)
    /\ UNCHANGED global_inflight_bytes

FaultyFlushedCloses ==
    /\ pc = "flush" /\ me.output_buffer = 0
    /\ ~HasCompleteHeader(me.input_buffer) /\ ~me.ready_for_read
    /\ me.close_after_write
    /\ Keep(UpdateClientPollMask(me))
    /\ Goto(AfterFlush)
    /\ UNCHANGED global_inflight_bytes

FlushedCloses ==
    /\ pc = "flush" /\ me.output_buffer = 0
    /\ ~HasCompleteHeader(me.input_buffer) /\ ~me.ready_for_read
    /\ me.close_after_write
    /\ Close(me, "done")

FlushedIdles ==
    /\ pc = "flush" /\ me.output_buffer = 0
    /\ ~HasCompleteHeader(me.input_buffer) /\ ~me.ready_for_read
    /\ ~me.close_after_write
    /\ Keep(UpdateClientPollMask(IF me.keep_alive_enabled THEN ArmIdleKeepAliveTimeout(me)
                                 ELSE me))
    /\ Goto(AfterFlush)
    /\ UNCHANGED global_inflight_bytes

-----------------------------------------------------------------------------
(* ReadFromClient.                                                          *)

FaultyReadSome ==
    /\ pc = "read"
    /\ \E n \in 1..kReadChunkSize : \E data \in [1..n -> Token] :
          /\ n <= cur.read_remaining /\ ~OverBudget(n)
          /\ ClientMaySend(me, data)
          /\ Keep([me EXCEPT !.input_buffer = @ \o data])
          /\ global_inflight_bytes' = global_inflight_bytes + n
          /\ pc' = IF me.waiting_for_request_body THEN "consume" ELSE "check_header"
          /\ cur' = [cur EXCEPT !.back = "chunk"]

ReadSome ==
    /\ pc = "read"
    /\ \E n \in 1..kReadChunkSize : \E data \in [1..n -> Token] :
          /\ n <= cur.read_remaining
          /\ ClientMaySend(me, data)
          /\ IF OverBudget(n)
             THEN Reject(me)
             ELSE /\ Keep([me EXCEPT !.input_buffer = @ \o data])
                  /\ global_inflight_bytes' = global_inflight_bytes + n
                  /\ pc' = IF me.waiting_for_request_body THEN "consume" ELSE "check_header"
                  /\ cur' = [cur EXCEPT !.read_remaining = @ - n, !.back = "chunk"]

(* read() returns 0 or fails. *)
ReadEnds == pc = "read" /\ Close(me, "peer")

ReadWouldBlock ==
    /\ pc = "read"
    /\ Return
    /\ UNCHANGED <<conns, loop>>

CheckHeaderLimit ==
    /\ pc = "check_header"
    /\ IF HeaderExceedsLimit(me.input_buffer, kMaxHeaderBytes)
       THEN Reject(me)
       ELSE /\ pc' = "process" /\ cur' = [cur EXCEPT !.processed_requests = 0]
            /\ UNCHANGED <<conns, loop>>

FaultyChunkDone ==
    /\ pc = "chunk"
    /\ IF cur.read_remaining = 0
       THEN Keep([me EXCEPT !.ready_for_read = TRUE]) /\ Return
       ELSE Keep(me) /\ Goto("read")
    /\ UNCHANGED global_inflight_bytes

(* The end of one turn of the read loop. *)
ChunkDone ==
    /\ pc = "chunk"
    /\ IF cur.read_remaining = 0
       THEN Requeue([me EXCEPT !.ready_for_read = TRUE]) /\ Return
       ELSE Keep(me) /\ Goto("read")
    /\ UNCHANGED global_inflight_bytes

-----------------------------------------------------------------------------
(* ProcessBufferedHeaders: one header per step, then its tail.              *)

ProcessHeader ==
    /\ pc = "process" /\ cur.processed_requests < kMaxRequestsPerRound
    /\ \E i \in HeaderEnds(me.input_buffer) :
          LET request == me.input_buffer[i]
              popped  == [me EXCEPT !.input_buffer = ConsumePrefix(@, i)]
              next    == [cur EXCEPT !.processed_requests = @ + 1, !.popped = @ + 1]
          IN  /\ IsHeaderEnd(me.input_buffer, i)
              /\ IF \/ Parse[request].parse_error # "kNone"
                    \/ Parse[request].content_length > kMaxBodyBytes
                 THEN Reject(me)
                 ELSE /\ global_inflight_bytes' = ReleaseInflightBytes(i)
                      /\ IF Parse[request].content_length > 0
                         THEN /\ Keep(BeginRequestBodyReceive(popped, request))
                              /\ pc' = "consume" /\ cur' = [next EXCEPT !.back = "tail"]
                         ELSE /\ Keep(popped)
                              /\ pc' = "respond"
                              /\ cur' = [next EXCEPT !.request = request, !.back = "process"]

ProcessStops ==
    /\ pc = "process"
    /\ \/ cur.processed_requests = kMaxRequestsPerRound
       \/ ~HasCompleteHeader(me.input_buffer)
    /\ Goto("tail")
    /\ UNCHANGED <<conns, loop>>

(* Where ProcessBufferedHeaders returns true to. *)
AfterProcess == IF cur.reading THEN "chunk" ELSE "continue_read"

FaultyTailRequeues ==
    /\ pc = "tail" /\ ~me.waiting_for_request_body
    /\ HasCompleteHeader(me.input_buffer)
    /\ Keep(me) /\ Return
    /\ UNCHANGED global_inflight_bytes

TailRequeues ==
    /\ pc = "tail" /\ ~me.waiting_for_request_body
    /\ HasCompleteHeader(me.input_buffer)
    /\ Requeue(me) /\ Return
    /\ UNCHANGED global_inflight_bytes

TailCloses ==
    /\ pc = "tail" /\ ~me.waiting_for_request_body
    /\ ~HasCompleteHeader(me.input_buffer)
    /\ me.output_buffer = 0 /\ me.close_after_write /\ ~me.ready_for_read
    /\ Close(me, "done")

FaultyTailArms ==
    /\ pc = "tail" /\ ~me.waiting_for_request_body
    /\ ~HasCompleteHeader(me.input_buffer)
    /\ me.output_buffer = 0 /\ ~me.close_after_write /\ ~me.ready_for_read
    /\ Keep(UpdateClientPollMask(IF me.input_buffer = << >> THEN ArmIdleKeepAliveTimeout(me)
                                 ELSE me))
    /\ Goto(AfterProcess)
    /\ UNCHANGED global_inflight_bytes

TailArms ==
    /\ pc = "tail" /\ ~me.waiting_for_request_body
    /\ ~HasCompleteHeader(me.input_buffer)
    /\ me.output_buffer = 0 /\ ~me.close_after_write /\ ~me.ready_for_read
    /\ Keep(UpdateClientPollMask(IF me.input_buffer = << >> THEN ArmIdleKeepAliveTimeout(me)
                                 ELSE ArmHeaderTimeout(me)))
    /\ Goto(AfterProcess)
    /\ UNCHANGED global_inflight_bytes

TailReturns ==
    /\ pc = "tail"
    /\ \/ me.waiting_for_request_body
       \/ /\ ~HasCompleteHeader(me.input_buffer)
          /\ me.output_buffer > 0 \/ me.ready_for_read
    /\ Goto(AfterProcess)
    /\ UNCHANGED <<conns, loop>>

-----------------------------------------------------------------------------
(* ConsumePendingRequestBody.                                               *)

FaultyConsumePart ==
    /\ pc = "consume"
    /\ Keep([me EXCEPT !.input_buffer = << >>,
                       !.pending_body_bytes_remaining = @ - Len(me.input_buffer)])
    /\ global_inflight_bytes' = ReleaseInflightBytes(Len(me.input_buffer))
    /\ Goto(cur.back)

ConsumePart ==
    /\ pc = "consume"
    /\ Len(me.input_buffer) < me.pending_body_bytes_remaining
    /\ Keep([me EXCEPT !.input_buffer = << >>,
                       !.pending_body_bytes_remaining = @ - Len(me.input_buffer)])
    /\ global_inflight_bytes' = ReleaseInflightBytes(Len(me.input_buffer))
    /\ Goto(cur.back)

ConsumeRest ==
    /\ pc = "consume"
    /\ me.pending_body_bytes_remaining <= Len(me.input_buffer)
    /\ Keep(DisarmBodyTimeout(
               [me EXCEPT !.input_buffer = ConsumePrefix(@, me.pending_body_bytes_remaining),
                          !.pending_body_bytes_remaining = 0,
                          !.waiting_for_request_body = FALSE,
                          !.pending_request = NoRequest]))
    /\ global_inflight_bytes' = ReleaseInflightBytes(me.pending_body_bytes_remaining)
    /\ pc' = "respond" /\ cur' = [cur EXCEPT !.request = me.pending_request]

-----------------------------------------------------------------------------
(* StartOkResponse.                                                         *)

KeepAlive == ShouldKeepAlive(cur.request) /\ ~me.close_after_write

FaultyAnswered ==
    [me EXCEPT !.keep_alive_enabled = KeepAlive,
               !.close_after_write = @ \/ ~KeepAlive,
               !.responses = @ + 1]

Answered ==
    [me EXCEPT !.armed = @ \ {"header", "idle"},
               !.keep_alive_enabled = KeepAlive,
               !.close_after_write = @ \/ ~KeepAlive,
               !.responses = @ + 1]

ResumeCaller == pc' = cur.back /\ cur' = [cur EXCEPT !.request = NoRequest]

FaultyRespondLater ==
    /\ pc = "respond"
    /\ me.output_buffer > 0 \/ cur.write_remaining = 0
    /\ IF OverBudget(ResponseSize)
       THEN Reject(Answered)
       ELSE /\ Keep(UpdateClientPollMask([Answered EXCEPT !.output_buffer = ResponseSize]))
            /\ global_inflight_bytes' = global_inflight_bytes + ResponseSize
            /\ ResumeCaller

(* Behind an earlier response, or with no write budget left: all of it is   *)
(* appended to the output buffer.                                           *)
RespondLater ==
    /\ pc = "respond"
    /\ me.output_buffer > 0 \/ cur.write_remaining = 0
    /\ IF OverBudget(ResponseSize)
       THEN Reject(Answered)
       ELSE /\ Keep(UpdateClientPollMask([Answered EXCEPT !.output_buffer = @ + ResponseSize]))
            /\ global_inflight_bytes' = global_inflight_bytes + ResponseSize
            /\ ResumeCaller

(* write() takes n bytes at once; the rest waits in the output buffer. *)
RespondNow ==
    /\ pc = "respond" /\ me.output_buffer = 0
    /\ \E n \in 0..ResponseSize :
          LET sent == [Answered EXCEPT !.wire = @ + n]
              rest == ResponseSize - n
          IN  /\ cur.write_remaining > 0 /\ n <= cur.write_remaining
              /\ \/ /\ rest = 0
                    /\ Keep(sent)
                    /\ UNCHANGED global_inflight_bytes
                 \/ /\ rest > 0 /\ ~OverBudget(rest)
                    /\ Keep(UpdateClientPollMask([sent EXCEPT !.output_buffer = rest]))
                    /\ global_inflight_bytes' = global_inflight_bytes + rest
              /\ pc' = cur.back
              /\ cur' = [cur EXCEPT !.write_remaining = @ - n, !.request = NoRequest]

RespondOverBudget ==
    /\ pc = "respond" /\ me.output_buffer = 0 /\ cur.write_remaining > 0
    /\ \E n \in 0..ResponseSize - 1 :
          /\ n <= cur.write_remaining
          /\ OverBudget(ResponseSize - n)
          /\ Reject([Answered EXCEPT !.wire = @ + n])

-----------------------------------------------------------------------------
(* A write() that fails throws: the connection is closed, or, on a pipe the *)
(* peer has closed, SIGPIPE ends the process, which does not ignore it.     *)

Writing == \/ pc = "flush" /\ me.output_buffer > 0 /\ cur.write_remaining > 0
           \/ pc = "respond" /\ me.output_buffer = 0 /\ cur.write_remaining > 0

WriteFails ==
    /\ Writing
    /\ Close(IF pc = "respond" THEN Answered ELSE me, "peer")

Exit == /\ pc' = "exited" /\ cur' = NoFrame
        /\ UNCHANGED <<conns, loop>>

BrokenPipe == Writing /\ Exit

(* accept4 throws on any error that is not EAGAIN or EINTR; main catches it *)
(* and the process ends.                                                    *)
AcceptFails == pc = "accept" /\ Exit

FaultyFlushPendingCloseQueue ==
    /\ pc = "release"
    /\ left' = Len(ready_queue)
    /\ Goto("ready")
    /\ UNCHANGED <<conns, next_connection_id, batch>>

ShortFlushPendingCloseQueue ==
    /\ pc = "release"
    /\ pending_close_queue' = {}
    /\ left' = IF ready_queue = << >> THEN 0 ELSE Len(ready_queue) - 1
    /\ Goto("ready")
    /\ UNCHANGED <<clients, ready_queue, active_connection_count, global_inflight_bytes,
                   next_connection_id, batch>>

(* The end of a round, and Run's test of the stop flag. *)
FlushPendingCloseQueue ==
    /\ pc = "release"
    /\ pending_close_queue' = {}
    /\ left' = Len(ready_queue)
    /\ Goto("ready")
    /\ UNCHANGED <<clients, ready_queue, active_connection_count, global_inflight_bytes,
                   next_connection_id, batch>>

StopRequested == pc = "release" /\ Exit

Exited == pc = "exited" /\ UNCHANGED vars

Next ==
    \/ PopReady \/ ReadyQueueDone
    \/ ContinueWithBody \/ ContinueWithHeaders \/ ContinueWithRead \/ ContinueReturns
    \/ ExpireTimer \/ TimersDone \/ Wait
    \/ BatchDone \/ HandleListenEvent \/ HandleHangUp \/ HandleClientEvent
    \/ EventRead \/ EventReturns
    \/ RegisterAcceptedConnection \/ EnforceConnectionLimit \/ AcceptQueueEmpty
    \/ FlushWrites \/ FlushPauses \/ FlushedRequeues \/ FlushedCloses \/ FlushedIdles
    \/ ReadSome \/ ReadEnds \/ ReadWouldBlock \/ CheckHeaderLimit \/ ChunkDone
    \/ ProcessHeader \/ ProcessStops
    \/ TailRequeues \/ TailCloses \/ TailArms \/ TailReturns
    \/ ConsumePart \/ ConsumeRest
    \/ RespondLater \/ RespondNow \/ RespondOverBudget
    \/ WriteFails \/ BrokenPipe \/ AcceptFails
    \/ FlushPendingCloseQueue \/ StopRequested \/ Exited

Spec == Init /\ [][Next]_vars

-----------------------------------------------------------------------------
(* Safety.                                                                  *)

(* No connection is in the ReadyQueue twice, a closed one is not in it, and *)
(* in_ready_queue tells exactly who is.                                     *)
ReadyQueueConsistent ==
    /\ IsInjective(ready_queue)
    /\ Range(ready_queue) = {fd \in DOMAIN clients : clients[fd].in_ready_queue}

(* ProcessReadyQueue counts the queue once and pops that many times: the    *)
(* handlers it runs must never shorten what is left of the round, or        *)
(* front() is taken of an empty deque.                                      *)
ReadyRoundIntact ==
    /\ left <= Len(ready_queue)
    /\ pc \in HandlerPoints => \A i \in 1..left : ready_queue[i] # cur.fd

(* An event still to be handled is about the connection it was reported     *)
(* for, though descriptors are closed and reused while the batch is worked. *)
BatchIsCurrent ==
    \A e \in batch : e.fd # ListenFd =>
        e.fd \in DOMAIN clients /\ clients[e.fd].connection_id = e.connection_id

(* active_connection_count is the number of open connections, and only the  *)
(* one that EnforceConnectionLimitAfterRegister is looking at may exceed    *)
(* the cap.                                                                 *)
ActiveCountExact ==
    /\ active_connection_count = Cardinality(DOMAIN clients)
    /\ active_connection_count <= kMaxConnections + (IF pc = "limit" THEN 1 ELSE 0)

(* global_inflight_bytes is what the buffers hold, over every append, pop,  *)
(* flush and close, and never more than the budget.                         *)
InflightExact ==
    /\ global_inflight_bytes =
          SumFunction([fd \in DOMAIN clients |->
                          Len(clients[fd].input_buffer) + clients[fd].output_buffer])
    /\ global_inflight_bytes <= kMaxInflightBytes

(* Between handlers a connection asks for EPOLLOUT exactly while it has     *)
(* something to send: otherwise the rest of a response is never sent, or    *)
(* the loop spins.                                                          *)
OutputIsPolled ==
    pc \in LoopPoints =>
        \A fd \in DOMAIN clients : clients[fd].pollout <=> clients[fd].output_buffer > 0

(* The body timer runs exactly while a body is being received, and then     *)
(* everything read so far has been taken from the input buffer.             *)
BodyTimerExact ==
    \A fd \in DOMAIN clients :
        /\ clients[fd].waiting_for_request_body <=> "body" \in clients[fd].armed
        /\ clients[fd].waiting_for_request_body /\ pc \in LoopPoints =>
              clients[fd].input_buffer = << >> /\ clients[fd].pending_body_bytes_remaining > 0

(* No timeout on what the client should send can cut a response short.      *)
SendingIsNotTimed ==
    \A fd \in DOMAIN clients :
        clients[fd].output_buffer > 0 => clients[fd].armed \subseteq {"body"}

(* Until its first response a connection is under the header or the body    *)
(* timer whenever the loop waits.                                           *)
FirstRequestTimed ==
    pc = "wait" => \A fd \in DOMAIN clients :
        clients[fd].responses = 0 => clients[fd].armed \cap {"header", "body"} # {}

(* Every byte of every 200 response is on the wire or in the output buffer, *)
(* and a connection closed as done, or for being idle or slow to send a     *)
(* header, had them all sent.                                               *)
ResponsesAreWhole ==
    /\ \A fd \in DOMAIN clients :
          clients[fd].wire + clients[fd].output_buffer = ResponseSize * clients[fd].responses
    /\ \A p \in pending_close_queue : p.reason \in {"done", "header", "idle"} => p.unsent = 0

(* A body is never taken for a header: when no body is being received the   *)
(* buffer starts where a header starts.                                     *)
HeadersAreFramed ==
    \A fd \in DOMAIN clients :
        ~clients[fd].waiting_for_request_body /\ clients[fd].input_buffer # << >> =>
            clients[fd].input_buffer[1] # BodyByte

-----------------------------------------------------------------------------
(* The event loop implements HttpService: whatever is queued, cut short by  *)
(* a budget or waiting for epoll, each connection's requests are taken in   *)
(* order, whole, and each is answered once; responses leave in order; every *)
(* close has its reason; memory and connections stay within their limits.   *)
RequestOf(fd) ==
    IF pc = "respond" /\ fd = cur.fd THEN cur.request ELSE clients[fd].pending_request

ServedConnection(fd) ==
    [id       |-> clients[fd].connection_id,
     unread   |-> clients[fd].input_buffer,
     request  |-> RequestOf(fd),
     owed     |-> clients[fd].pending_body_bytes_remaining,
     answered |-> clients[fd].responses,
     sent     |-> clients[fd].wire,
     last     |-> clients[fd].close_after_write]

Served == IF pc = "exited" THEN << >> ELSE [fd \in DOMAIN clients |-> ServedConnection(fd)]

Ended == {[id |-> p.connection_id, reason |-> p.reason] : p \in pending_close_queue}

Service == INSTANCE HttpService
             WITH served <- Served, ended <- Ended, accepted <- next_connection_id - 1,
                  running <- pc # "exited"

ServesConnections == Service!Spec

-----------------------------------------------------------------------------
(* What ends a round.  Its loops run on counts and budgets: the turns that  *)
(* ProcessReadyQueue counted, the timers, the events of the batch, the      *)
(* read budget, the cap on requests, the write budget.                      *)

Phase == [ready |-> 6, timers |-> 5, wait |-> 4, dispatch |-> 3, accept |-> 3, limit |-> 3,
          timers_after |-> 2, release |-> 1, exited |-> 0]

Turns == IF pc \in {"timers", "timers_after"} THEN Cardinality(DOMAIN clients)
                                              ELSE left + Cardinality(batch)

Stages == [flush |-> 6, continue |-> 5, continue_parse |-> 4, check_header |-> 4,
           process |-> 3, tail |-> 2, chunk |-> 1, continue_read |-> 1, event_read |-> 1,
           read |-> 0]

(* A body and a response come before the point they return to. *)
ReachedStage == Stages[IF pc \in {"consume", "respond"} THEN cur.back ELSE pc]
Detour       == IF pc = "consume" THEN 2 ELSE IF pc = "respond" THEN 1 ELSE 0
Accepting    == IF pc = "limit" THEN 2 ELSE IF pc = "accept" THEN 1 ELSE 0

Rank ==
    IF pc \in HandlerPoints
    THEN <<Phase[cur.origin], Turns, 1, cur.read_remaining, ReachedStage,
           kMaxRequestsPerRound - cur.processed_requests, Detour, cur.write_remaining>>
    ELSE <<Phase[pc], Turns, Accepting, 0, 0, 0, 0, 0>>

(* The lexicographic order of sequences of one length, which is well-founded. *)
Precedes(s, t) ==
    \E i \in 1..Len(t) : s[i] < t[i] /\ \A j \in 1..i - 1 : s[j] = t[j]

(* No connection, and no stream of input, holds the loop for ever: each     *)
(* step of a round brings its end nearer, but for the acceptance of a       *)
(* connection, which DrainAcceptQueue repeats as long as there are any.     *)
RoundsEnd ==
    [][pc # "release" /\ UNCHANGED next_connection_id =>
          Rank \in Seq(Nat) /\ Precedes(Rank', Rank)]_vars

-----------------------------------------------------------------------------
(* Liveness.  The thread runs on (WF of Next), which is all the first two   *)
(* properties need.  The others also need peers that go on reading what     *)
(* they are sent: a socket that waits for EPOLLOUT is reported writable     *)
(* again and again, and then write() takes something.                       *)

WaitFindsWritable(fd) ==
    Wait /\ \E e \in batch' : e.fd = fd /\ "OUT" \in e.events

PeersRead == /\ \A fd \in Fd : SF_vars(WaitFindsWritable(fd))
             /\ SF_vars(FlushWrites)

FairSpec == Spec /\ WF_vars(Next) /\ PeersRead

(* A connection in the ReadyQueue gets its turn, whatever the others do.    *)
QueuedGetTheirTurn ==
    \A fd \in Fd : (fd \in Range(ready_queue)) ~> (fd \notin Range(ready_queue) \/ pc = "exited")

(* Closed connection objects are released: none outlives its round.         *)
ClosedAreReleased ==
    (pending_close_queue # {}) ~> (pending_close_queue = {} \/ pc = "exited")

(* A request whose header is complete in the input buffer is taken, or its  *)
(* connection closed: it does not stay the next one to be answered.         *)
NextRequestIs(fd, k) ==
    /\ fd \in DOMAIN clients /\ clients[fd].responses = k
    /\ HasCompleteHeader(clients[fd].input_buffer)

BufferedRequestsAreTaken ==
    \A fd \in Fd, k \in 0..MaxRequests - 1 :
        NextRequestIs(fd, k) ~> (~NextRequestIs(fd, k) \/ pc = "exited")

(* A connection that has been told "Connection: close" is closed, if the    *)
(* read budget never cuts off a read of it: see FinishedConnectionsClose.   *)
ToldToClose(fd) == fd \in DOMAIN clients /\ clients[fd].close_after_write
ReadCutOff(fd)  == fd \in DOMAIN clients /\ clients[fd].ready_for_read

LastResponseCloses ==
    \A fd \in Fd :
        []~ReadCutOff(fd) => (ToldToClose(fd) ~> (~ToldToClose(fd) \/ pc = "exited"))

(* Whenever the loop waits, a connection has a timer, a place in the        *)
(* ReadyQueue or output to send: a client that takes its responses and then *)
(* falls silent does not keep one for ever, whatever its requests and their *)
(* fragments made the handlers arm and disarm, as long as no body is        *)
(* received and no read cut off.  With either, a connection can be left     *)
(* with none of the three.                                                  *)
Plain(c) == ~c.waiting_for_request_body /\ ~c.ready_for_read

Remembered(fd) ==
    \/ clients[fd].armed # {}
    \/ clients[fd].in_ready_queue
    \/ clients[fd].output_buffer > 0

ForgetsNobody ==
    [](\A fd \in DOMAIN clients : Plain(clients[fd]))
        => [](pc = "wait" => \A fd \in DOMAIN clients : Remembered(fd))

(* Every response built is sent to its last byte, in whatever pieces the   *)
(* peer takes it, or its connection is closed.                              *)
OwesResponse(fd, k) ==
    /\ fd \in DOMAIN clients /\ clients[fd].responses >= k
    /\ clients[fd].wire < ResponseSize * k

ResponsesAreSent ==
    \A fd \in Fd, k \in 1..MaxRequests :
        OwesResponse(fd, k) ~> (~OwesResponse(fd, k) \/ pc = "exited")

-----------------------------------------------------------------------------
(* What may not wait for the next EPOLLIN.  These two hold while requests   *)
(* have no body.                                                            *)

(* server.h:324: a connection whose input buffer holds a complete header is *)
(* in the ReadyQueue, or will be when its output is flushed, whenever the   *)
(* loop waits.                                                              *)
BufferedRequestsScheduled ==
    pc = "wait" => \A fd \in DOMAIN clients :
        HasCompleteHeader(clients[fd].input_buffer) =>
            clients[fd].in_ready_queue \/ clients[fd].output_buffer > 0

(* server.h:112: so is one whose read was cut off by its budget.            *)
ReadsAreContinued ==
    pc = "wait" => \A fd \in DOMAIN clients :
        clients[fd].ready_for_read =>
            clients[fd].in_ready_queue \/ clients[fd].output_buffer > 0

-----------------------------------------------------------------------------
(* What comments and the README say, and the code does not do.              *)

(* README.md:42, server.h:187: while a body is being received the body      *)
(* timer, and no other, limits it.                                          *)
BodyUnderBodyTimer ==
    \A fd \in DOMAIN clients :
        clients[fd].waiting_for_request_body => clients[fd].armed = {"body"}

(* server.h:107: once the queued responses are flushed, a connection with   *)
(* close_after_write is closed: it is not left open when the loop waits,    *)
(* with nothing queued and no timer.                                        *)
FinishedConnectionsClose ==
    pc = "wait" => \A fd \in DOMAIN clients :
        clients[fd].close_after_write => Remembered(fd)

(* server.cpp:46: one handler of a connection processes no more than        *)
(* kMaxRequestsPerRound requests.                                           *)
RequestsPerRoundCapped ==
    pc \in HandlerPoints => cur.popped <= kMaxRequestsPerRound

(* server.cpp:1424: a response does not overtake one that is not yet        *)
(* written: an error response goes out after whole 200 responses.           *)
ErrorsFollowResponses ==
    \A p \in pending_close_queue : p.reason = "error response" => p.unsent = 0

(* server.cpp:1239: no header longer than kMaxHeaderBytes is processed.     *)
HeaderLimitHolds ==
    /\ pc = "process" /\ cur.processed_requests < kMaxRequestsPerRound
    /\ HasCompleteHeader(me.input_buffer)
    => ~HeaderExceedsLimit(me.input_buffer, kMaxHeaderBytes)
=============================================================================
