------------------------ MODULE ServerServiceProofs ------------------------
(***************************************************************************)
(* The event loop of Server implements HttpService.  A handler's step on   *)
(* its connection is a step of that connection's pipeline, or is not       *)
(* noticed; the invariants of ServerProofs, ServerDataProofs and           *)
(* ServerInflightProofs say that the counters, buffers and flags the code  *)
(* decides by are what HttpService decides by.                             *)
(***************************************************************************)
EXTENDS ServerDataProofs, ServerInflightProofs

-----------------------------------------------------------------------------
(* The inductive invariant.                                                *)

(* The pending request is one whose body is being received, and the idle   *)
(* timer is for those that were answered.                                  *)
Pend(c) ==
    /\ c.waiting_for_request_body <=> c.pending_request # NoRequest
    /\ "idle" \in c.armed => c.responses > 0

(* What the running step of a handler, or of DrainAcceptQueue, works on. *)
Stage ==
    /\ pc = "limit" => me.connection_id = next_connection_id - 1
    /\ pc = "respond" => cur.request \in Requests
    /\ pc = "consume" => me.waiting_for_request_body

ServiceInv == Stage /\ \A fd \in DOMAIN clients : Pend(clients[fd])

SInv == DInv /\ InflightExact /\ ServiceInv

(* A step of HttpService, or one it does not notice. *)
Progress == [Service!Next]_(Service!vars)

(* A connection as HttpService sees it, with the request it serves. *)
View(c, request) ==
    [id |-> c.connection_id, unread |-> c.input_buffer, request |-> request,
     owed |-> c.pending_body_bytes_remaining, answered |-> c.responses,
     sent |-> c.wire, last |-> c.close_after_write]

-----------------------------------------------------------------------------
(* What HttpService reads from the buffers and counters.                   *)

LEMMA FirstHeaders ==
    ASSUME NEW in \in Seq(Token)
    PROVE  /\ \A i \in HeaderEnds(in) : IsHeaderEnd(in, i) <=> i \in Service!FirstHeader(in)
           /\ Service!FirstHeader(in) \subseteq HeaderEnds(in)
           /\ HasCompleteHeader(in) <=> Service!FirstHeader(in) # {}
           /\ HeaderExceedsLimit(in, kMaxHeaderBytes) <=> Service!IsTooLong(in)
PROOF
<1>1. HeaderEnds(in) \subseteq 1..Len(in) /\ Len(in) \in Nat
    BY DEF HeaderEnds
<1>2. ASSUME NEW i \in HeaderEnds(in)
      PROVE  IsHeaderEnd(in, i) <=> i \in Service!FirstHeader(in)
    BY <1>1 DEF IsHeaderEnd, HeaderEnds, Service!FirstHeader
<1>3. Service!FirstHeader(in) \subseteq HeaderEnds(in)
    BY DEF HeaderEnds, Service!FirstHeader
<1>4. ASSUME HeaderEnds(in) # {}
      PROVE  \E h \in HeaderEnds(in) : IsHeaderEnd(in, h)
    <2>1. PICK h \in HeaderEnds(in) : \A j \in HeaderEnds(in) : h <= j
        <3>1. HeaderEnds(in) \subseteq Nat
            BY <1>1
        <3> QED BY <1>4, <3>1, LeastMember
    <2> QED BY <2>1 DEF IsHeaderEnd
<1>5. HasCompleteHeader(in) <=> Service!FirstHeader(in) # {}
    BY <1>2, <1>3, <1>4 DEF HasCompleteHeader
<1>6. HeaderExceedsLimit(in, kMaxHeaderBytes) <=> Service!IsTooLong(in)
    <2>1. kMaxHeaderBytes \in Nat
        BY SizeAssumption
    <2>2. ASSUME \A i \in Service!FirstHeader(in) : i > kMaxHeaderBytes, NEW j \in HeaderEnds(in)
          PROVE  j > kMaxHeaderBytes
        <3>1. PICK h \in HeaderEnds(in) : IsHeaderEnd(in, h)
            BY <1>4
        <3>2. h > kMaxHeaderBytes /\ h <= j
            BY <1>2, <2>2, <3>1 DEF IsHeaderEnd
        <3> QED BY <1>1, <2>1, <3>2
    <2> QED BY <1>3, <2>2 DEF HeaderExceedsLimit, Service!IsTooLong
<1> QED BY <1>2, <1>3, <1>5, <1>6

(* Of a response the server knows what is in the output buffer, HttpService *)
(* what is on the wire.                                                     *)
LEMMA UnsentIsOutput ==
    ASSUME NEW c \in ClientConnection, NEW r, Whole(c)
    PROVE  Service!Unsent(View(c, r)) = c.output_buffer
PROOF
<1> DEFINE built == ResponseSize * c.responses
<1>1. ResponseSize \in Nat /\ c.responses \in Nat /\ c.wire \in Nat /\ c.output_buffer \in Nat
    BY Sizes DEF ClientConnection
<1>2. built \in Nat
    BY <1>1
<1>3. c.wire + c.output_buffer = built
    BY DEF Whole
<1>4. Service!Unsent(View(c, r)) = built - c.wire
    BY DEF Service!Unsent, View
<1> HIDE DEF built
<1> QED BY <1>1, <1>2, <1>3, <1>4

(* The library's operators are the same in both modules. *)
LEMMA SameCardinality == \A S : Service!Cardinality(S) = Cardinality(S)
PROOF
BY DEF Service!Cardinality, Cardinality

LEMMA SameSum == \A f : Service!SumFunction(f) = SumFunction(f)
PROOF
<1> TAKE f
<1>1. Service!SumFunction(f) = Total(f, DOMAIN f)
    BY DEF Service!SumFunction, Service!SumFunctionOnSet, Service!FoldFunction,
           Service!FoldFunctionOnSet, Service!MapThenFoldSet, Total, Sums, Picked
<1> QED BY <1>1, SumIsTotal

(* The open connections, as HttpService sees them. *)
LEMMA ServedViews ==
    ASSUME SInv, pc # "exited"
    PROVE  /\ DOMAIN Served = DOMAIN clients
           /\ Served \in [DOMAIN clients -> {View(clients[f], RequestOf(f)) : f \in DOMAIN clients}]
           /\ \A fd \in DOMAIN clients : /\ Served[fd] = View(clients[fd], RequestOf(fd))
                                         /\ clients[fd] \in ClientConnection /\ Whole(clients[fd])
PROOF
<1>1. \A fd \in DOMAIN clients : clients[fd] \in ClientConnection /\ Whole(clients[fd])
    BY OpenConnections DEF SInv, DInv, DataInv, Inv
<1> QED BY <1>1 DEF Served, ServedConnection, View

(* The server's counters say how much room there is. *)
LEMMA RoomIsExact ==
    ASSUME SInv, pc # "exited"
    PROVE  /\ Service!Used = global_inflight_bytes
           /\ \A n \in Nat \ {0} : Service!HasRoom(n) <=> ~OverBudget(n)
           /\ Service!HasRoom(0)
           /\ \A m, n \in Nat : m <= n /\ Service!HasRoom(n) => Service!HasRoom(m)
           /\ Service!WithinCap <=> active_connection_count <= kMaxConnections
           /\ pc # "limit" => Service!WithinCap
PROOF
<1>1. /\ global_inflight_bytes \in Nat /\ global_inflight_bytes <= kMaxInflightBytes
      /\ global_inflight_bytes = SumFunction(Holdings(clients))
      /\ IsFiniteSet(DOMAIN clients)
    BY HeldIsExact DEF SInv, DInv
<1>2. [fd \in DOMAIN Served |-> Len(Served[fd].unread) + Service!Unsent(Served[fd])]
        = Holdings(clients)
    <2>1. ASSUME NEW fd \in DOMAIN clients
          PROVE  Len(Served[fd].unread) + Service!Unsent(Served[fd]) = HeldOf(clients[fd])
        <3>1. Service!Unsent(Served[fd]) = clients[fd].output_buffer
            BY ServedViews, UnsentIsOutput
        <3>2. Served[fd].unread = clients[fd].input_buffer
            BY ServedViews DEF View
        <3> QED BY <3>1, <3>2 DEF HeldOf
    <2>2. DOMAIN Served = DOMAIN clients
        BY ServedViews
    <2> QED BY <2>1, <2>2 DEF Holdings
<1>3. Service!Used = global_inflight_bytes
    BY <1>1, <1>2, SameSum DEF Service!Used
<1>4. kMaxInflightBytes \in Nat
    BY SizeAssumption
<1>5. \A n \in Nat : Service!HasRoom(n) <=> global_inflight_bytes + n <= kMaxInflightBytes
    BY <1>3 DEF Service!HasRoom
<1>6. \A n \in Nat \ {0} :
          OverBudget(n) <=> ~(global_inflight_bytes + n <= kMaxInflightBytes)
    BY <1>1, <1>4 DEF OverBudget
<1>7. /\ Service!WithinCap <=> active_connection_count <= kMaxConnections
      /\ pc # "limit" => Service!WithinCap
    <2>1. /\ active_connection_count = Cardinality(DOMAIN clients)
          /\ active_connection_count <= kMaxConnections + (IF pc = "limit" THEN 1 ELSE 0)
        BY DEF SInv, DInv, Inv, ActiveCountExact
    <2>2. Cardinality(DOMAIN Served) = active_connection_count
        BY <2>1, ServedViews
    <2>3. active_connection_count \in Nat /\ kMaxConnections \in Nat
        BY Sizes DEF SInv, DInv, Inv, TypeOK
    <2> QED BY <2>1, <2>2, <2>3, SameCardinality DEF Service!WithinCap
<1>8. /\ \A n \in Nat \ {0} : Service!HasRoom(n) <=> ~OverBudget(n)
      /\ Service!HasRoom(0)
      /\ \A m, n \in Nat : m <= n /\ Service!HasRoom(n) => Service!HasRoom(m)
    BY <1>1, <1>4, <1>5, <1>6
<1> QED BY <1>3, <1>7, <1>8

-----------------------------------------------------------------------------
(* How a step of the event loop is one of HttpService.                     *)

(* HttpService does not notice what changes none of its variables. *)
LEMMA Unnoticed ==
    ASSUME pc # "exited", pc' # "exited", Served' = Served,
           UNCHANGED <<pending_close_queue, next_connection_id>>
    PROVE  Progress
PROOF
BY DEF Progress, Service!vars, Ended

(* A step of one connection is a step of HttpService. *)
LEMMA ServedStep ==
    ASSUME SInv, pc \notin {"exited", "limit"}, NEW fd \in DOMAIN clients, Service!Serve(fd)
    PROVE  Progress
PROOF
<1>1. fd \in DOMAIN Served /\ Service!WithinCap
    BY ServedViews, RoomIsExact
<1> QED BY <1>1 DEF Progress, Service!Next

(* What is not the running handler's connection is served as it was. *)
LEMMA ServedElsewhere ==
    ASSUME pc # "exited", pc' # "exited", NEW fd,
           pc = "respond" => fd = cur.fd, pc' = "respond" => fd = cur'.fd,
           NEW f \in DOMAIN clients, f \in DOMAIN clients', f # fd, clients'[f] = clients[f]
    PROVE  Served'[f] = Served[f]
PROOF
<1>1. RequestOf(f) = clients[f].pending_request /\ RequestOf(f)' = clients'[f].pending_request
    BY DEF RequestOf
<1>2. ServedConnection(f)' = ServedConnection(f)
    BY <1>1 DEF ServedConnection
<1> QED BY <1>2 DEF Served

(* ServiceInv is about one connection at a time. *)
LEMMA ServiceStep ==
    ASSUME ServiceInv, NEW fd, Stage',
           \A f \in DOMAIN clients' \ {fd} : f \in DOMAIN clients /\ clients'[f] = clients[f],
           fd \in DOMAIN clients' => Pend(clients'[fd])
    PROVE  ServiceInv'
PROOF
BY DEF ServiceInv, Pend

(* The request that a connection c is served for, at the point p. *)
ServedFor(c, p, f) == IF p = "respond" THEN f.request ELSE c.pending_request

(* A handler changes its connection from me to c. *)
LEMMA HandlerServes ==
    ASSUME SInv, Handling, NEW c, Pend(c), Stage', clients' = [clients EXCEPT ![cur.fd] = c],
           pc' # "exited", pc' = "respond" => cur'.fd = cur.fd,
           UNCHANGED <<pending_close_queue, next_connection_id>>
    PROVE  /\ cur.fd \in DOMAIN clients /\ pc \notin {"exited", "limit"}
           /\ Served[cur.fd] = View(me, ServedFor(me, pc, cur))
           /\ Service!Becomes(cur.fd, View(c, ServedFor(c, pc', cur')))
           /\ View(c, ServedFor(c, pc', cur')) = View(me, ServedFor(me, pc, cur)) => Progress
           /\ ServiceInv'
PROOF
<1> DEFINE v == View(c, ServedFor(c, pc', cur'))
           w == View(me, ServedFor(me, pc, cur))
<1>1. cur.fd \in DOMAIN clients /\ pc \notin {"exited", "limit"}
    BY HandledData DEF SInv, HandlerPoints
<1>2. Served[cur.fd] = w
    BY <1>1 DEF Served, ServedConnection, RequestOf, ServedFor, View, me
<1>3. DOMAIN clients' = DOMAIN clients /\ clients'[cur.fd] = c
    BY <1>1
<1>4. Served'[cur.fd] = v
    <2>1. PICK fd : fd = cur.fd
        OBVIOUS
    <2>2. Served'[fd] = ServedConnection(fd)'
        BY <1>1, <1>3, <2>1 DEF Served
    <2>3. ServedConnection(fd)' = v
        BY <1>3, <2>1 DEF ServedConnection, RequestOf, ServedFor, View
    <2> QED BY <2>1, <2>2, <2>3
<1>5. DOMAIN Served = DOMAIN clients /\ DOMAIN Served' = DOMAIN clients
    BY <1>1, <1>3 DEF Served
<1>6. \A f \in DOMAIN clients : f # cur.fd => Served'[f] = Served[f]
    BY <1>1, <1>3, ServedElsewhere
<1>7. Served' = [Served EXCEPT ![cur.fd] = v]
    BY <1>1, <1>4, <1>5, <1>6 DEF Served
<1>8. Service!Becomes(cur.fd, v)
    BY <1>1, <1>7 DEF Service!Becomes, Ended
<1>9. v = w => Progress
    <2>1. /\ Served = [f \in DOMAIN clients |-> Served[f]]
          /\ Served' = [f \in DOMAIN clients |-> Served'[f]]
        BY <1>1, <1>3 DEF Served
    <2> HIDE DEF v, w
    <2>2. v = w => Served' = Served
        BY <1>2, <1>4, <1>6, <2>1
    <2> QED BY <1>1, <2>2, Unnoticed
<1>10. ServiceInv'
    BY <1>1, ServiceStep DEF SInv
<1> QED BY <1>1, <1>2, <1>8, <1>9, <1>10

(* CloseClientConnection ends the connection for HttpService. *)
LEMMA ClosedEnds ==
    ASSUME SInv, pc # "exited", NEW fd \in DOMAIN clients, NEW c, NEW reason,
           c.connection_id = clients[fd].connection_id, Handling => fd = cur.fd,
           CloseClientConnection(fd, c, reason),
           pc' \in LoopPoints \ {"exited"}, UNCHANGED next_connection_id
    PROVE  Service!End(fd, reason) /\ ServiceInv'
PROOF
<1>1. pc' \notin {"exited", "limit", "respond", "consume"} /\ (pc = "respond" => fd = cur.fd)
    BY DEF LoopPoints, Handling, HandlerPoints
<1>2. /\ DOMAIN clients' = DOMAIN clients \ {fd}
      /\ \A f \in DOMAIN clients' : clients'[f] = clients[f]
    BY DEF CloseClientConnection, Restrict
<1>3. DOMAIN Served = DOMAIN clients /\ DOMAIN Served' = DOMAIN Served \ {fd}
    BY <1>1, <1>2 DEF Served
<1>4. \A f \in DOMAIN Served' : Served'[f] = Served[f]
    BY <1>1, <1>2, <1>3, ServedElsewhere
<1>5. Served' = Service!Restrict(Served, DOMAIN Served \ {fd})
    <2>1. Served' = [f \in DOMAIN Served' |-> Served'[f]]
        BY <1>1 DEF Served
    <2> QED BY <1>3, <1>4, <2>1 DEF Service!Restrict
<1>6. Ended' = Ended \cup {[id |-> Served[fd].id, reason |-> reason]}
    <2> DEFINE e == [connection_id |-> c.connection_id, reason |-> reason,
                     unsent |-> ResponseSize * c.responses - c.wire]
    <2>1. pending_close_queue' = pending_close_queue \cup {e}
        BY DEF CloseClientConnection
    <2>2. e.connection_id = c.connection_id /\ e.reason = reason
        OBVIOUS
    <2>3. Served[fd].id = c.connection_id
        BY DEF Served, ServedConnection
    <2> HIDE DEF e
    <2> QED BY <2>1, <2>2, <2>3 DEF Ended
<1>7. Service!End(fd, reason)
    BY <1>1, <1>5, <1>6 DEF Service!End
<1>8. Stage'
    BY <1>1 DEF Stage
<1> QED BY <1>2, <1>7, <1>8, ServiceStep DEF SInv

(* A handler closes its connection. *)
LEMMA HandlerEnds ==
    ASSUME SInv, Handling, NEW c, NEW reason, c.connection_id = me.connection_id,
           Close(c, reason)
    PROVE  /\ cur.fd \in DOMAIN clients /\ pc \notin {"exited", "limit"}
           /\ Served[cur.fd] = View(me, ServedFor(me, pc, cur))
           /\ Service!End(cur.fd, reason) /\ ServiceInv'
PROOF
<1>1. cur.fd \in DOMAIN clients /\ pc \notin {"exited", "limit"} /\ cur \in Frame
    BY HandledData DEF SInv, HandlerPoints
<1>2. /\ pc' \in LoopPoints \ {"exited"} /\ UNCHANGED next_connection_id
      /\ CloseClientConnection(cur.fd, c, reason)
    BY <1>1 DEF Close, Return, Frame, LoopPoints, loop
<1>3. Served[cur.fd] = View(me, ServedFor(me, pc, cur))
    BY <1>1 DEF Served, ServedConnection, RequestOf, ServedFor, View, me
<1> QED BY <1>1, <1>2, <1>3, ClosedEnds DEF me

-----------------------------------------------------------------------------
(* The loop.                                                               *)

(* Between the handlers' answers, the same clients are served the same. *)
LEMMA SameClients ==
    ASSUME UNCHANGED clients, pc \notin {"exited", "respond"}, pc' \notin {"exited", "respond"}
    PROVE  Served' = Served
PROOF
BY DEF Served, ServedConnection, RequestOf

(* The loop goes from one phase to the next. *)
LEMMA LoopService ==
    ASSUME SInv, LoopStep \/ HandleClientEvent
    PROVE  Progress /\ ServiceInv'
PROOF
<1>1. UNCHANGED <<clients, next_connection_id>> /\ pc \in LoopPoints \ {"exited"}
    BY DEF LoopStep, HandleClientEvent, ReadyQueueDone, TimersDone, Wait, BatchDone,
           HandleListenEvent, AcceptQueueEmpty, AcceptFails, FlushPendingCloseQueue,
           StopRequested, Exit, conns, loop, LoopPoints
<1>2. pc' \in LoopPoints \cup {"flush", "event_read"}
    BY <1>1
    DEF LoopStep, HandleClientEvent, ReadyQueueDone, TimersDone, Wait, BatchDone, Goto,
        HandleListenEvent, AcceptQueueEmpty, AcceptFails, FlushPendingCloseQueue,
        StopRequested, Exit, LoopPoints
<1>3. pc \notin {"exited", "respond", "limit"} /\ pc' \notin {"limit", "respond", "consume"}
    BY <1>1, <1>2 DEF LoopPoints
<1>4. ServiceInv'
    <2>1. Stage'
        BY <1>3 DEF Stage
    <2> QED BY <1>1, <2>1 DEF SInv, ServiceInv, Pend
<1>5. Service!WithinCap
    BY <1>3, RoomIsExact
<1>6. CASE AcceptFails \/ StopRequested
    <2>1. pc' = "exited" /\ UNCHANGED <<pending_close_queue, next_connection_id>>
        BY <1>6 DEF AcceptFails, StopRequested, Exit, conns, loop
    <2>2. Service!Exit
        BY <2>1 DEF Service!Exit, Served, Ended
    <2> QED BY <1>3, <1>4, <1>5, <2>2 DEF Progress, Service!Next
<1>7. CASE FlushPendingCloseQueue
    <2>1. pc' = "ready" /\ pending_close_queue' = {}
        BY <1>7 DEF FlushPendingCloseQueue, Goto
    <2>2. Served' = Served
        BY <1>1, <1>3, <2>1, SameClients
    <2>3. Service!Release
        BY <1>1, <1>3, <2>1, <2>2 DEF Service!Release, Ended
    <2> QED BY <1>3, <1>4, <1>5, <2>3 DEF Progress, Service!Next
<1>8. CASE \/ ReadyQueueDone \/ TimersDone \/ Wait \/ BatchDone \/ HandleListenEvent
           \/ AcceptQueueEmpty \/ HandleClientEvent
    <2>1. pc' # "exited" /\ UNCHANGED <<pending_close_queue, next_connection_id>>
        BY <1>3, <1>8 DEF ReadyQueueDone, TimersDone, Wait, BatchDone, HandleListenEvent,
                         AcceptQueueEmpty, HandleClientEvent, Goto, conns, loop
    <2>2. Served' = Served
        BY <1>1, <1>3, <2>1, SameClients
    <2> QED BY <1>3, <1>4, <2>1, <2>2, Unnoticed
<1> QED BY <1>6, <1>7, <1>8 DEF LoopStep

(* The process ends under a handler that writes. *)
LEMMA BrokenPipeService ==
    ASSUME SInv, BrokenPipe
    PROVE  Progress /\ ServiceInv'
PROOF
<1>1. /\ pc \notin {"exited", "limit"} /\ pc' = "exited"
      /\ UNCHANGED <<clients, pending_close_queue, next_connection_id>>
    BY DEF BrokenPipe, Writing, Exit, conns, loop
<1>2. Service!Exit
    BY <1>1 DEF Service!Exit, Served, Ended
<1>3. Service!WithinCap
    BY <1>1, RoomIsExact
<1>4. ServiceInv'
    BY <1>1 DEF SInv, ServiceInv, Stage, Pend
<1> QED BY <1>1, <1>2, <1>3, <1>4 DEF Progress, Service!Next

(* ProcessReadyQueue takes up a connection. *)
LEMMA PopReadyService ==
    ASSUME SInv, PopReady
    PROVE  Progress /\ ServiceInv'
PROOF
<1>1. /\ pc = "ready" /\ pc' \in {"flush", "continue", "ready"}
      /\ UNCHANGED <<pending_close_queue, next_connection_id>>
    BY DEF PopReady
<1>2. Stage'
    BY <1>1 DEF Stage
<1>3. PICK fd : fd = Head(ready_queue)
    OBVIOUS
<1>4. CASE fd \in DOMAIN clients
    <2>1. /\ clients' = [clients EXCEPT ![fd].in_ready_queue = FALSE]
          /\ clients[fd] \in ClientConnection
        BY <1>3, <1>4, OpenConnections DEF PopReady, SInv, DInv, Inv
    <2> DEFINE c == [clients[fd] EXCEPT !.in_ready_queue = FALSE]
    <2>2. clients' = [clients EXCEPT ![fd] = c]
        BY <2>1
    <2>3. /\ c.connection_id = clients[fd].connection_id
          /\ c.input_buffer = clients[fd].input_buffer
          /\ c.pending_request = clients[fd].pending_request
          /\ c.pending_body_bytes_remaining = clients[fd].pending_body_bytes_remaining
          /\ c.responses = clients[fd].responses /\ c.wire = clients[fd].wire
          /\ c.close_after_write = clients[fd].close_after_write
          /\ c.waiting_for_request_body = clients[fd].waiting_for_request_body
          /\ c.armed = clients[fd].armed
        BY <2>1 DEF ClientConnection
    <2> HIDE DEF c
    <2>4. DOMAIN clients' = DOMAIN clients /\ clients'[fd] = c
        BY <1>4, <2>2
    <2>5. \A f \in DOMAIN clients : f # fd => clients'[f] = clients[f]
        BY <2>2
    <2>6. Served' = Served
        <3>1. ASSUME NEW f \in DOMAIN clients
              PROVE  ServedConnection(f)' = ServedConnection(f)
            BY <1>1, <2>3, <2>4, <2>5 DEF ServedConnection, RequestOf
        <3> QED BY <1>1, <2>4, <3>1 DEF Served
    <2>7. Pend(clients'[fd])
        BY <1>4, <2>3, <2>4 DEF SInv, ServiceInv, Pend
    <2> QED BY <1>1, <1>2, <2>4, <2>5, <2>6, <2>7, Unnoticed, ServiceStep DEF SInv
<1>5. CASE fd \notin DOMAIN clients
    <2>1. UNCHANGED <<clients, pc>>
        BY <1>3, <1>5 DEF PopReady
    <2>2. Served' = Served
        BY <1>1, <2>1, SameClients
    <2> QED BY <1>1, <1>2, <2>1, <2>2, Unnoticed DEF SInv, ServiceInv, Pend
<1> QED BY <1>4, <1>5

(* DrainAcceptQueue registers a connection, which has received nothing. *)
LEMMA RegisterService ==
    ASSUME SInv, RegisterAcceptedConnection
    PROVE  Progress /\ ServiceInv'
PROOF
<1>1. /\ pc = "accept" /\ pc' = "limit" /\ UNCHANGED pending_close_queue
      /\ next_connection_id' = next_connection_id + 1 /\ next_connection_id \in Nat
    BY DEF RegisterAcceptedConnection, SInv, DInv, Inv, TypeOK
<1> DEFINE new == ArmHeaderTimeout(NewConnection(next_connection_id))
<1>2. PICK fd \in Fd \ DOMAIN clients :
          /\ clients' = [f \in DOMAIN clients \cup {fd} |-> IF f = fd THEN new ELSE clients[f]]
          /\ cur' = NewFrame(fd, "dispatch", FALSE)
    BY DEF RegisterAcceptedConnection
<1>3. /\ new.connection_id = next_connection_id /\ new.input_buffer = << >>
      /\ new.pending_request = NoRequest /\ new.pending_body_bytes_remaining = 0
      /\ new.responses = 0 /\ new.wire = 0 /\ new.close_after_write = FALSE
      /\ new.waiting_for_request_body = FALSE /\ new.armed = {"header"}
    BY DEF ArmHeaderTimeout, NewConnection
<1> HIDE DEF new
<1>4. /\ DOMAIN clients' = DOMAIN clients \cup {fd} /\ clients'[fd] = new
      /\ \A f \in DOMAIN clients : clients'[f] = clients[f]
    BY <1>2
<1>5. Served'[fd] = Service!NewConnection((next_connection_id - 1) + 1)
    <2>1. Served'[fd] = ServedConnection(fd)'
        BY <1>1, <1>4 DEF Served
    <2>2. (next_connection_id - 1) + 1 = next_connection_id
        BY <1>1
    <2> QED BY <1>1, <1>3, <1>4, <2>1, <2>2
        DEF ServedConnection, RequestOf, Service!NewConnection
<1>6. \A f \in DOMAIN clients : Served'[f] = Served[f]
    BY <1>1, <1>2, <1>4, ServedElsewhere
<1>7. DOMAIN Served = DOMAIN clients /\ DOMAIN Served' = DOMAIN clients'
    BY <1>1 DEF Served
<1>8. Service!Accept(fd)
    <2>1. Served' = [f \in DOMAIN Served \cup {fd} |->
                       IF f = fd THEN Service!NewConnection((next_connection_id - 1) + 1)
                       ELSE Served[f]]
        <3>1. Served' = [f \in DOMAIN clients' |-> Served'[f]]
            BY <1>1 DEF Served
        <3> QED BY <1>2, <1>4, <1>5, <1>6, <1>7, <3>1
    <2>2. fd \notin DOMAIN Served
        BY <1>2, <1>7
    <2>3. next_connection_id' - 1 = (next_connection_id - 1) + 1
        BY <1>1
    <2> QED BY <1>1, <2>1, <2>2, <2>3 DEF Service!Accept, Ended
<1>9. Service!WithinCap
    BY <1>1, RoomIsExact
<1>10. Progress
    BY <1>1, <1>2, <1>8, <1>9 DEF Progress, Service!Next
<1>11. ServiceInv'
    <2>1. Pend(clients'[fd])
        BY <1>3, <1>4 DEF Pend
    <2>2. Stage'
        <3>1. cur'.fd = fd
            BY <1>2 DEF NewFrame
        <3>2. next_connection_id' - 1 = next_connection_id
            BY <1>1
        <3> QED BY <1>1, <1>3, <1>4, <3>1, <3>2 DEF Stage, me
    <2> QED BY <1>4, <2>1, <2>2, ServiceStep DEF SInv
<1> QED BY <1>10, <1>11

(* The connection over the cap is the newest one. *)
LEMMA LimitService ==
    ASSUME SInv, EnforceConnectionLimit
    PROVE  Progress /\ ServiceInv'
PROOF
<1>1. pc = "limit" /\ pc' = "accept" /\ UNCHANGED next_connection_id
    BY DEF EnforceConnectionLimit, loop
<1>2. cur.fd \in DOMAIN clients /\ ~Handling
    BY <1>1, HandledConnection DEF SInv, DInv, Handling, HandlerPoints
<1>3. pc' \in LoopPoints \ {"exited"}
    BY <1>1 DEF LoopPoints
<1>4. CASE active_connection_count > kMaxConnections
    <2>1. CloseClientConnection(cur.fd, me, "limit")
        BY <1>4 DEF EnforceConnectionLimit
    <2>2. Service!End(cur.fd, "limit") /\ ServiceInv'
        BY <1>1, <1>2, <1>3, <2>1, ClosedEnds DEF me
    <2>3. cur.fd \in DOMAIN Served /\ Served[cur.fd].id = next_connection_id - 1
        BY <1>1, <1>2 DEF SInv, ServiceInv, Stage, Served, ServedConnection, me
    <2>4. ~Service!WithinCap
        <3>1. active_connection_count \in Nat /\ kMaxConnections \in Nat
            BY Sizes DEF SInv, DInv, Inv, TypeOK
        <3> QED BY <1>1, <1>4, <3>1, RoomIsExact
    <2>5. Service!TurnAway(cur.fd)
        BY <2>2, <2>3 DEF Service!TurnAway
    <2> QED BY <1>1, <2>2, <2>3, <2>4, <2>5 DEF Progress, Service!Next
<1>5. CASE ~(active_connection_count > kMaxConnections)
    <2>1. UNCHANGED <<clients, pending_close_queue>>
        BY <1>5 DEF EnforceConnectionLimit, conns
    <2>2. Served' = Served
        BY <1>1, <2>1, SameClients
    <2>3. ServiceInv'
        BY <1>1, <2>1 DEF SInv, ServiceInv, Stage, Pend
    <2> QED BY <1>1, <2>1, <2>2, <2>3, Unnoticed
<1> QED BY <1>4, <1>5

(* What an open connection that no handler works on is served. *)
LEMMA ServedIdle ==
    ASSUME SInv, pc \in LoopPoints \ {"exited"}, NEW fd \in DOMAIN clients
    PROVE  /\ fd \in DOMAIN Served
           /\ Served[fd] = View(clients[fd], clients[fd].pending_request)
           /\ Service!Unsent(Served[fd]) = clients[fd].output_buffer
           /\ clients[fd] \in ClientConnection
           /\ Settled(clients[fd], "wait") /\ Pend(clients[fd])
PROOF
<1>1. pc \notin {"exited", "respond"} /\ ~Handling
    BY DEF LoopPoints, Handling, HandlerPoints
<1>2. RequestOf(fd) = clients[fd].pending_request
    BY <1>1 DEF RequestOf
<1>3. Settled(clients[fd], "wait")
    BY <1>1 DEF SInv, DInv, Inv, ConnectionsInv, PointOf
<1>4. Service!Unsent(View(clients[fd], clients[fd].pending_request)) = clients[fd].output_buffer
    BY <1>1, ServedViews, UnsentIsOutput
<1> QED BY <1>1, <1>2, <1>3, <1>4, ServedViews DEF SInv, ServiceInv

(* A timer that expires, and a peer that hangs up. *)
LEMMA TimerService ==
    ASSUME SInv, ExpireTimer \/ HandleHangUp
    PROVE  Progress /\ ServiceInv'
PROOF
<1>1. /\ pc \in LoopPoints \ {"exited"} /\ pc \notin {"exited", "limit"} /\ ~Handling
      /\ pc' = pc /\ UNCHANGED next_connection_id
    BY DEF ExpireTimer, HandleHangUp, LoopPoints, loop, Handling, HandlerPoints
<1>2. CASE ExpireTimer
    <2>1. PICK fd \in DOMAIN clients : \E k \in clients[fd].armed :
              CloseClientConnection(fd, clients[fd], k)
        BY <1>2 DEF ExpireTimer
    <2>2. PICK kind \in clients[fd].armed : CloseClientConnection(fd, clients[fd], kind)
        BY <2>1
    <2>3. Service!End(fd, kind) /\ ServiceInv'
        BY <1>1, <2>2, ClosedEnds
    <2>4. /\ Served[fd] = View(clients[fd], clients[fd].pending_request)
          /\ Service!Unsent(Served[fd]) = clients[fd].output_buffer
          /\ clients[fd] \in ClientConnection
          /\ Settled(clients[fd], "wait") /\ Pend(clients[fd])
        BY <1>1, ServedIdle
    <2>5. clients[fd].output_buffer \in Nat /\ kind \in TimerKind
        BY <2>4 DEF ClientConnection
    <2>6. /\ kind # "body" => Service!Unsent(Served[fd]) = 0
          /\ kind = "idle" => Served[fd].answered > 0
          /\ kind = "body" => Served[fd].request # NoRequest /\ Served[fd].owed > 0
        BY <2>4, <2>5 DEF Settled, Pend, View
    <2>7. Service!TimeOut(fd)
        BY <2>3, <2>5, <2>6 DEF Service!TimeOut, TimerKind
    <2>8. Service!Serve(fd)
        BY <2>7 DEF Service!Serve
    <2> QED BY <1>1, <2>3, <2>8, ServedStep
<1>3. CASE HandleHangUp
    <2>1. PICK e \in batch :
              e.fd \in DOMAIN clients /\ CloseClientConnection(e.fd, clients[e.fd], "peer")
        BY <1>3 DEF HandleHangUp
    <2>2. Service!End(e.fd, "peer") /\ ServiceInv'
        BY <1>1, <2>1, ClosedEnds
    <2>3. Service!Serve(e.fd)
        BY <2>2 DEF Service!Serve, Service!PeerLeaves
    <2> QED BY <1>1, <2>1, <2>2, <2>3, ServedStep
<1> QED BY <1>2, <1>3

-----------------------------------------------------------------------------
(* The handlers.                                                           *)

(* A handler decides what to do next. *)
LEMMA HandlerMoveService ==
    ASSUME SInv, HandlerMove
    PROVE  Progress /\ ServiceInv'
PROOF
<1>1. /\ Handling /\ pc \notin {"exited", "respond"}
      /\ UNCHANGED <<clients, pending_close_queue, next_connection_id>>
    BY DEF HandlerMove, ContinueWithBody, ContinueWithHeaders, ContinueReturns, EventReturns,
           ReadWouldBlock, ProcessStops, TailReturns, Handling, HandlerPoints, conns, loop
<1>2. cur.origin \in {"ready", "dispatch"}
    BY <1>1, HandledConnection DEF SInv, DInv
<1>3. /\ pc' \notin {"exited", "respond", "limit"}
      /\ pc' = "consume" => /\ me.waiting_for_request_body
                            /\ cur' = [cur EXCEPT !.back = "continue_parse"]
    BY <1>2
    DEF HandlerMove, ContinueWithBody, ContinueWithHeaders, ContinueReturns, EventReturns,
        ReadWouldBlock, ProcessStops, TailReturns, AfterProcess, Goto, Return
<1>4. cur \in Frame
    BY <1>1, HandledData DEF SInv
<1>5. Stage'
    <2>1. pc' = "consume" => clients'[cur'.fd].waiting_for_request_body
        BY <1>1, <1>3, <1>4 DEF me, Frame
    <2> QED BY <1>3, <2>1 DEF Stage, me
<1>6. Served' = Served
    BY <1>1, <1>3, SameClients
<1> QED BY <1>1, <1>3, <1>5, <1>6, Unnoticed DEF SInv, ServiceInv, Pend

(* A handler only sets flags, timers or the epoll registration. *)
LEMMA QuietService ==
    ASSUME SInv, \/ ContinueWithRead \/ EventRead \/ FlushPauses \/ FlushedRequeues
                 \/ FlushedIdles \/ ChunkDone \/ TailRequeues \/ TailArms
    PROVE  Progress /\ ServiceInv'
PROOF
<1>1. Handling /\ pc # "respond"
    BY DEF ContinueWithRead, EventRead, FlushPauses, FlushedRequeues, FlushedIdles, ChunkDone,
           TailRequeues, TailArms, Handling, HandlerPoints
<1>2. /\ me \in ClientConnection /\ cur.origin \in {"ready", "dispatch"} /\ Pend(me)
      /\ Timed(me, pc)
    <2>1. cur.fd \in DOMAIN clients /\ me \in ClientConnection /\ Course(me, pc, cur.reading)
        BY <1>1, HandledData DEF SInv
    <2>2. cur.origin \in {"ready", "dispatch"}
        BY <1>1, HandledConnection DEF SInv, DInv
    <2> QED BY <2>1, <2>2 DEF SInv, ServiceInv, me, Course
<1>3. /\ UNCHANGED <<pending_close_queue, next_connection_id>>
      /\ pc' \notin {"exited", "respond", "limit", "consume"}
    BY <1>2 DEF ContinueWithRead, EventRead, FlushPauses, FlushedRequeues, FlushedIdles,
                ChunkDone, TailRequeues, TailArms, Keep, Requeue, Goto, Return, AfterFlush,
                AfterProcess, loop
<1> DEFINE Quiet(c) == /\ View(c, c.pending_request) = View(me, me.pending_request)
                       /\ Pend(c)
<1>4. /\ Quiet(me) /\ Quiet(ArmHeaderTimeout(me))
      /\ me.responses > 0 => Quiet(ArmIdleKeepAliveTimeout(me))
      /\ Quiet(UpdateClientPollMask(me))
      /\ Quiet(UpdateClientPollMask(ArmHeaderTimeout(me)))
      /\ me.responses > 0 => Quiet(UpdateClientPollMask(ArmIdleKeepAliveTimeout(me)))
      /\ Quiet([me EXCEPT !.ready_for_read = FALSE])
      /\ Quiet([me EXCEPT !.in_ready_queue = TRUE])
      /\ Quiet([UpdateClientPollMask(me) EXCEPT !.in_ready_queue = TRUE])
      /\ Quiet([[me EXCEPT !.ready_for_read = TRUE] EXCEPT !.in_ready_queue = TRUE])
    BY <1>2 DEF ArmHeaderTimeout, ArmIdleKeepAliveTimeout, UpdateClientPollMask,
                ClientConnection, View, Pend
<1>5. \E c : Quiet(c) /\ clients' = [clients EXCEPT ![cur.fd] = c]
    <2> HIDE DEF Quiet
    <2>1. CASE ContinueWithRead
        BY <1>4, <2>1 DEF ContinueWithRead, Keep
    <2>2. CASE EventRead
        BY <1>4, <2>2 DEF EventRead, Keep
    <2>3. CASE FlushPauses
        BY <1>4, <2>3 DEF FlushPauses, Keep
    <2>4. CASE FlushedRequeues
        BY <1>4, <2>4 DEF FlushedRequeues, Requeue, EnqueueReadyConnection
    <2>5. CASE FlushedIdles
        <3>1. me.keep_alive_enabled => me.responses > 0
            BY <1>2 DEF Timed
        <3> QED BY <1>4, <2>5, <3>1 DEF FlushedIdles, Keep
    <2>6. CASE ChunkDone
        BY <1>4, <2>6 DEF ChunkDone, Keep, Requeue, EnqueueReadyConnection
    <2>7. CASE TailRequeues
        BY <1>4, <2>7 DEF TailRequeues, Requeue, EnqueueReadyConnection
    <2>8. CASE TailArms
        <3>1. me.input_buffer = << >> => me.responses > 0
            <4>1. pc = "tail" /\ ~me.waiting_for_request_body /\ me.responses \in Nat
                BY <1>2, <2>8 DEF TailArms, ClientConnection
            <4>2. me.responses = 0 => me.input_buffer # << >>
                BY <1>2, <4>1 DEF Timed
            <4> QED BY <4>1, <4>2
        <3> QED BY <1>4, <2>8, <3>1 DEF TailArms, Keep
    <2> QED BY <2>1, <2>2, <2>3, <2>4, <2>5, <2>6, <2>7, <2>8
<1>6. PICK c : Quiet(c) /\ clients' = [clients EXCEPT ![cur.fd] = c]
    BY <1>5
<1>7. Stage'
    BY <1>3 DEF Stage
<1>8. View(c, ServedFor(c, pc', cur')) = View(me, ServedFor(me, pc, cur))
    BY <1>1, <1>3, <1>6 DEF ServedFor
<1> QED BY <1>1, <1>3, <1>6, <1>7, <1>8, HandlerServes

(* What a handler's connection is served. *)
LEMMA HandlerSees ==
    ASSUME SInv, Handling
    PROVE  /\ cur.fd \in DOMAIN clients /\ pc \notin {"exited", "limit"}
           /\ cur \in Frame /\ me \in ClientConnection /\ me.input_buffer \in Seq(Token)
           /\ Served[cur.fd] = View(me, ServedFor(me, pc, cur))
           /\ Service!Unsent(Served[cur.fd]) = me.output_buffer
           /\ Pend(me) /\ Framed(me) /\ Timed(me, pc)
PROOF
<1>1. /\ cur.fd \in DOMAIN clients /\ pc \notin {"exited", "limit"} /\ cur \in Frame
      /\ me \in ClientConnection /\ me.input_buffer \in Seq(Token)
      /\ Framed(me) /\ Whole(me) /\ Timed(me, pc)
    BY HandledData DEF SInv, HandlerPoints, Course
<1>2. Served[cur.fd] = View(me, ServedFor(me, pc, cur))
    BY <1>1 DEF Served, ServedConnection, RequestOf, ServedFor, View, me
<1>3. Service!Unsent(View(me, ServedFor(me, pc, cur))) = me.output_buffer
    BY <1>1, UnsentIsOutput
<1>4. Pend(me)
    BY <1>1 DEF SInv, ServiceInv, me
<1> QED BY <1>1, <1>2, <1>3, <1>4

(* A handler that has nothing more to say, or whose peer is gone. *)
LEMMA HandlerCloseService ==
    ASSUME SInv, FlushedCloses \/ TailCloses \/ ReadEnds \/ WriteFails
    PROVE  Progress /\ ServiceInv'
PROOF
<1>1. Handling
    BY DEF FlushedCloses, TailCloses, ReadEnds, WriteFails, Writing, Handling, HandlerPoints
<1>2. /\ cur.fd \in DOMAIN clients /\ pc \notin {"exited", "limit"}
      /\ me \in ClientConnection /\ me.input_buffer \in Seq(Token)
      /\ Served[cur.fd] = View(me, ServedFor(me, pc, cur))
      /\ Service!Unsent(Served[cur.fd]) = me.output_buffer
    BY <1>1, HandlerSees
<1>3. CASE FlushedCloses \/ TailCloses
    <2>1. /\ ~HasCompleteHeader(me.input_buffer) /\ me.output_buffer = 0
          /\ me.close_after_write /\ Close(me, "done")
        BY <1>3 DEF FlushedCloses, TailCloses
    <2>2. Service!End(cur.fd, "done") /\ ServiceInv'
        BY <1>1, <2>1, HandlerEnds
    <2>3. Service!FirstHeader(me.input_buffer) = {}
        BY <1>2, <2>1, FirstHeaders
    <2>4. Served[cur.fd].last = me.close_after_write /\ Served[cur.fd].unread = me.input_buffer
        BY <1>2 DEF View
    <2>5. Service!Finish(cur.fd)
        BY <1>2, <2>1, <2>2, <2>3, <2>4 DEF Service!Finish
    <2>6. Service!Serve(cur.fd)
        BY <2>5 DEF Service!Serve
    <2> QED BY <1>2, <2>2, <2>6, ServedStep
<1>4. CASE ReadEnds \/ WriteFails
    <2>1. Answered.connection_id = me.connection_id
        BY <1>2 DEF Answered, ClientConnection
    <2>2. PICK c \in {me, Answered} : Close(c, "peer")
        BY <1>4 DEF ReadEnds, WriteFails
    <2>3. Service!End(cur.fd, "peer") /\ ServiceInv'
        BY <1>1, <2>1, <2>2, HandlerEnds
    <2>4. Service!Serve(cur.fd)
        BY <2>3 DEF Service!Serve, Service!PeerLeaves
    <2> QED BY <1>2, <2>3, <2>4, ServedStep
<1> QED BY <1>3, <1>4

(* A handler that answers with an error has cause to. *)
LEMMA HandlerRefuses ==
    ASSUME SInv, Handling, NEW c, c.connection_id = me.connection_id, Reject(c),
           \/ /\ Served[cur.fd].request = NoRequest
              /\ \/ Service!IsTooLong(Served[cur.fd].unread)
                 \/ \E i \in Service!FirstHeader(Served[cur.fd].unread) :
                       ~Service!IsAcceptable(Served[cur.fd].unread[i])
           \/ ~Service!HasRoom(kReadChunkSize)
           \/ Service!IsReceived(Served[cur.fd]) /\ ~Service!HasRoom(ResponseSize)
    PROVE  Progress /\ ServiceInv'
PROOF
<1>1. Close(c, "error response")
    BY DEF Reject, Close, SendErrorResponseAndClose
<1>2. cur.fd \in DOMAIN clients /\ pc \notin {"exited", "limit"}
    BY HandlerSees
<1>3. Service!End(cur.fd, "error response") /\ ServiceInv'
    BY <1>1, HandlerEnds
<1>4. Service!Refuse(cur.fd)
    BY <1>3 DEF Service!Refuse
<1>5. Service!Serve(cur.fd)
    BY <1>4 DEF Service!Serve
<1> QED BY <1>2, <1>3, <1>5, ServedStep

(* FlushClientOutput sends what write() takes. *)
LEMMA FlushService ==
    ASSUME SInv, FlushWrites
    PROVE  Progress /\ ServiceInv'
PROOF
<1>1. Handling /\ pc = "flush" /\ pc' = "flush"
    BY DEF FlushWrites, Handling, HandlerPoints
<1>2. /\ cur.fd \in DOMAIN clients /\ me \in ClientConnection /\ Pend(me)
      /\ Service!Unsent(Served[cur.fd]) = me.output_buffer
    BY <1>1, HandlerSees
<1>3. PICK n \in 1..me.output_buffer :
          Keep([me EXCEPT !.output_buffer = @ - n, !.wire = @ + n])
    BY DEF FlushWrites
<1> DEFINE c == [me EXCEPT !.output_buffer = @ - n, !.wire = @ + n]
<1>4. /\ View(c, c.pending_request) = [View(me, me.pending_request) EXCEPT !.sent = @ + n]
      /\ c.armed = me.armed /\ c.responses = me.responses
      /\ c.pending_request = me.pending_request
      /\ c.waiting_for_request_body = me.waiting_for_request_body
    BY <1>2 DEF ClientConnection, View
<1>5. /\ clients' = [clients EXCEPT ![cur.fd] = c]
      /\ UNCHANGED <<pending_close_queue, next_connection_id>>
    BY <1>3 DEF Keep, loop
<1> HIDE DEF c
<1>6. Pend(c) /\ Stage'
    BY <1>1, <1>2, <1>4 DEF Pend, Stage
<1>7. /\ Served[cur.fd] = View(me, me.pending_request)
      /\ Service!Becomes(cur.fd, View(c, c.pending_request)) /\ ServiceInv'
      /\ pc \notin {"exited", "limit"}
    BY <1>1, <1>5, <1>6, HandlerServes DEF ServedFor
<1>8. Service!Send(cur.fd)
    BY <1>2, <1>4, <1>7 DEF Service!Send
<1>9. Service!Serve(cur.fd)
    BY <1>8 DEF Service!Serve
<1> QED BY <1>2, <1>7, <1>9, ServedStep

(* ReadFromClient takes bytes, or has no room for them. *)
LEMMA ReadService ==
    ASSUME SInv, ReadSome
    PROVE  Progress /\ ServiceInv'
PROOF
<1>1. Handling /\ pc = "read"
    BY DEF ReadSome, Handling, HandlerPoints
<1>2. /\ cur.fd \in DOMAIN clients /\ me \in ClientConnection /\ Pend(me) /\ cur \in Frame
      /\ me.input_buffer \in Seq(Token) /\ pc \notin {"exited", "limit"}
    BY <1>1, HandlerSees
<1>3. PICK n \in 1..kReadChunkSize : \E data \in [1..n -> Token] :
          IF OverBudget(n)
          THEN Reject(me)
          ELSE /\ Keep([me EXCEPT !.input_buffer = @ \o data])
               /\ pc' = IF me.waiting_for_request_body THEN "consume" ELSE "check_header"
               /\ cur' = [cur EXCEPT !.read_remaining = @ - n, !.back = "chunk"]
    BY DEF ReadSome
<1>4. PICK data \in [1..n -> Token] :
          IF OverBudget(n)
          THEN Reject(me)
          ELSE /\ Keep([me EXCEPT !.input_buffer = @ \o data])
               /\ pc' = IF me.waiting_for_request_body THEN "consume" ELSE "check_header"
               /\ cur' = [cur EXCEPT !.read_remaining = @ - n, !.back = "chunk"]
    BY <1>3
<1>5. /\ n \in Nat \ {0} /\ kReadChunkSize \in Nat /\ n <= kReadChunkSize
      /\ data \in Seq(Token) /\ Len(data) = n
    BY SizeAssumption
<1>6. CASE OverBudget(n)
    <2>1. ~Service!HasRoom(kReadChunkSize)
        BY <1>2, <1>5, <1>6, RoomIsExact
    <2> QED BY <1>1, <1>4, <1>6, <2>1, HandlerRefuses
<1>7. CASE ~OverBudget(n)
    <2> DEFINE in == me.input_buffer \o data
               c  == [me EXCEPT !.input_buffer = in]
    <2>1. Len(in) = Len(me.input_buffer) + n
        BY <1>2, <1>5, ConcatProperties
    <2>2. clients' = [clients EXCEPT ![cur.fd] = c]
        BY <1>4, <1>7 DEF Keep
    <2>3. /\ pc' = IF me.waiting_for_request_body THEN "consume" ELSE "check_header"
          /\ cur'.fd = cur.fd /\ UNCHANGED <<pending_close_queue, next_connection_id>>
        BY <1>2, <1>4, <1>7 DEF Keep, loop, Frame
    <2> HIDE DEF in
    <2>4. /\ View(c, c.pending_request) = [View(me, me.pending_request) EXCEPT !.unread = in]
          /\ c.armed = me.armed /\ c.responses = me.responses
          /\ c.pending_request = me.pending_request
          /\ c.waiting_for_request_body = me.waiting_for_request_body
        BY <1>2 DEF ClientConnection, View
    <2> HIDE DEF c
    <2>5. Pend(c)
        BY <1>2, <2>4 DEF Pend
    <2>6. Stage'
        <3>1. clients'[cur'.fd] = c
            BY <1>2, <2>2, <2>3
        <3> QED BY <2>3, <2>4, <3>1 DEF Stage, me
    <2>7. pc' \notin {"exited", "respond"}
        BY <2>3
    <2>8. /\ Served[cur.fd] = View(me, me.pending_request) /\ ServiceInv'
          /\ Service!Becomes(cur.fd, View(c, c.pending_request))
        BY <1>1, <2>2, <2>3, <2>5, <2>6, <2>7, HandlerServes DEF ServedFor
    <2>9. Service!HasRoom(n)
        BY <1>2, <1>5, <1>7, RoomIsExact
    <2>10. View(c, c.pending_request) = [Served[cur.fd] EXCEPT !.unread = @ \o data]
        BY <2>4, <2>8 DEF View, in
    <2>11. /\ cur.fd \in DOMAIN Served'
           /\ Len(Served'[cur.fd].unread) = Len(Served[cur.fd].unread) + n
        <3>1. cur.fd \in DOMAIN Served
            BY <1>2 DEF Served
        <3>2. cur.fd \in DOMAIN Served' /\ Served'[cur.fd] = View(c, c.pending_request)
            BY <2>8, <3>1 DEF Service!Becomes
        <3>3. View(c, c.pending_request).unread = in /\ Served[cur.fd].unread = me.input_buffer
            BY <2>4, <2>8 DEF View
        <3> QED BY <2>1, <3>2, <3>3
    <2>12. Service!Receive(cur.fd)
        BY <1>5, <2>8, <2>9, <2>10, <2>11 DEF Service!Receive
    <2>13. Service!Serve(cur.fd)
        BY <2>12 DEF Service!Serve
    <2> QED BY <1>2, <2>8, <2>13, ServedStep
<1> QED BY <1>6, <1>7

(* A header that is too long is refused. *)
LEMMA HeaderLimitService ==
    ASSUME SInv, CheckHeaderLimit
    PROVE  Progress /\ ServiceInv'
PROOF
<1>1. Handling /\ pc = "check_header"
    BY DEF CheckHeaderLimit, Handling, HandlerPoints
<1>2. /\ cur.fd \in DOMAIN clients /\ me \in ClientConnection
      /\ me.input_buffer \in Seq(Token) /\ Pend(me) /\ Timed(me, pc)
      /\ Served[cur.fd] = View(me, ServedFor(me, pc, cur))
    BY <1>1, HandlerSees
<1>3. CASE HeaderExceedsLimit(me.input_buffer, kMaxHeaderBytes)
    <2>1. me.pending_request = NoRequest
        BY <1>1, <1>2 DEF Pend, Timed
    <2>2. Served[cur.fd].request = NoRequest /\ Served[cur.fd].unread = me.input_buffer
        BY <1>1, <1>2, <2>1 DEF View, ServedFor
    <2>3. Service!IsTooLong(me.input_buffer)
        BY <1>2, <1>3, FirstHeaders
    <2>4. Reject(me)
        BY <1>3 DEF CheckHeaderLimit
    <2> QED BY <1>1, <2>2, <2>3, <2>4, HandlerRefuses
<1>4. CASE ~HeaderExceedsLimit(me.input_buffer, kMaxHeaderBytes)
    <2>1. /\ pc' = "process"
          /\ UNCHANGED <<clients, pending_close_queue, next_connection_id>>
        BY <1>4 DEF CheckHeaderLimit, conns, loop
    <2>2. Served' = Served
        BY <1>1, <2>1, SameClients
    <2> QED BY <1>1, <2>1, <2>2, Unnoticed DEF SInv, ServiceInv, Stage, Pend
<1> QED BY <1>3, <1>4

(* A view of c in which something was taken from what it has received. *)
TakenFrom(c, unread, request, owed) ==
    [id |-> c.connection_id, unread |-> unread, request |-> request,
     owed |-> owed, answered |-> c.responses,
     sent |-> c.wire, last |-> c.close_after_write]

(* Those that differ from the view of c in these three fields. *)
Views(c, unreads, requests, owes) ==
    [id : {c.connection_id}, unread : unreads, request : requests, owed : owes,
     answered : {c.responses}, sent : {c.wire}, last : {c.close_after_write}]

(* Two records with these fields that agree on each of them are one. *)
LEMMA SameView ==
    ASSUME NEW A1, NEW A2, NEW A3, NEW A4, NEW A5, NEW A6, NEW A7,
           NEW u \in [id : A1, unread : A2, request : A3, owed : A4, answered : A5,
                      sent : A6, last : A7],
           NEW v \in [id : A1, unread : A2, request : A3, owed : A4, answered : A5,
                      sent : A6, last : A7],
           u.id = v.id, u.unread = v.unread, u.request = v.request, u.owed = v.owed,
           u.answered = v.answered, u.sent = v.sent, u.last = v.last
    PROVE  u = v
PROOF
OBVIOUS

(* What a view tells of its connection. *)
LEMMA ViewFields ==
    ASSUME NEW c, NEW r, NEW w, w = View(c, r)
    PROVE  /\ w.id = c.connection_id /\ w.unread = c.input_buffer /\ w.request = r
           /\ w.owed = c.pending_body_bytes_remaining /\ w.answered = c.responses
           /\ w.sent = c.wire /\ w.last = c.close_after_write
           /\ w \in Views(c, {c.input_buffer}, {r}, {c.pending_body_bytes_remaining})
PROOF
BY DEF View, Views

(* ProcessBufferedHeaders takes the first header, or refuses it. *)
LEMMA ProcessService ==
    ASSUME SInv, ProcessHeader
    PROVE  Progress /\ ServiceInv'
PROOF
<1>1. Handling /\ pc = "process"
    BY DEF ProcessHeader, Handling, HandlerPoints
<1>2. /\ cur.fd \in DOMAIN clients /\ me \in ClientConnection /\ cur \in Frame
      /\ me.input_buffer \in Seq(Token) /\ Pend(me) /\ Timed(me, pc) /\ Framed(me)
      /\ Served[cur.fd] = View(me, me.pending_request) /\ pc \notin {"exited", "limit"}
    BY <1>1, HandlerSees DEF ServedFor
<1>3. me.pending_request = NoRequest /\ ~me.waiting_for_request_body
      /\ me.pending_body_bytes_remaining = 0
    BY <1>1, <1>2 DEF Pend, Timed, Framed
<1>4. Served[cur.fd].request = NoRequest /\ Served[cur.fd].unread = me.input_buffer
    BY <1>2, <1>3 DEF View
<1> DEFINE Popped(i) == [me EXCEPT !.input_buffer = ConsumePrefix(@, i)]
           Next1     == [cur EXCEPT !.processed_requests = @ + 1, !.popped = @ + 1]
<1>5. PICK i \in HeaderEnds(me.input_buffer) :
          /\ IsHeaderEnd(me.input_buffer, i)
          /\ IF \/ Parse[me.input_buffer[i]].parse_error # "kNone"
                \/ Parse[me.input_buffer[i]].content_length > kMaxBodyBytes
             THEN Reject(me)
             ELSE IF Parse[me.input_buffer[i]].content_length > 0
             THEN /\ Keep(BeginRequestBodyReceive(Popped(i), me.input_buffer[i]))
                  /\ pc' = "consume" /\ cur' = [Next1 EXCEPT !.back = "tail"]
             ELSE /\ Keep(Popped(i)) /\ pc' = "respond"
                  /\ cur' = [Next1 EXCEPT !.request = me.input_buffer[i], !.back = "process"]
    BY DEF ProcessHeader
<1> DEFINE request == me.input_buffer[i]
           rest    == ConsumePrefix(me.input_buffer, i)
           v       == TakenFrom(me, rest, request, Parse[request].content_length)
<1>6. /\ i \in Service!FirstHeader(me.input_buffer) /\ request \in Requests
      /\ request # NoRequest
    BY <1>2, <1>5, FirstHeaders, RequestAssumption DEF HeaderEnds
<1>7. Parse[request].content_length \in Nat /\ kMaxBodyBytes \in Nat
    BY <1>6, RequestAssumption, SizeAssumption DEF HttpRequest
<1>8. CASE ~Service!IsAcceptable(request)
    <2>1. Reject(me)
        BY <1>5, <1>7, <1>8 DEF Service!IsAcceptable
    <2> HIDE DEF request
    <2>2. \E h \in Service!FirstHeader(Served[cur.fd].unread) :
              ~Service!IsAcceptable(Served[cur.fd].unread[h])
        BY <1>4, <1>6, <1>8 DEF request
    <2> QED BY <1>1, <1>4, <2>1, <2>2, HandlerRefuses
<1>9. CASE Service!IsAcceptable(request)
    <2>1. /\ Parse[request].parse_error = "kNone"
          /\ ~(Parse[request].content_length > kMaxBodyBytes)
        BY <1>7, <1>9 DEF Service!IsAcceptable
    <2>2. \E c : /\ clients' = [clients EXCEPT ![cur.fd] = c]
                 /\ UNCHANGED <<pending_close_queue, next_connection_id>>
                 /\ pc' \in {"consume", "respond"} /\ cur'.fd = cur.fd
                 /\ pc' = "respond" => cur'.request \in Requests
                 /\ pc' = "consume" => c.waiting_for_request_body
                 /\ View(c, ServedFor(c, pc', cur')) = v /\ Pend(c)
        <3>1. CASE Parse[request].content_length > 0
            <4> DEFINE c == BeginRequestBodyReceive(Popped(i), request)
            <4>1. /\ Keep(c) /\ pc' = "consume" /\ cur' = [Next1 EXCEPT !.back = "tail"]
                BY <1>5, <2>1, <3>1
            <4>2. View(c, c.pending_request) = v
                BY <1>2 DEF BeginRequestBodyReceive, ArmBodyTimeout, ClientConnection, View, TakenFrom
            <4>3. Pend(c) /\ c.waiting_for_request_body
                BY <1>2, <1>6 DEF BeginRequestBodyReceive, ArmBodyTimeout, ClientConnection, Pend
            <4> HIDE DEF c, v, request
            <4>4. cur'.fd = cur.fd
                BY <1>2, <4>1 DEF Frame
            <4> QED BY <4>1, <4>2, <4>3, <4>4 DEF Keep, loop, ServedFor
        <3>2. CASE ~(Parse[request].content_length > 0)
            <4> DEFINE c == Popped(i)
            <4>1. /\ Keep(c) /\ pc' = "respond"
                  /\ cur' = [Next1 EXCEPT !.request = request, !.back = "process"]
                BY <1>5, <2>1, <3>2
            <4>2. Parse[request].content_length = 0
                BY <1>7, <3>2
            <4>3. View(c, request) = v
                BY <1>2, <1>3, <4>2 DEF ClientConnection, View, TakenFrom
            <4>4. Pend(c)
                BY <1>2 DEF ClientConnection, Pend
            <4> HIDE DEF c, v, request
            <4>5. cur'.fd = cur.fd /\ cur'.request = request
                BY <1>2, <4>1 DEF Frame
            <4> QED BY <1>6, <4>1, <4>3, <4>4, <4>5 DEF Keep, loop, ServedFor
        <3> QED BY <3>1, <3>2
    <2> HIDE DEF v
    <2>3. PICK c : /\ clients' = [clients EXCEPT ![cur.fd] = c]
                   /\ UNCHANGED <<pending_close_queue, next_connection_id>>
                   /\ pc' \in {"consume", "respond"} /\ cur'.fd = cur.fd
                   /\ pc' = "respond" => cur'.request \in Requests
                   /\ pc' = "consume" => c.waiting_for_request_body
                   /\ View(c, ServedFor(c, pc', cur')) = v /\ Pend(c)
        BY <2>2
    <2>4. Stage'
        <3>1. clients'[cur'.fd] = c
            BY <1>2, <2>3
        <3> QED BY <2>3, <3>1 DEF Stage, me
    <2>5. Service!Becomes(cur.fd, v) /\ ServiceInv'
        BY <1>1, <2>3, <2>4, HandlerServes
    <2>6. v = [Served[cur.fd] EXCEPT !.unread = SubSeq(@, i + 1, Len(@)),
                                     !.request = request,
                                     !.owed = Parse[request].content_length]
        <3>1. rest = SubSeq(Served[cur.fd].unread, i + 1, Len(Served[cur.fd].unread))
            BY <1>4 DEF ConsumePrefix
        <3> HIDE DEF rest, request
        <3>2. PICK w, unread, owed : /\ w = Served[cur.fd] /\ unread = rest
                                     /\ owed = Parse[request].content_length
            OBVIOUS
        <3>3. [w EXCEPT !.unread = unread, !.request = request, !.owed = owed]
                = TakenFrom(me, unread, request, owed)
            <4> DEFINE V == Views(me, {w.unread, unread}, {w.request, request}, {w.owed, owed})
                       u == [w EXCEPT !.unread = unread, !.request = request, !.owed = owed]
            <4>1. w = View(me, me.pending_request)
                BY <1>2, <3>2
            <4>2. w \in V /\ TakenFrom(me, unread, request, owed) \in V
                BY <4>1, ViewFields DEF Views, TakenFrom
            <4>3. /\ u \in V /\ u.id = w.id /\ u.unread = unread /\ u.request = request
                  /\ u.owed = owed /\ u.answered = w.answered /\ u.sent = w.sent
                  /\ u.last = w.last
                BY <4>2 DEF Views
            <4>4. /\ w.id = me.connection_id /\ w.answered = me.responses
                  /\ w.sent = me.wire /\ w.last = me.close_after_write
                BY <4>1 DEF View
            <4> DEFINE t == TakenFrom(me, unread, request, owed)
            <4>5. /\ t.id = me.connection_id /\ t.unread = unread /\ t.request = request
                  /\ t.owed = owed /\ t.answered = me.responses /\ t.sent = me.wire
                  /\ t.last = me.close_after_write
                BY DEF TakenFrom
            <4> HIDE DEF u, t
            <4>6. u = t
                BY <4>2, <4>3, <4>4, <4>5, SameView DEF Views, t
            <4> QED BY <4>6 DEF u, t
        <3> QED BY <3>1, <3>2, <3>3 DEF v
    <2> HIDE DEF request
    <2>7. Service!TakeHeader(cur.fd)
        BY <1>4, <1>6, <1>9, <2>5, <2>6 DEF Service!TakeHeader, request
    <2>8. Service!Serve(cur.fd)
        BY <2>7 DEF Service!Serve
    <2> QED BY <1>2, <2>5, <2>8, ServedStep
<1> QED BY <1>8, <1>9

(* ConsumePendingRequestBody takes what is there of the body. *)
LEMMA ConsumeService ==
    ASSUME SInv, ConsumePart \/ ConsumeRest
    PROVE  Progress /\ ServiceInv'
PROOF
<1>1. Handling /\ pc = "consume"
    BY DEF ConsumePart, ConsumeRest, Handling, HandlerPoints
<1>2. /\ cur.fd \in DOMAIN clients /\ me \in ClientConnection /\ cur \in Frame
      /\ me.input_buffer \in Seq(Token) /\ Pend(me)
      /\ Served[cur.fd] = View(me, me.pending_request) /\ pc \notin {"exited", "limit"}
    BY <1>1, HandlerSees DEF ServedFor
<1>3. PICK owed \in Nat : owed = me.pending_body_bytes_remaining
    BY <1>2 DEF ClientConnection
<1>4. PICK len \in Nat : len = Len(me.input_buffer)
    BY <1>2
<1>5. me.waiting_for_request_body /\ me.pending_request \in Requests
    BY <1>1, <1>2 DEF SInv, ServiceInv, Stage, Pend, ClientConnection
<1> DEFINE rest(n) == SubSeq(me.input_buffer, n + 1, Len(me.input_buffer))
           v(n)    == TakenFrom(me, rest(n), me.pending_request, owed - n)
<1>6. ASSUME NEW n \in Nat, n <= owed, n <= len, NEW c, Pend(c),
             clients' = [clients EXCEPT ![cur.fd] = c],
             UNCHANGED <<pending_close_queue, next_connection_id>>,
             pc' \notin {"exited", "limit", "consume"}, cur'.fd = cur.fd,
             pc' = "respond" => cur'.request \in Requests,
             View(c, ServedFor(c, pc', cur')) = v(n)
      PROVE  Progress /\ ServiceInv'
    <2>1. Stage'
        BY <1>6 DEF Stage
    <2>2. /\ Service!Becomes(cur.fd, v(n)) /\ ServiceInv'
          /\ v(n) = View(me, ServedFor(me, pc, cur)) => Progress
        <3> HIDE DEF v
        <3> QED BY <1>1, <1>6, <2>1, HandlerServes
    <2>3. CASE n = 0
        <3>1. v(n) = View(me, ServedFor(me, pc, cur))
            <4>1. rest(0) = me.input_buffer /\ owed - 0 = owed
                BY <1>2, SubSeqProperties
            <4> HIDE DEF rest
            <4> QED BY <1>1, <1>3, <2>3, <4>1 DEF ServedFor, View, TakenFrom
        <3> QED BY <2>2, <3>1
    <2>4. CASE n # 0
        <3>1. n \in 1..Served[cur.fd].owed /\ n <= Len(Served[cur.fd].unread)
            BY <1>2, <1>3, <1>4, <1>6, <2>4 DEF View
        <3>2. v(n) = [Served[cur.fd] EXCEPT !.unread = SubSeq(@, n + 1, Len(@)),
                                            !.owed = @ - n]
            <4>1. /\ rest(n) = SubSeq(Served[cur.fd].unread, n + 1, Len(Served[cur.fd].unread))
                  /\ owed - n = Served[cur.fd].owed - n
                <5>1. /\ Served[cur.fd].unread = me.input_buffer
                      /\ Served[cur.fd].owed = me.pending_body_bytes_remaining
                    BY <1>2 DEF View
                <5> QED BY <1>3, <5>1
            <4> HIDE DEF rest
            <4>2. PICK w, unread, less : /\ w = Served[cur.fd] /\ unread = rest(n)
                                         /\ less = owed - n
                OBVIOUS
            <4>3. [w EXCEPT !.unread = unread, !.owed = less]
                    = TakenFrom(me, unread, me.pending_request, less)
                <5> DEFINE V == Views(me, {w.unread, unread}, {w.request}, {w.owed, less})
                           u == [w EXCEPT !.unread = unread, !.owed = less]
                <5>1. w = View(me, me.pending_request)
                    BY <1>2, <4>2
                <5>2. w \in V /\ TakenFrom(me, unread, me.pending_request, less) \in V
                    BY <5>1, ViewFields DEF Views, TakenFrom
                <5>3. /\ u \in V /\ u.id = w.id /\ u.unread = unread
                      /\ u.request = w.request /\ u.owed = less /\ u.answered = w.answered
                      /\ u.sent = w.sent /\ u.last = w.last
                    BY <5>2 DEF Views
                <5>4. /\ w.id = me.connection_id /\ w.request = me.pending_request
                      /\ w.answered = me.responses /\ w.sent = me.wire
                      /\ w.last = me.close_after_write
                    BY <5>1 DEF View
                <5> DEFINE t == TakenFrom(me, unread, me.pending_request, less)
                <5>5. /\ t.id = me.connection_id /\ t.unread = unread
                      /\ t.request = me.pending_request /\ t.owed = less
                      /\ t.answered = me.responses /\ t.sent = me.wire
                      /\ t.last = me.close_after_write
                    BY DEF TakenFrom
                <5> HIDE DEF u, t
                <5>6. u = t
                    BY <5>2, <5>3, <5>4, <5>5, SameView DEF Views, t
                <5> QED BY <5>6 DEF u, t
            <4> QED BY <4>1, <4>2, <4>3
        <3> HIDE DEF v
        <3>3. Service!TakeBody(cur.fd)
            BY <2>2, <3>1, <3>2 DEF Service!TakeBody
        <3>4. Service!Serve(cur.fd)
            BY <3>3 DEF Service!Serve
        <3> QED BY <1>2, <2>2, <3>4, ServedStep
    <2> QED BY <2>3, <2>4
<1>7. CASE ConsumePart
    <2> DEFINE c == [me EXCEPT !.input_buffer = << >>,
                               !.pending_body_bytes_remaining = @ - len]
    <2>1. /\ clients' = [clients EXCEPT ![cur.fd] = c] /\ len < owed
          /\ UNCHANGED <<pending_close_queue, next_connection_id>>
          /\ pc' = cur.back /\ cur' = cur
        BY <1>3, <1>4, <1>7 DEF ConsumePart, Keep, Goto, loop
    <2>2. pc' \notin {"exited", "limit", "consume", "respond"}
        BY <1>2, <2>1 DEF Frame
    <2>3. rest(len) = << >>
        BY <1>2, <1>4, SubSeqProperties
    <2>4. View(c, c.pending_request) = v(len)
        <3> HIDE DEF rest
        <3> QED BY <1>2, <1>3, <2>3 DEF View, TakenFrom, ClientConnection
    <2>5. Pend(c)
        BY <1>2 DEF Pend, ClientConnection
    <2>6. View(c, ServedFor(c, pc', cur')) = v(len)
        BY <2>2, <2>4 DEF ServedFor
    <2> HIDE DEF c, v
    <2>7. len <= owed /\ len <= len /\ cur'.fd = cur.fd
        BY <2>1
    <2>8. pc' = "respond" => cur'.request \in Requests
        BY <2>2
    <2>9. UNCHANGED <<pending_close_queue, next_connection_id>> /\ clients' = [clients EXCEPT ![cur.fd] = c]
        BY <2>1
    <2>10. pc' \notin {"exited", "limit", "consume"}
        BY <2>2
    <2> QED BY <1>6, <2>5, <2>6, <2>7, <2>8, <2>9, <2>10
<1>8. CASE ConsumeRest
    <2> DEFINE c == DisarmBodyTimeout(
                       [me EXCEPT !.input_buffer = ConsumePrefix(@, owed),
                                  !.pending_body_bytes_remaining = 0,
                                  !.waiting_for_request_body = FALSE,
                                  !.pending_request = NoRequest])
    <2>1. /\ clients' = [clients EXCEPT ![cur.fd] = c] /\ owed <= len
          /\ UNCHANGED <<pending_close_queue, next_connection_id>>
          /\ pc' = "respond" /\ cur' = [cur EXCEPT !.request = me.pending_request]
        BY <1>3, <1>4, <1>8 DEF ConsumeRest, Keep, loop
    <2>2. cur'.fd = cur.fd /\ cur'.request = me.pending_request
        BY <1>2, <2>1 DEF Frame
    <2>3. View(c, me.pending_request) = v(owed)
        <3>1. ConsumePrefix(me.input_buffer, owed) = rest(owed) /\ owed - owed = 0
            BY DEF ConsumePrefix
        <3> HIDE DEF rest
        <3> QED BY <1>2, <3>1 DEF View, TakenFrom, ClientConnection, DisarmBodyTimeout
    <2>4. Pend(c)
        BY <1>2 DEF Pend, ClientConnection, DisarmBodyTimeout
    <2>5. View(c, ServedFor(c, pc', cur')) = v(owed)
        BY <2>1, <2>2, <2>3 DEF ServedFor
    <2> HIDE DEF c, v
    <2>6. owed <= owed /\ pc' \notin {"exited", "limit", "consume"}
        BY <2>1
    <2>7. pc' = "respond" => cur'.request \in Requests
        BY <1>5, <2>2
    <2>8. /\ UNCHANGED <<pending_close_queue, next_connection_id>>
          /\ clients' = [clients EXCEPT ![cur.fd] = c]
        BY <2>1
    <2> QED BY <1>6, <2>1, <2>2, <2>4, <2>5, <2>6, <2>7, <2>8
<1> QED BY <1>7, <1>8

(* StartOkResponse answers the request, within the budget. *)
LEMMA RespondService ==
    ASSUME SInv, RespondLater \/ RespondNow \/ RespondOverBudget
    PROVE  Progress /\ ServiceInv'
PROOF
<1>1. Handling /\ pc = "respond"
    BY DEF RespondLater, RespondNow, RespondOverBudget, Handling, HandlerPoints
<1>2. /\ cur.fd \in DOMAIN clients /\ me \in ClientConnection /\ cur \in Frame
      /\ Pend(me) /\ Timed(me, pc) /\ Framed(me)
      /\ Served[cur.fd] = View(me, cur.request) /\ pc \notin {"exited", "limit"}
      /\ Service!Unsent(Served[cur.fd]) = me.output_buffer
    BY <1>1, HandlerSees DEF ServedFor
<1>3. /\ me.pending_request = NoRequest /\ ~me.waiting_for_request_body
      /\ me.pending_body_bytes_remaining = 0
      /\ cur.request \in Requests /\ cur.request # NoRequest
    BY <1>1, <1>2, RequestAssumption DEF Pend, Timed, Framed, SInv, ServiceInv, Stage
<1>4. PICK w : w = Served[cur.fd]
    OBVIOUS
<1>5. /\ w.id = me.connection_id /\ w.unread = me.input_buffer /\ w.request = cur.request
      /\ w.owed = 0 /\ w.answered = me.responses /\ w.sent = me.wire
      /\ w.last = me.close_after_write
    <2>1. w = View(me, cur.request)
        BY <1>2, <1>4
    <2>2. /\ w.id = me.connection_id /\ w.unread = me.input_buffer /\ w.request = cur.request
          /\ w.owed = me.pending_body_bytes_remaining /\ w.answered = me.responses
          /\ w.sent = me.wire /\ w.last = me.close_after_write
        BY <2>1 DEF View
    <2> QED BY <1>3, <2>2
<1>6. w = [id |-> w.id, unread |-> w.unread, request |-> w.request, owed |-> w.owed,
           answered |-> w.answered, sent |-> w.sent, last |-> w.last]
    BY <1>2, <1>4, <1>5 DEF View
<1>7. Service!IsReceived(Served[cur.fd])
    BY <1>3, <1>4, <1>5 DEF Service!IsReceived
<1>8. ResponseSize \in Nat \ {0}
    BY Sizes
<1> DEFINE Says(c, n) ==
              /\ c.connection_id = me.connection_id /\ c.input_buffer = me.input_buffer
              /\ c.pending_request = me.pending_request
              /\ c.pending_body_bytes_remaining = me.pending_body_bytes_remaining
              /\ c.waiting_for_request_body = me.waiting_for_request_body
              /\ c.responses = me.responses + 1 /\ c.wire = me.wire + n
              /\ c.close_after_write = (me.close_after_write \/ ~KeepAlive)
              /\ c.armed \subseteq me.armed
<1>9. ASSUME NEW n \in 0..ResponseSize, NEW c, Says(c, n),
             n > 0 => me.output_buffer = 0, Service!HasRoom(ResponseSize - n),
             clients' = [clients EXCEPT ![cur.fd] = c],
             UNCHANGED <<pending_close_queue, next_connection_id>>, pc' = cur.back
      PROVE  Progress /\ ServiceInv'
    <2>1. pc' \notin {"exited", "limit", "consume", "respond"}
        BY <1>2, <1>9 DEF Frame
    <2>2. Pend(c) /\ Stage'
        <3>1. c.responses > 0
            BY <1>2, <1>9 DEF ClientConnection
        <3> QED BY <1>2, <1>9, <2>1, <3>1 DEF Pend, Stage
    <2>3. Service!Becomes(cur.fd, View(c, c.pending_request)) /\ ServiceInv'
        BY <1>1, <1>9, <2>1, <2>2, HandlerServes DEF ServedFor
    <2>4. PICK last : last = (w.last \/ Service!AsksToClose(w.request))
        OBVIOUS
    <2>5. c.close_after_write = last
        BY <1>5, <1>9, <2>4 DEF KeepAlive, ShouldKeepAlive, Service!AsksToClose
    <2>6. View(c, c.pending_request)
            = [w EXCEPT !.request = NoRequest, !.answered = w.answered + 1,
                        !.sent = w.sent + n, !.last = last]
        <3> DEFINE V == [id : {w.id}, unread : {w.unread}, request : {w.request, NoRequest},
                         owed : {w.owed}, answered : {w.answered, w.answered + 1},
                         sent : {w.sent, w.sent + n}, last : {w.last, last}]
                   v == View(c, c.pending_request)
                   u == [w EXCEPT !.request = NoRequest, !.answered = w.answered + 1,
                                  !.sent = w.sent + n, !.last = last]
        <3>1. /\ v.id = w.id /\ v.unread = w.unread /\ v.request = NoRequest
              /\ v.owed = w.owed /\ v.answered = w.answered + 1 /\ v.sent = w.sent + n
              /\ v.last = last /\ v \in V
            BY <1>3, <1>5, <1>9, <2>5 DEF View
        <3>2. w \in V
            BY <1>6
        <3>3. u \in V
            BY <3>2
        <3>5. /\ u.id = w.id /\ u.unread = w.unread /\ u.request = NoRequest
              /\ u.owed = w.owed /\ u.answered = w.answered + 1 /\ u.sent = w.sent + n
              /\ u.last = last
            BY <3>2
        <3> HIDE DEF v, u
        <3>4. v = u
            BY <3>1, <3>3, <3>5, SameView
        <3> QED BY <3>4 DEF v, u
    <2>7. Service!Answer(cur.fd)
        <3>1. Service!Becomes(cur.fd, [Served[cur.fd] EXCEPT
                                         !.request = NoRequest, !.answered = @ + 1,
                                         !.sent = @ + n,
                                         !.last = @ \/ Service!AsksToClose(Served[cur.fd].request)])
            BY <1>4, <2>3, <2>4, <2>6
        <3>2. n > 0 => Service!Unsent(Served[cur.fd]) = 0
            BY <1>2, <1>9
        <3> QED BY <1>7, <1>9, <3>1, <3>2 DEF Service!Answer
    <2>8. Service!Serve(cur.fd)
        BY <2>7 DEF Service!Serve
    <2> QED BY <1>2, <2>3, <2>8, ServedStep
<1>10. ASSUME NEW n \in 0..ResponseSize
       PROVE  /\ Says([Answered EXCEPT !.wire = @ + n], n)
              /\ Says(UpdateClientPollMask([[Answered EXCEPT !.wire = @ + n]
                                              EXCEPT !.output_buffer = ResponseSize - n]), n)
              /\ Says(UpdateClientPollMask([Answered EXCEPT !.output_buffer = @ + ResponseSize]), 0)
              /\ [Answered EXCEPT !.wire = @ + n].connection_id = me.connection_id
              /\ Answered.connection_id = me.connection_id
    BY <1>2 DEF Answered, UpdateClientPollMask, ClientConnection
<1> HIDE DEF Says
<1>11. 0 \in 0..ResponseSize /\ ResponseSize - 0 = ResponseSize
    BY <1>8
<1>12. CASE RespondLater
    <2>1. CASE OverBudget(ResponseSize)
        <3>1. Reject(Answered)
            BY <1>12, <2>1 DEF RespondLater
        <3>2. ~Service!HasRoom(ResponseSize)
            BY <1>2, <1>8, <2>1, RoomIsExact
        <3> QED BY <1>1, <1>7, <1>10, <1>11, <3>1, <3>2, HandlerRefuses
    <2>2. CASE ~OverBudget(ResponseSize)
        <3> DEFINE c == UpdateClientPollMask([Answered EXCEPT !.output_buffer = @ + ResponseSize])
        <3>1. /\ clients' = [clients EXCEPT ![cur.fd] = c] /\ pc' = cur.back
              /\ UNCHANGED <<pending_close_queue, next_connection_id>>
            BY <1>12, <2>2 DEF RespondLater, Keep, ResumeCaller, loop
        <3>2. Says(c, 0)
            BY <1>10, <1>11
        <3>3. Service!HasRoom(ResponseSize - 0)
            BY <1>2, <1>8, <1>11, <2>2, RoomIsExact
        <3> HIDE DEF c
        <3>4. 0 > 0 => me.output_buffer = 0
            OBVIOUS
        <3>5. PICK n \in 0..ResponseSize : n = 0
            BY <1>11
        <3> QED BY <1>9, <3>1, <3>2, <3>3, <3>4, <3>5
    <2> QED BY <2>1, <2>2
<1>13. CASE RespondNow
    <2>1. PICK n \in 0..ResponseSize :
              /\ pc' = cur.back
              /\ \/ /\ ResponseSize - n = 0
                    /\ Keep([Answered EXCEPT !.wire = @ + n])
                 \/ /\ ResponseSize - n > 0 /\ ~OverBudget(ResponseSize - n)
                    /\ Keep(UpdateClientPollMask([[Answered EXCEPT !.wire = @ + n]
                                                  EXCEPT !.output_buffer = ResponseSize - n]))
        BY <1>13 DEF RespondNow
    <2>2. me.output_buffer = 0
        BY <1>13 DEF RespondNow
    <2>3. PICK c \in {[Answered EXCEPT !.wire = @ + n],
                      UpdateClientPollMask([[Answered EXCEPT !.wire = @ + n]
                                              EXCEPT !.output_buffer = ResponseSize - n])} :
              Keep(c)
        BY <2>1
    <2>4. Says(c, n)
        BY <1>10, <2>3
    <2>5. Service!HasRoom(ResponseSize - n)
        <3>1. CASE ResponseSize - n = 0
            BY <1>2, <3>1, RoomIsExact
        <3>2. CASE ResponseSize - n > 0 /\ ~OverBudget(ResponseSize - n)
            <4>1. ResponseSize - n \in Nat \ {0}
                BY <1>8, <3>2
            <4> QED BY <1>2, <3>2, <4>1, RoomIsExact
        <3> QED BY <2>1, <3>1, <3>2
    <2>6. /\ clients' = [clients EXCEPT ![cur.fd] = c]
          /\ UNCHANGED <<pending_close_queue, next_connection_id>>
        BY <2>3 DEF Keep, loop
    <2> QED BY <1>9, <2>1, <2>2, <2>4, <2>5, <2>6
<1>14. CASE RespondOverBudget
    <2>1. PICK n \in 0..ResponseSize - 1 :
              OverBudget(ResponseSize - n) /\ Reject([Answered EXCEPT !.wire = @ + n])
        BY <1>14 DEF RespondOverBudget
    <2>2. /\ n \in 0..ResponseSize /\ ResponseSize - n \in Nat \ {0}
          /\ ResponseSize - n <= ResponseSize
        BY <1>8
    <2>3. ~Service!HasRoom(ResponseSize)
        <3>1. ~Service!HasRoom(ResponseSize - n)
            BY <1>2, <2>1, <2>2, RoomIsExact
        <3> QED BY <1>2, <1>8, <2>2, <3>1, RoomIsExact
    <2> DEFINE c == [Answered EXCEPT !.wire = @ + n]
    <2>4. c.connection_id = me.connection_id /\ Reject(c)
        BY <1>10, <2>1, <2>2
    <2> HIDE DEF c
    <2> QED BY <1>1, <1>7, <2>3, <2>4, HandlerRefuses
<1> QED BY <1>12, <1>13, <1>14

-----------------------------------------------------------------------------
LEMMA InitSInv == Init => SInv /\ Service!Init
PROOF
<1> SUFFICES ASSUME Init PROVE SInv /\ Service!Init
    OBVIOUS
<1>1. DInv /\ InflightExact
    BY InitDInv, InitBInv DEF BInv
<1>2. ServiceInv
    BY DEF Init, ServiceInv, Stage
<1>3. /\ clients = << >> /\ pending_close_queue = {} /\ next_connection_id = 1
      /\ pc = "ready"
    BY DEF Init
<1>4. Served = << >>
    BY <1>3 DEF Served
<1>5. Service!Init
    BY <1>3, <1>4 DEF Service!Init, Ended
<1> QED BY <1>1, <1>2, <1>5 DEF SInv

LEMMA NextSInv == SInv /\ [Next]_vars => SInv' /\ Progress
PROOF
<1> SUFFICES ASSUME SInv, [Next]_vars PROVE SInv' /\ Progress
    OBVIOUS
<1>1. DInv' /\ InflightExact'
    <2>1. BInv
        BY DEF SInv, DInv, BInv
    <2> QED BY <2>1, NextDInv, NextBInv DEF SInv, BInv
<1> SUFFICES Progress /\ ServiceInv'
    BY <1>1 DEF SInv
<1>2. CASE LoopStep \/ HandleClientEvent
    BY <1>2, LoopService
<1>3. CASE PopReady
    BY <1>3, PopReadyService
<1>4. CASE ExpireTimer \/ HandleHangUp
    BY <1>4, TimerService
<1>5. CASE RegisterAcceptedConnection
    BY <1>5, RegisterService
<1>6. CASE EnforceConnectionLimit
    BY <1>6, LimitService
<1>7. CASE HandlerMove
    BY <1>7, HandlerMoveService
<1>8. CASE \/ ContinueWithRead \/ EventRead \/ FlushPauses \/ FlushedRequeues
           \/ FlushedIdles \/ ChunkDone \/ TailRequeues \/ TailArms
    BY <1>8, QuietService
<1>9. CASE FlushedCloses \/ TailCloses \/ ReadEnds \/ WriteFails
    BY <1>9, HandlerCloseService
<1>10. CASE FlushWrites
    BY <1>10, FlushService
<1>11. CASE ReadSome
    BY <1>11, ReadService
<1>12. CASE CheckHeaderLimit
    BY <1>12, HeaderLimitService
<1>13. CASE ProcessHeader
    BY <1>13, ProcessService
<1>14. CASE ConsumePart \/ ConsumeRest
    BY <1>14, ConsumeService
<1>15. CASE RespondLater \/ RespondNow \/ RespondOverBudget
    BY <1>15, RespondService
<1>16. CASE BrokenPipe
    BY <1>16, BrokenPipeService
<1>17. CASE Exited \/ UNCHANGED vars
    <2>1. UNCHANGED <<clients, pending_close_queue, next_connection_id, pc, cur>>
        BY <1>17 DEF Exited, vars, conns, loop
    <2>2. Served' = Served
        BY <2>1 DEF Served, ServedConnection, RequestOf
    <2>3. Progress
        BY <2>1, <2>2 DEF Progress, Service!vars, Ended
    <2>4. ServiceInv'
        BY <2>1 DEF SInv, ServiceInv, Stage, Pend, me
    <2> QED BY <2>3, <2>4
<1> QED BY <1>2, <1>3, <1>4, <1>5, <1>6, <1>7, <1>8, <1>9, <1>10, <1>11, <1>12, <1>13,
           <1>14, <1>15, <1>16, <1>17 DEF Next, LoopStep, HandlerMove

(* The event loop does for its clients what HttpService says, for any      *)
(* number of connections, any requests and any limits: however its queue,  *)
(* budgets, timers and epoll events interleave, each connection's requests *)
(* are taken whole and in order, each is answered once, the responses are  *)
(* sent in order, memory and connections stay within the limits, and no    *)
(* connection ends without the cause its reason stands for.                *)
THEOREM ServesItsConnections == Spec => ServesConnections
PROOF
<1>1. SInv /\ [Next]_vars => [Service!Next]_(Service!vars)
    BY NextSInv DEF Progress
<1>2. SInv /\ [Next]_vars => SInv'
    BY NextSInv
<1> QED BY <1>1, <1>2, InitSInv, PTL DEF Spec, ServesConnections, Service!Spec
=============================================================================
