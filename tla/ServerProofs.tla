---------------------------- MODULE ServerProofs ----------------------------
(* Proofs about Server for every set of descriptors, every request and     *)
(* every limit.                                                            *)
EXTENDS Server, SequenceTheorems, FiniteSetTheorems, TLAPS

-----------------------------------------------------------------------------
(* The inductive invariant: the properties of Server, and what they need   *)
(* to know of the handler that is running.                                 *)

Handling == pc \in HandlerPoints

(* A handler works on an open connection. *)
HandlerOpen ==
    /\ Handling \/ pc = "limit" => cur.fd \in DOMAIN clients
    /\ pc = "limit" => cur.origin = "dispatch"

(* Outside ProcessReadyQueue nothing is left of a round. *)
RoundInv ==
    left = 0 \/ pc \in {"ready", "exited"} \/ (Handling /\ cur.origin = "ready")

(* The batch has one event per descriptor, none of them for the connection *)
(* being handled, and exists only while it is worked.                      *)
BatchInv ==
    /\ \A e1, e2 \in batch : e1.fd = e2.fd => e1 = e2
    /\ Handling \/ pc = "limit" => \A e \in batch : e.fd # cur.fd
    /\ \/ pc \in {"ready", "timers", "wait", "timers_after", "release"}
       \/ Handling /\ cur.origin = "ready"
       => batch = {}

(* What holds of every connection but, at some points of a handler, the    *)
(* one it works on.                                                        *)
Settled(c, point) ==
    /\ c.output_buffer > 0 => c.armed \subseteq {"body"}
    /\ c.waiting_for_request_body <=> "body" \in c.armed
    /\ c.waiting_for_request_body =>
          \/ point = "consume"
          \/ c.input_buffer = << >> /\ c.pending_body_bytes_remaining > 0
    /\ c.pollout <=> (c.output_buffer > 0 \/ point = "flush")

PointOf(fd) == IF Handling /\ fd = cur.fd THEN pc ELSE "wait"

ConnectionsInv == \A fd \in DOMAIN clients : Settled(clients[fd], PointOf(fd))

Inv == /\ TypeOK
       /\ HandlerOpen
       /\ ReadyQueueConsistent
       /\ ReadyRoundIntact
       /\ RoundInv
       /\ BatchIsCurrent
       /\ BatchInv
       /\ IsFiniteSet(DOMAIN clients)
       /\ ActiveCountExact
       /\ ConnectionsInv

(* What the proofs use of the sizes. *)
LEMMA Sizes ==
    /\ {ResponseSize, kMaxConnections} \subseteq Nat \ {0}
    /\ kMaxReadBytesPerEvent \in Nat /\ kMaxWriteBytesPerEvent \in Nat
PROOF
BY SizeAssumption

-----------------------------------------------------------------------------
(* The ReadyQueue as a sequence without repetitions.                       *)

(* CloseClientConnection's std::remove: it takes fd out of the queue, and   *)
(* leaves any prefix without fd where it was.                              *)
LEMMA WithoutProperties ==
    ASSUME NEW q \in Seq(Fd), IsInjective(q), NEW fd
    PROVE  /\ Without(q, fd) \in Seq(Fd)
           /\ IsInjective(Without(q, fd))
           /\ Range(Without(q, fd)) = Range(q) \ {fd}
           /\ \A n \in 0..Len(q) :
                 (\A i \in 1..n : q[i] # fd) =>
                    n <= Len(Without(q, fd)) /\ \A i \in 1..n : Without(q, fd)[i] = q[i]
PROOF
<1>1. CASE ~\E i \in 1..Len(q) : q[i] = fd
    BY <1>1 DEF Without, Range
<1>2. CASE \E i \in 1..Len(q) : q[i] = fd
    <2> DEFINE k == CHOOSE i \in 1..Len(q) : q[i] = fd
               a == SubSeq(q, 1, k - 1)
               b == SubSeq(q, k + 1, Len(q))
               w == a \o b
    <2>1. k \in 1..Len(q) /\ q[k] = fd
        BY <1>2
    <2>2. Without(q, fd) = w
        BY <1>2 DEF Without
    <2> HIDE DEF k
    <2>3. /\ a \in Seq(Fd) /\ Len(a) = k - 1
          /\ \A i \in 1..k - 1 : a[i] = q[i]
        BY <2>1, SubSeqProperties
    <2>4. /\ b \in Seq(Fd) /\ Len(b) = Len(q) - k
          /\ \A i \in 1..Len(q) - k : b[i] = q[k + i]
        BY <2>1, SubSeqProperties
    <2> HIDE DEF a, b
    <2>5. /\ w \in Seq(Fd) /\ Len(w) = Len(q) - 1
          /\ \A i \in 1..Len(q) - 1 : w[i] = IF i < k THEN q[i] ELSE q[i + 1]
        <3>1. /\ w \in Seq(Fd) /\ Len(w) = Len(a) + Len(b)
              /\ \A i \in 1..Len(a) + Len(b) :
                    w[i] = IF i <= Len(a) THEN a[i] ELSE b[i - Len(a)]
            BY <2>3, <2>4, ConcatProperties
        <3> HIDE DEF w
        <3>3. Len(a) + Len(b) = Len(q) - 1 /\ Len(q) \in Nat /\ k \in Int
            BY <2>1, <2>3, <2>4
        <3>2. ASSUME NEW i \in 1..Len(q) - 1
              PROVE  w[i] = IF i < k THEN q[i] ELSE q[i + 1]
            <4>1. CASE i < k
                <5>1. i \in 1..Len(a) + Len(b) /\ i <= Len(a) /\ i \in 1..k - 1
                    BY <4>1, <3>3, <2>3
                <5> QED BY <5>1, <4>1, <3>1, <2>3
            <4>2. CASE i >= k
                <5>1. i - (k - 1) \in 1..Len(q) - k /\ ~(i <= Len(a))
                    BY <4>2, <2>1, <2>3
                <5>2. w[i] = b[i - (k - 1)]
                    <6>1. i \in 1..Len(a) + Len(b)
                        BY <3>3
                    <6> QED BY <6>1, <5>1, <3>1, <2>3
                <5>3. b[i - (k - 1)] = q[k + (i - (k - 1))]
                    BY <5>1, <2>4
                <5>4. k + (i - (k - 1)) = i + 1
                    BY <2>1
                <5> QED BY <4>2, <5>2, <5>3, <5>4, <2>1
            <4> QED BY <4>1, <4>2, <3>3
        <3> QED BY <3>1, <3>2, <3>3
    <2> HIDE DEF w
    <2>6. IsInjective(w)
        <3>1. SUFFICES ASSUME NEW i \in 1..Len(w), NEW j \in 1..Len(w), w[i] = w[j]
                       PROVE  i = j
            BY <2>5 DEF IsInjective
        <3>2. DEFINE at(x) == IF x < k THEN x ELSE x + 1
        <3>3. at(i) \in 1..Len(q) /\ at(j) \in 1..Len(q) /\ q[at(i)] = q[at(j)]
            BY <3>1, <2>1, <2>5
        <3>4. at(i) = at(j)
            BY <3>3 DEF IsInjective
        <3> QED BY <3>4, <2>1, <2>5
    <2>7. Range(w) = Range(q) \ {fd}
        <3>1. ASSUME NEW x \in Range(w) PROVE x \in Range(q) \ {fd}
            <4>1. PICK i \in 1..Len(w) : w[i] = x
                BY DEF Range
            <4> DEFINE j == IF i < k THEN i ELSE i + 1
            <4>2. j \in 1..Len(q) /\ j # k /\ q[j] = x
                BY <4>1, <2>1, <2>5
            <4> HIDE DEF j
            <4>3. x # fd
                BY <4>2, <2>1 DEF IsInjective
            <4> QED BY <4>2, <4>3 DEF Range
        <3>2. ASSUME NEW x \in Range(q) \ {fd} PROVE x \in Range(w)
            <4>1. PICK i \in 1..Len(q) : q[i] = x
                BY DEF Range
            <4>2. CASE i < k
                BY <4>1, <4>2, <2>1, <2>5 DEF Range
            <4>3. CASE i > k
                <5>1. i - 1 \in 1..Len(q) - 1 /\ ~(i - 1 < k) /\ (i - 1) + 1 = i
                    BY <4>3, <2>1
                <5> QED BY <5>1, <4>1, <2>5 DEF Range
            <4> QED BY <4>1, <4>2, <4>3, <2>1
        <3> QED BY <3>1, <3>2
    <2>8. ASSUME NEW n \in 0..Len(q), \A i \in 1..n : q[i] # fd
          PROVE  n <= Len(w) /\ \A i \in 1..n : w[i] = q[i]
        <3>1. n < k
            BY <2>1, <2>8
        <3>2. \A i \in 1..n : i \in 1..Len(q) - 1 /\ i < k
            BY <2>1, <3>1
        <3> QED BY <2>1, <2>5, <3>1, <3>2
    <2> QED BY <2>2, <2>5, <2>6, <2>7, <2>8
<1> QED BY <1>1, <1>2

(* EnqueueReadyConnection's push_back of an fd that is not queued. *)
LEMMA AppendNewProperties ==
    ASSUME NEW q \in Seq(Fd), IsInjective(q), NEW fd \in Fd, fd \notin Range(q)
    PROVE  /\ Append(q, fd) \in Seq(Fd)
           /\ IsInjective(Append(q, fd))
           /\ Range(Append(q, fd)) = Range(q) \cup {fd}
           /\ Len(Append(q, fd)) = Len(q) + 1
           /\ \A i \in 1..Len(q) : Append(q, fd)[i] = q[i]
PROOF
<1> DEFINE p == Append(q, fd)
<1>1. /\ p \in Seq(Fd) /\ Len(p) = Len(q) + 1 /\ p[Len(q) + 1] = fd
      /\ \A i \in 1..Len(q) : p[i] = q[i]
    BY AppendProperties
<1> HIDE DEF p
<1>2. IsInjective(p)
    BY <1>1 DEF IsInjective, Range
<1>3. Range(p) = Range(q) \cup {fd}
    BY <1>1 DEF Range
<1> QED BY <1>1, <1>2, <1>3 DEF p

(* ProcessReadyQueue's pop_front: the fd popped is not queued any more. *)
LEMMA TailProperties ==
    ASSUME NEW q \in Seq(Fd), IsInjective(q), q # << >>
    PROVE  /\ Head(q) \in Fd /\ Head(q) \in Range(q)
           /\ Tail(q) \in Seq(Fd)
           /\ IsInjective(Tail(q))
           /\ Range(Tail(q)) = Range(q) \ {Head(q)}
           /\ Len(Tail(q)) = Len(q) - 1
           /\ \A i \in 1..Len(Tail(q)) : Tail(q)[i] # Head(q)
PROOF
<1> DEFINE t == Tail(q)
<1>1. /\ Head(q) \in Fd /\ t \in Seq(Fd) /\ Len(t) = Len(q) - 1
      /\ \A i \in 1..Len(t) : t[i] = q[i + 1]
    BY HeadTailProperties
<1>2. Head(q) = q[1] /\ Len(q) \in Nat /\ Len(q) > 0
    OBVIOUS
<1> HIDE DEF t
<1>3. /\ \A i, j \in 1..Len(q) : q[i] = q[j] => i = j
      /\ \A i \in 1..Len(t) : i + 1 \in 1..Len(q) /\ i + 1 # 1
      /\ 1 \in 1..Len(q) /\ Len(t) \in Nat
    <2>1. \A i, j \in 1..Len(q) : q[i] = q[j] => i = j
        BY DEF IsInjective
    <2> QED BY <1>1, <1>2, <2>1
<1>4. IsInjective(t)
    <2>1. ASSUME NEW i \in 1..Len(t), NEW j \in 1..Len(t), t[i] = t[j] PROVE i = j
        <3>1. q[i + 1] = q[j + 1]
            BY <1>1, <2>1
        <3>2. i + 1 = j + 1
            BY <1>3, <3>1
        <3> QED BY <3>2
    <2> QED BY <1>1, <2>1 DEF IsInjective
<1>5. \A i \in 1..Len(t) : t[i] # Head(q)
    BY <1>1, <1>2, <1>3
<1>6. Range(t) = Range(q) \ {Head(q)}
    <2>1. ASSUME NEW x \in Range(t) PROVE x \in Range(q) \ {Head(q)}
        BY <1>1, <1>2, <1>5 DEF Range
    <2>2. ASSUME NEW x \in Range(q) \ {Head(q)} PROVE x \in Range(t)
        <3>1. PICK i \in 1..Len(q) : q[i] = x
            BY DEF Range
        <3>2. i - 1 \in 1..Len(t) /\ (i - 1) + 1 = i
            <4>1. i # 1
                BY <3>1, <1>2
            <4> QED BY <4>1, <1>1, <1>2
        <3>3. t[i - 1] = x
            BY <3>1, <3>2, <1>1
        <3> QED BY <3>2, <3>3, <1>1 DEF Range
    <2> QED BY <2>1, <2>2
<1>7. Head(q) \in Range(q)
    BY <1>2, <1>3 DEF Range
<1> QED BY <1>1, <1>4, <1>5, <1>6, <1>7 DEF t

-----------------------------------------------------------------------------
(* What the invariant says of the running handler.                         *)

(* clients maps open descriptors to connections. *)
LEMMA OpenConnections ==
    ASSUME TypeOK
    PROVE  /\ DOMAIN clients \subseteq Fd
           /\ \A fd \in DOMAIN clients : clients[fd] \in ClientConnection
           /\ clients \in [DOMAIN clients -> ClientConnection]
PROOF
BY DEF TypeOK

(* The point a connection is at for Settled when a handler moves to pc'. *)
Point(p) == IF p \in HandlerPoints THEN p ELSE "wait"

(* A handler always finds its connection open and settled. *)
LEMMA HandledConnection ==
    ASSUME Inv, Handling \/ pc = "limit"
    PROVE  /\ cur \in Frame /\ cur.fd \in DOMAIN clients /\ cur.fd \in Fd
           /\ cur.origin \in {"ready", "dispatch"}
           /\ me \in ClientConnection
           /\ Settled(me, Point(pc))
PROOF
<1>1. cur \in Frame /\ cur.fd \in DOMAIN clients
    BY DEF Inv, TypeOK, HandlerOpen, Handling, LoopPoints, HandlerPoints
<1>2. me \in ClientConnection /\ cur.fd \in Fd
    BY <1>1, OpenConnections DEF Inv, me
<1>3. Settled(me, PointOf(cur.fd))
    BY <1>1 DEF Inv, ConnectionsInv, me
<1>4. PointOf(cur.fd) = Point(pc)
    BY DEF PointOf, Point, Handling, HandlerPoints
<1>5. cur.origin \in {"ready", "dispatch"}
    BY <1>1 DEF Frame
<1> QED BY <1>1, <1>2, <1>3, <1>4, <1>5

(* A handler goes on with its connection, or returns to its caller. *)
HandlerMoves ==
    \/ /\ pc' \in HandlerPoints
       /\ cur' \in Frame /\ cur'.fd = cur.fd /\ cur'.origin = cur.origin
    \/ Return

(* Where such a move ends. *)
LEMMA MovePoints ==
    ASSUME Inv, Handling, HandlerMoves
    PROVE  /\ pc' \in HandlerPoints \cup {"ready", "dispatch"}
           /\ pc' \in HandlerPoints => cur' \in Frame /\ cur'.fd = cur.fd /\ cur'.origin = cur.origin
           /\ pc' \notin HandlerPoints => pc' = cur.origin /\ cur' = NoFrame
PROOF
BY HandledConnection DEF HandlerMoves, Return, HandlerPoints

(* A handler changes its own connection, and the ReadyQueue at most at its *)
(* end.                                                                    *)
LEMMA HandlerUpdate ==
    ASSUME Inv, Handling, HandlerMoves,
           NEW c \in ClientConnection,
           clients' = [clients EXCEPT ![cur.fd] = c],
           c.connection_id = me.connection_id,
           Settled(c, Point(pc')),
           ready_queue' \in Seq(Fd), IsInjective(ready_queue'),
           Range(ready_queue') = IF c.in_ready_queue THEN Range(ready_queue) \cup {cur.fd}
                                 ELSE Range(ready_queue) \ {cur.fd},
           left <= Len(ready_queue'),
           \A i \in 1..left : ready_queue'[i] = ready_queue[i],
           global_inflight_bytes' \in Nat,
           UNCHANGED <<pending_close_queue, active_connection_count, loop>>
    PROVE  Inv'
PROOF
<1> USE DEF loop
<1>1. /\ cur \in Frame /\ cur.fd \in DOMAIN clients /\ cur.fd \in Fd
      /\ cur.origin \in {"ready", "dispatch"}
    BY HandledConnection
<1>2. /\ pc' \in HandlerPoints \cup {"ready", "dispatch"}
      /\ pc' \in HandlerPoints => cur' \in Frame /\ cur'.fd = cur.fd /\ cur'.origin = cur.origin
      /\ pc' \notin HandlerPoints => pc' = cur.origin /\ cur' = NoFrame
    BY MovePoints
<1>3. /\ DOMAIN clients' = DOMAIN clients
      /\ clients'[cur.fd] = c
      /\ \A fd \in DOMAIN clients : fd # cur.fd => clients'[fd] = clients[fd]
    BY <1>1
<1>4. pc' # "limit" /\ pc # "limit"
    BY <1>2 DEF Handling, HandlerPoints
<1>5. TypeOK'
    <2>1. clients' \in [DOMAIN clients -> ClientConnection] /\ DOMAIN clients \subseteq Fd
        BY <1>3, OpenConnections DEF Inv
    <2>2. \/ pc' \in HandlerPoints \cup {"limit"} /\ cur' \in Frame
          \/ pc' \in LoopPoints /\ cur' = NoFrame
        BY <1>1, <1>2 DEF LoopPoints
    <2>3. pc' \in HandlerPoints \cup LoopPoints \cup {"limit"}
        BY <1>2 DEF LoopPoints
    <2> QED BY <2>1, <2>2, <2>3 DEF Inv, TypeOK
<1>6. HandlerOpen'
    BY <1>1, <1>2, <1>3, <1>4 DEF HandlerOpen, Handling
<1>7. ReadyQueueConsistent'
    <2>1. Range(ready_queue) = {fd \in DOMAIN clients : clients[fd].in_ready_queue}
        BY DEF Inv, ReadyQueueConsistent
    <2>2. c.in_ready_queue \in BOOLEAN
        BY DEF ClientConnection
    <2>3. Range(ready_queue') = {fd \in DOMAIN clients : clients'[fd].in_ready_queue}
        BY <1>1, <1>3, <2>1, <2>2
    <2> QED BY <1>3, <2>3 DEF ReadyQueueConsistent
<1>8. ReadyRoundIntact'
    BY <1>2 DEF Inv, ReadyRoundIntact, Handling
<1>9. RoundInv' /\ BatchInv'
    <2>1. RoundInv'
        BY <1>1, <1>2 DEF Inv, RoundInv, Handling, HandlerPoints
    <2>2. BatchInv'
        BY <1>1, <1>2, <1>4 DEF Inv, BatchInv, Handling, HandlerPoints
    <2> QED BY <2>1, <2>2
<1>10. BatchIsCurrent'
    BY <1>1, <1>3 DEF Inv, BatchIsCurrent, me
<1>11. IsFiniteSet(DOMAIN clients)' /\ ActiveCountExact'
    BY <1>3, <1>4 DEF Inv, ActiveCountExact
<1>12. ConnectionsInv'
    <2> SUFFICES ASSUME NEW fd \in DOMAIN clients
                 PROVE  Settled(clients'[fd], PointOf(fd)')
        BY <1>3 DEF ConnectionsInv, Settled
    <2>1. CASE fd = cur.fd
        BY <2>1, <1>2, <1>3 DEF PointOf, Point, Handling
    <2>2. CASE fd # cur.fd
        BY <2>2, <1>2, <1>3 DEF Inv, ConnectionsInv, PointOf, Handling
    <2> QED BY <2>1, <2>2
<1> QED BY <1>5, <1>6, <1>7, <1>8, <1>9, <1>10, <1>11, <1>12 DEF Inv

(* A handler changes its connection and queues nothing. *)
LEMMA KeepPreserves ==
    ASSUME Inv, Handling, HandlerMoves,
           NEW c \in ClientConnection, Keep(c),
           c.connection_id = me.connection_id,
           c.in_ready_queue = me.in_ready_queue,
           Settled(c, Point(pc')),
           global_inflight_bytes' \in Nat
    PROVE  Inv'
PROOF
<1>1. /\ cur.fd \in DOMAIN clients
      /\ ready_queue \in Seq(Fd) /\ IsInjective(ready_queue)
      /\ Range(ready_queue) = {fd \in DOMAIN clients : clients[fd].in_ready_queue}
      /\ left <= Len(ready_queue)
    BY HandledConnection DEF Inv, TypeOK, ReadyQueueConsistent, ReadyRoundIntact
<1>2. Range(ready_queue) = IF c.in_ready_queue THEN Range(ready_queue) \cup {cur.fd}
                           ELSE Range(ready_queue) \ {cur.fd}
    BY <1>1 DEF me
<1> QED BY <1>1, <1>2, HandlerUpdate DEF Keep

(* A handler changes its connection and puts it in the ReadyQueue. *)
LEMMA RequeuePreserves ==
    ASSUME Inv, Handling, HandlerMoves,
           NEW c \in ClientConnection, Requeue(c),
           c.connection_id = me.connection_id,
           c.in_ready_queue = me.in_ready_queue,
           Settled(c, Point(pc')),
           global_inflight_bytes' \in Nat
    PROVE  Inv'
PROOF
<1> DEFINE d == [c EXCEPT !.in_ready_queue = TRUE]
<1>1. /\ cur.fd \in DOMAIN clients /\ cur.fd \in Fd
      /\ ready_queue \in Seq(Fd) /\ IsInjective(ready_queue)
      /\ Range(ready_queue) = {fd \in DOMAIN clients : clients[fd].in_ready_queue}
      /\ left <= Len(ready_queue) /\ left \in Nat
    BY HandledConnection DEF Inv, TypeOK, ReadyQueueConsistent, ReadyRoundIntact
<1>2. /\ d \in ClientConnection /\ d.in_ready_queue = TRUE
      /\ d.connection_id = me.connection_id
      /\ Settled(d, Point(pc'))
    <2>1. d \in ClientConnection
        BY DEF ClientConnection
    <2>2. /\ d.in_ready_queue = TRUE /\ d.connection_id = c.connection_id
          /\ d.output_buffer = c.output_buffer /\ d.armed = c.armed
          /\ d.waiting_for_request_body = c.waiting_for_request_body
          /\ d.input_buffer = c.input_buffer /\ d.pollout = c.pollout
          /\ d.pending_body_bytes_remaining = c.pending_body_bytes_remaining
        BY DEF ClientConnection
    <2> QED BY <2>1, <2>2 DEF Settled
<1>3. /\ clients' = [clients EXCEPT ![cur.fd] = d]
      /\ UNCHANGED <<pending_close_queue, active_connection_count, loop>>
    BY DEF Requeue, EnqueueReadyConnection
<1> HIDE DEF d
<1>4. CASE c.in_ready_queue
    <2>1. ready_queue' = ready_queue
        BY <1>4 DEF Requeue, EnqueueReadyConnection
    <2>2. Range(ready_queue) = Range(ready_queue) \cup {cur.fd}
        BY <1>1, <1>4 DEF me
    <2> QED BY <1>1, <1>2, <1>3, <2>1, <2>2, HandlerUpdate
<1>5. CASE ~c.in_ready_queue
    <2>1. ready_queue' = Append(ready_queue, cur.fd)
        BY <1>5 DEF Requeue, EnqueueReadyConnection
    <2>2. cur.fd \notin Range(ready_queue)
        BY <1>1, <1>5 DEF me
    <2>3. /\ Append(ready_queue, cur.fd) \in Seq(Fd)
          /\ IsInjective(Append(ready_queue, cur.fd))
          /\ Range(Append(ready_queue, cur.fd)) = Range(ready_queue) \cup {cur.fd}
          /\ Len(Append(ready_queue, cur.fd)) = Len(ready_queue) + 1
          /\ \A i \in 1..Len(ready_queue) : Append(ready_queue, cur.fd)[i] = ready_queue[i]
        BY <1>1, <2>2, AppendNewProperties
    <2>4. left <= Len(ready_queue') /\ \A i \in 1..left : ready_queue'[i] = ready_queue[i]
        BY <1>1, <2>1, <2>3
    <2> QED BY <1>2, <1>3, <2>1, <2>3, <2>4, HandlerUpdate
<1> QED BY <1>4, <1>5

(* Nothing but the point the thread is at changes. *)
LEMMA MovePreserves ==
    ASSUME Inv, Handling, HandlerMoves, Settled(me, Point(pc')), UNCHANGED <<conns, loop>>
    PROVE  Inv'
PROOF
<1>1. me \in ClientConnection /\ cur.fd \in DOMAIN clients
    BY HandledConnection
<1>2. clients = [clients EXCEPT ![cur.fd] = me]
    BY OpenConnections DEF me, Inv
<1>3. Keep(me)
    BY <1>2 DEF Keep, conns
<1>4. global_inflight_bytes' \in Nat
    BY DEF conns, Inv, TypeOK
<1> QED BY <1>1, <1>3, <1>4, KeepPreserves

(* A connection is closed: by the handler that works on it, by             *)
(* EnforceConnectionLimit, or by the loop between handlers.                *)
LEMMA ClosePreserves ==
    ASSUME Inv, NEW fd \in DOMAIN clients, NEW c \in ClientConnection,
           NEW reason \in CloseReason,
           c.connection_id = clients[fd].connection_id,
           CloseClientConnection(fd, c, reason),
           UNCHANGED <<next_connection_id, left>>,
           batch' \subseteq batch, \A e \in batch' : e.fd # fd,
           \/ Handling /\ fd = cur.fd /\ Return
           \/ pc = "limit" /\ fd = cur.fd /\ pc' = "accept" /\ cur' = NoFrame
           \/ pc \in {"timers", "timers_after", "dispatch"} /\ UNCHANGED <<pc, cur>>
    PROVE  Inv'
PROOF
<1>1. /\ fd \in Fd /\ DOMAIN clients \subseteq Fd
      /\ clients \in [DOMAIN clients -> ClientConnection]
      /\ ready_queue \in Seq(Fd) /\ IsInjective(ready_queue)
      /\ Range(ready_queue) = {f \in DOMAIN clients : clients[f].in_ready_queue}
      /\ left \in Nat /\ left <= Len(ready_queue)
    <2>1. DOMAIN clients \subseteq Fd /\ clients \in [DOMAIN clients -> ClientConnection]
        BY OpenConnections DEF Inv
    <2> QED BY <2>1 DEF Inv, TypeOK, ReadyQueueConsistent, ReadyRoundIntact
<1>2. /\ pc' \in LoopPoints \ {"exited"} /\ cur' = NoFrame
      /\ pc' = "ready" \/ left = 0
      /\ pc' \in {"ready", "timers", "timers_after"} => batch = {}
    <2>1. CASE Handling /\ fd = cur.fd /\ Return
        BY <2>1, HandledConnection
        DEF Return, LoopPoints, Handling, HandlerPoints, Inv, RoundInv, BatchInv
    <2>2. CASE pc = "limit" /\ fd = cur.fd /\ pc' = "accept" /\ cur' = NoFrame
        BY <2>2 DEF LoopPoints, Handling, HandlerPoints, Inv, RoundInv
    <2>3. CASE pc \in {"timers", "timers_after", "dispatch"} /\ UNCHANGED <<pc, cur>>
        BY <2>3 DEF LoopPoints, Handling, HandlerPoints, Inv, RoundInv, BatchInv, TypeOK
    <2> QED BY <2>1, <2>2, <2>3
<1>3. \A i \in 1..left : ready_queue[i] # fd
    <2>1. CASE left = 0
        BY <2>1, <1>1
    <2>2. CASE left # 0
        BY <2>2 DEF Inv, ReadyRoundIntact, RoundInv, Handling, HandlerPoints
    <2> QED BY <2>1, <2>2
<1>4. /\ ready_queue' \in Seq(Fd) /\ IsInjective(ready_queue')
      /\ Range(ready_queue') = Range(ready_queue) \ {fd}
      /\ left <= Len(ready_queue') /\ \A i \in 1..left : ready_queue'[i] = ready_queue[i]
    <2>1. ready_queue' = Without(ready_queue, fd)
        BY DEF CloseClientConnection
    <2>2. left \in 0..Len(ready_queue)
        BY <1>1
    <2>3. /\ Without(ready_queue, fd) \in Seq(Fd)
          /\ IsInjective(Without(ready_queue, fd))
          /\ Range(Without(ready_queue, fd)) = Range(ready_queue) \ {fd}
        BY <1>1, WithoutProperties
    <2>4. left <= Len(Without(ready_queue, fd))
          /\ \A i \in 1..left : Without(ready_queue, fd)[i] = ready_queue[i]
        BY <1>1, <1>3, <2>2, WithoutProperties
    <2> QED BY <2>1, <2>3, <2>4
<1>5. /\ DOMAIN clients' = DOMAIN clients \ {fd}
      /\ \A f \in DOMAIN clients' : clients'[f] = clients[f]
      /\ clients' \in [DOMAIN clients \ {fd} -> ClientConnection]
    BY <1>1 DEF CloseClientConnection, Restrict
<1>6. pc' \notin HandlerPoints /\ pc' # "limit"
    BY <1>2 DEF LoopPoints, HandlerPoints
<1>7. TypeOK'
    <2>1. pending_close_queue' \in SUBSET PendingCloseEntry
        <3>1. /\ c.connection_id \in Nat \ {0} /\ c.responses \in Nat /\ c.wire \in Nat
              /\ ResponseSize \in Nat
            BY Sizes DEF ClientConnection
        <3>2. ResponseSize * c.responses - c.wire \in Int
            BY <3>1
        <3>3. [connection_id |-> c.connection_id, reason |-> reason,
               unsent |-> ResponseSize * c.responses - c.wire] \in PendingCloseEntry
            BY <3>1, <3>2 DEF PendingCloseEntry
        <3> QED BY <3>3 DEF Inv, TypeOK, CloseClientConnection
    <2>2. active_connection_count' \in Nat
        BY DEF Inv, TypeOK, CloseClientConnection
    <2>3. global_inflight_bytes' \in Nat
        <3>1. Len(c.input_buffer) + c.output_buffer \in Nat
            BY DEF ClientConnection
        <3> QED BY <3>1 DEF Inv, TypeOK, CloseClientConnection, ReleaseInflightBytes
    <2>4. \E open \in SUBSET Fd : clients' \in [open -> ClientConnection]
        BY <1>1, <1>5
    <2> QED BY <1>2, <1>4, <2>1, <2>2, <2>3, <2>4 DEF Inv, TypeOK
<1>8. HandlerOpen'
    BY <1>6 DEF HandlerOpen, Handling
<1>9. ReadyQueueConsistent' /\ ReadyRoundIntact'
    BY <1>1, <1>4, <1>5, <1>6 DEF ReadyQueueConsistent, ReadyRoundIntact
<1>10. RoundInv' /\ BatchInv'
    <2>1. RoundInv'
        BY <1>2 DEF RoundInv
    <2>2. BatchInv'
        <3>1. \A e1, e2 \in batch' : e1.fd = e2.fd => e1 = e2
            BY DEF Inv, BatchInv
        <3>2. pc' \in {"wait", "release"} => batch = {}
            BY <1>2, HandledConnection
            DEF Inv, BatchInv, Handling, HandlerPoints, Return
        <3> QED BY <1>2, <1>6, <3>1, <3>2 DEF BatchInv, Handling
    <2> QED BY <2>1, <2>2
<1>11. BatchIsCurrent'
    BY <1>5 DEF Inv, BatchIsCurrent
<1>12. IsFiniteSet(DOMAIN clients)' /\ ActiveCountExact'
    <2>1. /\ IsFiniteSet(DOMAIN clients \ {fd})
          /\ Cardinality(DOMAIN clients \ {fd}) = Cardinality(DOMAIN clients) - 1
        BY FS_RemoveElement DEF Inv
    <2>2. Cardinality(DOMAIN clients \ {fd}) \in Nat
        BY <2>1, FS_CardinalityType
    <2>3. /\ active_connection_count \in Nat
          /\ active_connection_count = Cardinality(DOMAIN clients)
          /\ active_connection_count <= kMaxConnections + 1
        BY Sizes DEF Inv, TypeOK, ActiveCountExact
    <2>4. active_connection_count' = active_connection_count - 1
        BY <2>1, <2>2, <2>3 DEF CloseClientConnection
    <2> QED BY <1>5, <1>6, <2>1, <2>2, <2>3, <2>4, Sizes DEF ActiveCountExact
<1>13. ConnectionsInv'
    <2> SUFFICES ASSUME NEW f \in DOMAIN clients'
                 PROVE  Settled(clients'[f], PointOf(f)')
        BY DEF ConnectionsInv, Settled
    <2>1. PointOf(f)' = "wait"
        BY <1>6 DEF PointOf, Handling
    <2>2. PointOf(f) = "wait"
        BY <1>5 DEF PointOf, Handling, HandlerPoints
    <2> QED BY <1>5, <2>1, <2>2 DEF Inv, ConnectionsInv
<1> QED BY <1>7, <1>8, <1>9, <1>10, <1>11, <1>12, <1>13 DEF Inv

(* The thread reaches a point between handlers and no connection changes. *)
LEMMA LoopMove ==
    ASSUME Inv, pc' \in LoopPoints, cur' = NoFrame,
           UNCHANGED <<clients, ready_queue, active_connection_count,
                       global_inflight_bytes, next_connection_id>>,
           pending_close_queue' \in SUBSET PendingCloseEntry,
           active_connection_count <= kMaxConnections,
           left' \in Nat, left' <= Len(ready_queue),
           left' = 0 \/ pc' \in {"ready", "exited"},
           batch' \in SUBSET Event, BatchIsCurrent', BatchInv',
           Handling => Settled(me, "wait")
    PROVE  Inv'
PROOF
<1>1. pc' \notin HandlerPoints /\ pc' # "limit"
    BY DEF LoopPoints, HandlerPoints
<1>2. TypeOK'
    BY DEF Inv, TypeOK
<1>3. HandlerOpen' /\ ReadyRoundIntact' /\ RoundInv'
    BY <1>1 DEF HandlerOpen, Handling, ReadyRoundIntact, RoundInv
<1>4. ReadyQueueConsistent'
    BY DEF Inv, ReadyQueueConsistent
<1>5. IsFiniteSet(DOMAIN clients)' /\ ActiveCountExact'
    <2>1. active_connection_count \in Nat /\ kMaxConnections \in Nat
        BY Sizes DEF Inv, TypeOK
    <2> QED BY <1>1, <2>1 DEF Inv, ActiveCountExact
<1>6. ConnectionsInv'
    <2> SUFFICES ASSUME NEW fd \in DOMAIN clients
                 PROVE  Settled(clients[fd], PointOf(fd)')
        BY DEF ConnectionsInv, Settled
    <2>1. PointOf(fd)' = "wait"
        BY <1>1 DEF PointOf, Handling
    <2>2. CASE Handling /\ fd = cur.fd
        BY <2>1, <2>2 DEF me
    <2>3. CASE ~(Handling /\ fd = cur.fd)
        BY <2>1, <2>3 DEF PointOf, Inv, ConnectionsInv
    <2> QED BY <2>2, <2>3
<1> QED BY <1>2, <1>3, <1>4, <1>5, <1>6 DEF Inv

(* What holds whenever no handler runs. *)
LEMMA BetweenHandlers ==
    ASSUME Inv, pc \in LoopPoints
    PROVE  /\ pc \notin HandlerPoints /\ ~Handling /\ pc # "limit" /\ cur = NoFrame
           /\ active_connection_count <= kMaxConnections
           /\ left \in Nat /\ left <= Len(ready_queue)
           /\ pc \notin {"ready", "exited"} => left = 0
PROOF
<1>1. pc \notin HandlerPoints /\ pc # "limit"
    BY DEF LoopPoints, HandlerPoints
<1>2. active_connection_count <= kMaxConnections
    <2>1. active_connection_count \in Nat /\ kMaxConnections \in Nat
        BY Sizes DEF Inv, TypeOK
    <2> QED BY <1>1, <2>1 DEF Inv, ActiveCountExact
<1> QED BY <1>1, <1>2 DEF Inv, TypeOK, Handling, ReadyRoundIntact, RoundInv

(* The steps of the loop that change no connection. *)
LoopStep ==
    \/ ReadyQueueDone \/ TimersDone \/ Wait \/ BatchDone \/ HandleListenEvent
    \/ AcceptQueueEmpty \/ AcceptFails \/ FlushPendingCloseQueue \/ StopRequested

(* Going from one phase of RunEventLoopOnce to the next is safe. *)
LEMMA LoopStepPreserves ==
    ASSUME Inv, LoopStep
    PROVE  Inv'
PROOF
<1>1. pc \in LoopPoints
    BY DEF LoopStep, ReadyQueueDone, TimersDone, Wait, BatchDone, HandleListenEvent,
           AcceptQueueEmpty, AcceptFails, FlushPendingCloseQueue, StopRequested, LoopPoints
<1>2. /\ ~Handling /\ cur = NoFrame
      /\ active_connection_count <= kMaxConnections
      /\ left \in Nat /\ left <= Len(ready_queue)
      /\ pc \notin {"ready", "exited"} => left = 0
    BY <1>1, BetweenHandlers
<1>3. /\ UNCHANGED <<clients, ready_queue, active_connection_count,
                     global_inflight_bytes, next_connection_id>>
      /\ cur' = NoFrame
    BY <1>2 DEF LoopStep, ReadyQueueDone, TimersDone, Wait, BatchDone, HandleListenEvent,
           AcceptQueueEmpty, AcceptFails, FlushPendingCloseQueue, StopRequested,
           Goto, Exit, conns, loop
<1>4. /\ pending_close_queue \in SUBSET PendingCloseEntry /\ batch \in SUBSET Event
      /\ BatchIsCurrent /\ BatchInv
    BY DEF Inv, TypeOK
<1>5. CASE ReadyQueueDone \/ TimersDone \/ BatchDone \/ AcceptQueueEmpty \/ AcceptFails
           \/ StopRequested
    <2>1. UNCHANGED <<conns, loop>>
        BY <1>5 DEF ReadyQueueDone, TimersDone, BatchDone, AcceptQueueEmpty, AcceptFails,
                    StopRequested, Exit
    <2>2. /\ pc' \in LoopPoints \ {"ready"}
          /\ pc' \in {"timers", "wait", "timers_after", "release"} => batch = {}
          /\ left = 0
        BY <1>2, <1>4, <1>5
        DEF ReadyQueueDone, TimersDone, BatchDone, AcceptQueueEmpty, AcceptFails,
            StopRequested, Exit, Goto, LoopPoints, BatchInv
    <2>3. BatchIsCurrent'
        BY <1>4, <2>1 DEF BatchIsCurrent, conns, loop
    <2>4. BatchInv'
        BY <1>4, <2>1, <2>2 DEF BatchInv, loop, Handling, LoopPoints, HandlerPoints
    <2> QED BY <1>2, <1>3, <1>4, <2>1, <2>2, <2>3, <2>4, LoopMove DEF conns, loop
<1>6. CASE Wait
    <2>1. pc' = "dispatch" /\ left' = left /\ pending_close_queue' = pending_close_queue
        BY <1>6 DEF Wait, Goto, conns
    <2>2. PICK listening \in BOOLEAN, got \in [DOMAIN clients -> {{}, {"HUP"}, {"IN"}, {"OUT"}, {"IN", "OUT"}}] :
              batch' =
                {[fd |-> fd, connection_id |-> clients[fd].connection_id, events |-> got[fd]] :
                    fd \in {f \in DOMAIN clients : got[f] # {}}}
                \cup (IF listening THEN {[fd |-> ListenFd, connection_id |-> 0, events |-> {"IN"}]}
                      ELSE {})
        BY <1>6 DEF Wait
    <2>3. \A e \in batch' :
              \/ /\ e.fd \in DOMAIN clients
                 /\ e = [fd |-> e.fd, connection_id |-> clients[e.fd].connection_id,
                         events |-> got[e.fd]]
              \/ e = [fd |-> ListenFd, connection_id |-> 0, events |-> {"IN"}]
        BY <2>2
    <2>4. \A fd \in DOMAIN clients :
              fd \in Fd /\ fd # ListenFd /\ clients[fd].connection_id \in Nat
        BY OpenConnections, FdAssumption DEF Inv, ClientConnection
    <2>5. batch' \in SUBSET Event
        <3> SUFFICES ASSUME NEW e \in batch' PROVE e \in Event
            OBVIOUS
        <3>1. CASE /\ e.fd \in DOMAIN clients
                   /\ e = [fd |-> e.fd, connection_id |-> clients[e.fd].connection_id,
                           events |-> got[e.fd]]
            <4>1. got[e.fd] \in SUBSET {"IN", "OUT", "HUP"}
                BY <3>1
            <4>2. e.fd \in Fd /\ clients[e.fd].connection_id \in Nat
                BY <3>1, <2>4
            <4> QED BY <3>1, <4>1, <4>2 DEF Event
        <3>2. CASE e = [fd |-> ListenFd, connection_id |-> 0, events |-> {"IN"}]
            BY <3>2 DEF Event
        <3> QED BY <2>3, <3>1, <3>2
    <2>6. BatchIsCurrent'
        BY <1>3, <2>3 DEF BatchIsCurrent
    <2>7. BatchInv'
        <3>1. ASSUME NEW e1 \in batch', NEW e2 \in batch', e1.fd = e2.fd
              PROVE  e1 = e2
            <4>1. CASE e1.fd \in DOMAIN clients
                <5>1. e1.fd # ListenFd
                    BY <2>4, <4>1
                <5>2. /\ e1.fd = ListenFd \/ e1 = [fd |-> e1.fd,
                                connection_id |-> clients[e1.fd].connection_id,
                                events |-> got[e1.fd]]
                      /\ e2.fd = ListenFd \/ e2 = [fd |-> e2.fd,
                                connection_id |-> clients[e2.fd].connection_id,
                                events |-> got[e2.fd]]
                    BY <2>3
                <5> QED BY <3>1, <5>1, <5>2
            <4>2. CASE e1.fd \notin DOMAIN clients
                BY <2>3, <3>1, <4>2
            <4> QED BY <4>1, <4>2
        <3> QED BY <2>1, <3>1 DEF BatchInv, Handling, HandlerPoints
    <2>8. left = 0
        BY <1>2, <1>6 DEF Wait
    <2> QED BY <1>2, <1>3, <1>4, <2>1, <2>5, <2>6, <2>7, <2>8, LoopMove DEF LoopPoints
<1>7. CASE HandleListenEvent
    <2>1. /\ pc' = "accept" /\ left' = left /\ pending_close_queue' = pending_close_queue
          /\ batch' \subseteq batch
        BY <1>7 DEF HandleListenEvent, Goto, conns
    <2>2. BatchIsCurrent' /\ BatchInv'
        BY <1>3, <1>4, <2>1 DEF BatchIsCurrent, BatchInv, Handling, HandlerPoints
    <2>3. left = 0
        BY <1>2, <1>7 DEF HandleListenEvent
    <2> QED BY <1>2, <1>3, <1>4, <2>1, <2>2, <2>3, LoopMove DEF LoopPoints
<1>8. CASE FlushPendingCloseQueue
    <2>1. /\ pc' = "ready" /\ left' = Len(ready_queue) /\ pending_close_queue' = {}
          /\ batch' = batch /\ batch = {}
        BY <1>4, <1>8 DEF FlushPendingCloseQueue, Goto, BatchInv
    <2>2. BatchIsCurrent' /\ BatchInv'
        BY <2>1 DEF BatchIsCurrent, BatchInv
    <2>3. Len(ready_queue) \in Nat
        BY DEF Inv, TypeOK
    <2> QED BY <1>2, <1>3, <1>4, <2>1, <2>2, <2>3, LoopMove DEF LoopPoints
<1> QED BY <1>5, <1>6, <1>7, <1>8 DEF LoopStep

(* A handler starts with a whole budget and well-typed locals. *)
LEMMA NewFrameType ==
    ASSUME NEW fd \in Fd, NEW origin \in {"ready", "dispatch"}, NEW readable \in BOOLEAN
    PROVE  /\ NewFrame(fd, origin, readable) \in Frame
           /\ NewFrame(fd, origin, readable).fd = fd
           /\ NewFrame(fd, origin, readable).origin = origin
PROOF
BY Sizes DEF NewFrame, Frame

(* A step that changes a connection only in its in_ready_queue flag. *)
LEMMA UnqueuedIsSettled ==
    ASSUME NEW c \in ClientConnection, NEW point, NEW flag \in BOOLEAN, Settled(c, point)
    PROVE  /\ [c EXCEPT !.in_ready_queue = flag] \in ClientConnection
           /\ [c EXCEPT !.in_ready_queue = flag].in_ready_queue = flag
           /\ [c EXCEPT !.in_ready_queue = flag].connection_id = c.connection_id
           /\ Settled([c EXCEPT !.in_ready_queue = flag], point)
PROOF
<1> DEFINE d == [c EXCEPT !.in_ready_queue = flag]
<1>1. d \in ClientConnection
    BY DEF ClientConnection
<1>2. /\ d.in_ready_queue = flag /\ d.connection_id = c.connection_id
      /\ d.output_buffer = c.output_buffer /\ d.armed = c.armed
      /\ d.waiting_for_request_body = c.waiting_for_request_body
      /\ d.input_buffer = c.input_buffer /\ d.pollout = c.pollout
      /\ d.pending_body_bytes_remaining = c.pending_body_bytes_remaining
    BY DEF ClientConnection
<1> QED BY <1>1, <1>2 DEF Settled

(* ProcessReadyQueue takes the next connection of its round. *)
LEMMA PopReadyPreserves ==
    ASSUME Inv, PopReady
    PROVE  Inv'
PROOF
<1> DEFINE fd == Head(ready_queue)
           c == clients[fd]
           d == [c EXCEPT !.in_ready_queue = FALSE]
<1>1. /\ pc = "ready" /\ left \in Nat /\ left > 0 /\ left <= Len(ready_queue)
      /\ ready_queue \in Seq(Fd) /\ IsInjective(ready_queue)
      /\ Range(ready_queue) = {f \in DOMAIN clients : clients[f].in_ready_queue}
      /\ pc \notin HandlerPoints /\ batch = {}
    BY DEF PopReady, Inv, TypeOK, ReadyQueueConsistent, ReadyRoundIntact, HandlerPoints, BatchInv
<1>2. /\ fd \in Fd /\ fd \in Range(ready_queue)
      /\ Tail(ready_queue) \in Seq(Fd) /\ IsInjective(Tail(ready_queue))
      /\ Range(Tail(ready_queue)) = Range(ready_queue) \ {fd}
      /\ Len(Tail(ready_queue)) = Len(ready_queue) - 1
      /\ \A i \in 1..Len(Tail(ready_queue)) : Tail(ready_queue)[i] # fd
    <2>1. ready_queue # << >>
        BY <1>1
    <2> QED BY <1>1, <2>1, TailProperties
<1>3. fd \in DOMAIN clients /\ c \in ClientConnection /\ Settled(c, "wait")
    <2>1. fd \in DOMAIN clients
        BY <1>1, <1>2
    <2>2. PointOf(fd) = "wait"
        BY <1>1 DEF PointOf, Handling
    <2> QED BY <2>1, <2>2, OpenConnections DEF Inv, ConnectionsInv
<1>4. /\ d \in ClientConnection /\ d.in_ready_queue = FALSE
      /\ d.connection_id = c.connection_id
    BY <1>3, UnqueuedIsSettled
<1>5. /\ clients' = [clients EXCEPT ![fd] = d]
      /\ left' = left - 1 /\ ready_queue' = Tail(ready_queue)
      /\ cur' = NewFrame(fd, "ready", FALSE)
      /\ pc' = IF c.output_buffer > 0 THEN "flush" ELSE "continue"
      /\ UNCHANGED <<pending_close_queue, active_connection_count, global_inflight_bytes,
                     next_connection_id, batch>>
    BY <1>3 DEF PopReady
<1>6. cur' \in Frame /\ cur'.fd = fd /\ cur'.origin = "ready"
    BY <1>2, <1>5, NewFrameType
<1>7. Settled(d, pc')
    <2>1. Settled(c, pc')
        BY <1>3, <1>5 DEF Settled, ClientConnection
    <2> QED BY <1>3, <2>1, UnqueuedIsSettled
<1> HIDE DEF d
<1>8. /\ DOMAIN clients' = DOMAIN clients /\ clients'[fd] = d
      /\ \A f \in DOMAIN clients : f # fd => clients'[f] = clients[f]
    BY <1>3, <1>5
<1>9. pc' \in HandlerPoints /\ pc' # "limit" /\ pc' \in {"flush", "continue"}
    BY <1>5 DEF HandlerPoints
<1> HIDE DEF fd, c
<1>10. TypeOK'
    <2>1. clients' \in [DOMAIN clients -> ClientConnection] /\ DOMAIN clients \subseteq Fd
        BY <1>4, <1>8, <1>5, OpenConnections DEF Inv
    <2>2. left' \in Nat
        BY <1>1, <1>5
    <2> QED BY <1>2, <1>5, <1>6, <1>9, <2>1, <2>2 DEF Inv, TypeOK
<1>11. HandlerOpen'
    BY <1>3, <1>6, <1>8, <1>9 DEF HandlerOpen, Handling
<1>12. ReadyQueueConsistent'
    BY <1>1, <1>2, <1>4, <1>5, <1>8 DEF ReadyQueueConsistent
<1>13. ReadyRoundIntact'
    <2>1. left' <= Len(ready_queue') /\ left' \in Nat /\ Len(ready_queue') \in Nat
        BY <1>1, <1>2, <1>5
    <2>2. \A i \in 1..left' : i \in 1..Len(ready_queue')
        BY <2>1
    <2> QED BY <1>2, <1>5, <1>6, <2>1, <2>2 DEF ReadyRoundIntact
<1>14. RoundInv' /\ BatchInv' /\ BatchIsCurrent'
    BY <1>1, <1>5, <1>6, <1>9 DEF RoundInv, BatchInv, BatchIsCurrent, Handling
<1>15. IsFiniteSet(DOMAIN clients)' /\ ActiveCountExact'
    <2>1. active_connection_count <= kMaxConnections
        BY <1>1, BetweenHandlers DEF LoopPoints
    <2>2. kMaxConnections \in Nat
        BY Sizes
    <2> QED BY <1>5, <1>8, <1>9, <2>1, <2>2 DEF Inv, ActiveCountExact
<1>16. ConnectionsInv'
    <2> SUFFICES ASSUME NEW f \in DOMAIN clients
                 PROVE  Settled(clients'[f], PointOf(f)')
        BY <1>8 DEF ConnectionsInv, Settled
    <2>1. CASE f = fd
        BY <2>1, <1>6, <1>7, <1>8, <1>9 DEF PointOf, Handling
    <2>2. CASE f # fd
        BY <2>2, <1>1, <1>6, <1>8 DEF Inv, ConnectionsInv, PointOf, Handling
    <2> QED BY <2>1, <2>2
<1> QED BY <1>10, <1>11, <1>12, <1>13, <1>14, <1>15, <1>16 DEF Inv

(* HandlePollEvent takes an event of a client. *)
LEMMA HandleClientEventPreserves ==
    ASSUME Inv, HandleClientEvent
    PROVE  Inv'
PROOF
<1>1. /\ pc = "dispatch" /\ pc \in LoopPoints /\ ~Handling /\ cur = NoFrame
      /\ active_connection_count <= kMaxConnections
      /\ left = 0 /\ left \in Nat
      /\ UNCHANGED <<conns, next_connection_id, left>>
    BY BetweenHandlers DEF HandleClientEvent, LoopPoints
<1>2. PICK e \in batch :
          /\ e.fd # ListenFd
          /\ batch' = batch \ {e}
          /\ e.fd \in DOMAIN clients =>
                /\ cur' = NewFrame(e.fd, "dispatch", "IN" \in e.events)
                /\ pc' = IF clients[e.fd].output_buffer > 0 /\ "OUT" \in e.events
                         THEN "flush" ELSE "event_read"
    BY DEF HandleClientEvent
<1>3. e.fd \in DOMAIN clients
    BY <1>2 DEF Inv, BatchIsCurrent
<1>4. cur' \in Frame /\ cur'.fd = e.fd /\ cur'.origin = "dispatch"
    <2>1. e.fd \in Fd
        BY <1>3, OpenConnections DEF Inv
    <2> DEFINE readable == "IN" \in e.events
    <2>2. readable \in BOOLEAN
        OBVIOUS
    <2>3. cur' = NewFrame(e.fd, "dispatch", readable)
        BY <1>2, <1>3
    <2> HIDE DEF readable
    <2> QED BY <2>1, <2>2, <2>3, NewFrameType
<1>5. pc' \in {"flush", "event_read"} /\ pc' \in HandlerPoints /\ pc' # "limit"
    BY <1>2, <1>3 DEF HandlerPoints
<1>6. Settled(clients[e.fd], pc')
    <2>1. Settled(clients[e.fd], "wait")
        BY <1>1, <1>3 DEF Inv, ConnectionsInv, PointOf
    <2>2. clients[e.fd] \in ClientConnection
        BY <1>3, OpenConnections DEF Inv
    <2> QED BY <1>2, <1>3, <2>1, <2>2 DEF Settled, ClientConnection
<1>7. TypeOK'
    <2>1. batch' \in SUBSET Event
        BY <1>2 DEF Inv, TypeOK
    <2> QED BY <1>1, <1>4, <1>5, <2>1 DEF Inv, TypeOK, conns
<1>8. HandlerOpen'
    BY <1>1, <1>3, <1>4, <1>5 DEF HandlerOpen, Handling, conns
<1>9. ReadyQueueConsistent' /\ RoundInv'
    BY <1>1 DEF Inv, ReadyQueueConsistent, RoundInv, conns
<1>10. ReadyRoundIntact'
    BY <1>1 DEF Inv, ReadyRoundIntact, conns
<1>11. BatchInv' /\ BatchIsCurrent'
    <2>1. BatchInv'
        BY <1>2, <1>4, <1>5 DEF Inv, BatchInv, Handling
    <2>2. BatchIsCurrent'
        BY <1>1, <1>2 DEF Inv, BatchIsCurrent, conns
    <2> QED BY <2>1, <2>2
<1>12. IsFiniteSet(DOMAIN clients)' /\ ActiveCountExact'
    BY <1>1, <1>5, Sizes DEF Inv, ActiveCountExact, conns
<1>13. ConnectionsInv'
    <2> SUFFICES ASSUME NEW f \in DOMAIN clients
                 PROVE  Settled(clients[f], PointOf(f)')
        BY <1>1 DEF ConnectionsInv, Settled, conns
    <2>1. CASE f = e.fd
        BY <2>1, <1>4, <1>5, <1>6 DEF PointOf, Handling
    <2>2. CASE f # e.fd
        BY <2>2, <1>1, <1>4 DEF Inv, ConnectionsInv, PointOf
    <2> QED BY <2>1, <2>2
<1> QED BY <1>7, <1>8, <1>9, <1>10, <1>11, <1>12, <1>13 DEF Inv

(* RegisterAcceptedConnection adds a connection on an unused descriptor. *)
LEMMA RegisterPreserves ==
    ASSUME Inv, RegisterAcceptedConnection
    PROVE  Inv'
PROOF
<1>1. /\ pc = "accept" /\ pc \notin HandlerPoints /\ ~Handling
      /\ active_connection_count <= kMaxConnections
      /\ left = 0 /\ pc' = "limit" /\ pc' \notin HandlerPoints
      /\ next_connection_id' = next_connection_id + 1
      /\ active_connection_count' = active_connection_count + 1
      /\ UNCHANGED <<ready_queue, pending_close_queue, global_inflight_bytes, batch, left>>
    BY BetweenHandlers DEF RegisterAcceptedConnection, LoopPoints, HandlerPoints
<1>2. PICK fd \in Fd \ DOMAIN clients :
          /\ clients' = [f \in DOMAIN clients \cup {fd} |->
                            IF f = fd THEN ArmHeaderTimeout(NewConnection(next_connection_id))
                            ELSE clients[f]]
          /\ cur' = NewFrame(fd, "dispatch", FALSE)
    BY DEF RegisterAcceptedConnection
<1> DEFINE c == ArmHeaderTimeout(NewConnection(next_connection_id))
<1>3. c \in ClientConnection /\ c.in_ready_queue = FALSE /\ Settled(c, "wait")
    <2>1. next_connection_id \in Nat \ {0} /\ << >> \in Seq(Token)
        BY DEF Inv, TypeOK
    <2>2. NewConnection(next_connection_id) \in ClientConnection
        BY <2>1 DEF NewConnection, ClientConnection
    <2>3. c \in ClientConnection
        BY <2>2 DEF ArmHeaderTimeout, ClientConnection, TimerKind
    <2>4. /\ c.in_ready_queue = FALSE /\ c.output_buffer = 0 /\ c.pollout = FALSE
          /\ c.waiting_for_request_body = FALSE /\ c.armed = {"header"}
        BY DEF ArmHeaderTimeout, NewConnection
    <2> HIDE DEF c
    <2> QED BY <2>3, <2>4 DEF Settled
<1>4. /\ DOMAIN clients' = DOMAIN clients \cup {fd} /\ clients'[fd] = c
      /\ \A f \in DOMAIN clients : f # fd /\ clients'[f] = clients[f]
    BY <1>2
<1> HIDE DEF c
<1>5. cur' \in Frame /\ cur'.fd = fd /\ cur'.origin = "dispatch"
    BY <1>2, NewFrameType
<1>6. TypeOK'
    <2>1. clients' \in [DOMAIN clients \cup {fd} -> ClientConnection]
        BY <1>2, <1>3, <1>4, OpenConnections DEF Inv, c
    <2>2. DOMAIN clients \cup {fd} \in SUBSET Fd
        BY OpenConnections DEF Inv
    <2>3. next_connection_id' \in Nat \ {0} /\ active_connection_count' \in Nat
        BY <1>1 DEF Inv, TypeOK
    <2>4. \E open \in SUBSET Fd : clients' \in [open -> ClientConnection]
        BY <2>1, <2>2
    <2> QED BY <1>1, <1>5, <2>3, <2>4 DEF Inv, TypeOK
<1>7. HandlerOpen'
    BY <1>1, <1>4, <1>5 DEF HandlerOpen
<1>8. ReadyQueueConsistent'
    <2>1. fd \notin Range(ready_queue)
        BY DEF Inv, ReadyQueueConsistent
    <2> QED BY <1>1, <1>3, <1>4, <2>1 DEF Inv, ReadyQueueConsistent
<1>9. ReadyRoundIntact' /\ RoundInv'
    BY <1>1 DEF Inv, ReadyRoundIntact, RoundInv
<1>10. BatchInv' /\ BatchIsCurrent'
    <2>1. \A e \in batch : e.fd # fd
        BY FdAssumption DEF Inv, BatchIsCurrent
    <2>2. BatchInv'
        BY <1>1, <1>5, <2>1 DEF Inv, BatchInv, Handling
    <2>3. BatchIsCurrent'
        BY <1>1, <1>4 DEF Inv, BatchIsCurrent
    <2> QED BY <2>2, <2>3
<1>11. IsFiniteSet(DOMAIN clients)' /\ ActiveCountExact'
    <2>1. /\ IsFiniteSet(DOMAIN clients \cup {fd})
          /\ Cardinality(DOMAIN clients \cup {fd}) = Cardinality(DOMAIN clients) + 1
        BY FS_AddElement DEF Inv
    <2>2. active_connection_count \in Nat /\ kMaxConnections \in Nat
        BY Sizes DEF Inv, TypeOK
    <2> QED BY <1>1, <1>4, <2>1, <2>2 DEF Inv, ActiveCountExact
<1>12. ConnectionsInv'
    <2> SUFFICES ASSUME NEW f \in DOMAIN clients'
                 PROVE  Settled(clients'[f], PointOf(f)')
        BY DEF ConnectionsInv, Settled
    <2>1. PointOf(f)' = "wait" /\ PointOf(f) = "wait"
        BY <1>1 DEF PointOf, Handling
    <2> QED BY <1>3, <1>4, <2>1 DEF Inv, ConnectionsInv
<1> QED BY <1>6, <1>7, <1>8, <1>9, <1>10, <1>11, <1>12 DEF Inv

(* The steps of the loop that close a connection, or keep a new one. *)
LEMMA LoopCloses ==
    ASSUME Inv, ExpireTimer \/ HandleHangUp \/ EnforceConnectionLimit
    PROVE  Inv'
PROOF
<1>1. \A fd \in DOMAIN clients : clients[fd] \in ClientConnection
    BY OpenConnections DEF Inv
<1>2. CASE ExpireTimer
    <2>1. PICK fd \in DOMAIN clients : \E k \in clients[fd].armed :
                CloseClientConnection(fd, clients[fd], k)
        BY <1>2 DEF ExpireTimer
    <2>2. PICK kind \in clients[fd].armed : CloseClientConnection(fd, clients[fd], kind)
        BY <2>1
    <2>3. kind \in CloseReason
        BY <1>1 DEF ClientConnection, CloseReason
    <2>4. batch = {}
        BY <1>2 DEF ExpireTimer, Inv, BatchInv
    <2> QED BY <1>1, <1>2, <2>2, <2>3, <2>4, ClosePreserves DEF ExpireTimer, loop
<1>3. CASE HandleHangUp
    <2>1. PICK e \in batch :
              /\ e.fd \in DOMAIN clients
              /\ batch' = batch \ {e}
              /\ CloseClientConnection(e.fd, clients[e.fd], "peer")
        BY <1>3 DEF HandleHangUp
    <2>2. \A f \in batch' : f.fd # e.fd
        BY <2>1 DEF Inv, BatchInv
    <2>3. "peer" \in CloseReason /\ batch' \subseteq batch
        BY <2>1 DEF CloseReason
    <2> QED BY <1>1, <1>3, <2>1, <2>2, <2>3, ClosePreserves DEF HandleHangUp
<1>4. CASE EnforceConnectionLimit
    <2>1. /\ pc = "limit" /\ pc' = "accept" /\ cur' = NoFrame /\ UNCHANGED loop
          /\ pc \notin HandlerPoints /\ ~Handling
        BY <1>4 DEF EnforceConnectionLimit, HandlerPoints, Handling
    <2>2. cur.fd \in DOMAIN clients /\ me \in ClientConnection /\ me = clients[cur.fd]
        BY <2>1, HandledConnection DEF me
    <2>3. \A e \in batch : e.fd # cur.fd
        BY <2>1 DEF Inv, BatchInv
    <2>4. left = 0 /\ BatchInv /\ BatchIsCurrent
        BY <2>1 DEF Inv, RoundInv
    <2>5. CASE active_connection_count > kMaxConnections
        <3>1. CloseClientConnection(cur.fd, me, "limit")
            BY <1>4, <2>5 DEF EnforceConnectionLimit
        <3>2. "limit" \in CloseReason
            BY DEF CloseReason
        <3> QED BY <2>1, <2>2, <2>3, <3>1, <3>2, ClosePreserves DEF loop
    <2>6. CASE ~(active_connection_count > kMaxConnections)
        <3>1. UNCHANGED <<conns, loop>>
            BY <1>4, <2>6 DEF EnforceConnectionLimit
        <3>2. active_connection_count <= kMaxConnections
            BY <2>6, Sizes DEF Inv, TypeOK
        <3>3. BatchInv' /\ BatchIsCurrent'
            BY <2>1, <2>4, <3>1
            DEF BatchInv, BatchIsCurrent, conns, loop, Handling, HandlerPoints
        <3>4. /\ pending_close_queue \in SUBSET PendingCloseEntry
              /\ batch \in SUBSET Event /\ left <= Len(ready_queue)
            BY DEF Inv, TypeOK, ReadyRoundIntact
        <3> QED BY <2>1, <2>4, <3>1, <3>2, <3>3, <3>4, LoopMove DEF conns, loop, LoopPoints
    <2> QED BY <2>5, <2>6
<1> QED BY <1>2, <1>3, <1>4

-----------------------------------------------------------------------------
(* The steps of the handlers.                                              *)

(* What is settled at one point is settled at every later one. *)
LEMMA SettledElsewhere ==
    ASSUME NEW c, NEW point, NEW next, Settled(c, point),
           point # "flush", point # "consume", next # "flush"
    PROVE  Settled(c, next)
PROOF
BY DEF Settled

(* Settled but for the epoll registration. *)
Unmasked(c, point) ==
    /\ c.output_buffer > 0 => c.armed \subseteq {"body"}
    /\ c.waiting_for_request_body <=> "body" \in c.armed
    /\ c.waiting_for_request_body =>
          \/ point = "consume"
          \/ c.input_buffer = << >> /\ c.pending_body_bytes_remaining > 0

(* UpdateClientPollMask settles what is settled but for its registration. *)
LEMMA PollMaskSettles ==
    ASSUME NEW c \in ClientConnection, NEW point, point # "flush", Unmasked(c, point)
    PROVE  /\ UpdateClientPollMask(c) \in ClientConnection
           /\ UpdateClientPollMask(c).connection_id = c.connection_id
           /\ UpdateClientPollMask(c).in_ready_queue = c.in_ready_queue
           /\ Settled(UpdateClientPollMask(c), point)
PROOF
<1> DEFINE asks == c.output_buffer > 0
           d == UpdateClientPollMask(c)
<1>1. asks \in BOOLEAN
    OBVIOUS
<1>2. d = [c EXCEPT !.pollout = asks]
    BY DEF UpdateClientPollMask
<1> HIDE DEF asks, d
<1>3. d \in ClientConnection
    BY <1>1, <1>2 DEF ClientConnection
<1>4. /\ d.connection_id = c.connection_id /\ d.in_ready_queue = c.in_ready_queue
      /\ d.output_buffer = c.output_buffer /\ d.armed = c.armed
      /\ d.waiting_for_request_body = c.waiting_for_request_body
      /\ d.input_buffer = c.input_buffer
      /\ d.pending_body_bytes_remaining = c.pending_body_bytes_remaining
    BY <1>2 DEF ClientConnection
<1>5. d.pollout <=> asks
    BY <1>1, <1>2 DEF ClientConnection
<1> QED BY <1>3, <1>4, <1>5 DEF Settled, Unmasked, asks, d

(* ReleaseInflightBytes never goes below zero. *)
LEMMA ReleaseType ==
    ASSUME Inv, NEW n \in Nat
    PROVE  ReleaseInflightBytes(n) \in Nat
PROOF
BY DEF Inv, TypeOK, ReleaseInflightBytes

(* A handler closes its connection and returns. *)
LEMMA HandlerCloses ==
    ASSUME Inv, Handling, NEW c \in ClientConnection, c.connection_id = me.connection_id,
           \/ \E reason \in CloseReason : Close(c, reason)
           \/ Reject(c)
    PROVE  Inv'
PROOF
<1>1. PICK reason \in CloseReason : /\ CloseClientConnection(cur.fd, c, reason)
                                    /\ Return /\ UNCHANGED loop
    BY DEF Close, Reject, SendErrorResponseAndClose, CloseReason
<1>2. cur.fd \in DOMAIN clients /\ c.connection_id = clients[cur.fd].connection_id
    BY HandledConnection DEF me
<1>3. \A e \in batch : e.fd # cur.fd
    BY DEF Inv, BatchInv
<1> QED BY <1>1, <1>2, <1>3, ClosePreserves DEF loop

(* The steps that only choose what the handler does next. *)
HandlerMove ==
    \/ ContinueWithBody \/ ContinueWithHeaders \/ ContinueReturns \/ EventReturns
    \/ ReadWouldBlock \/ ProcessStops \/ TailReturns

(* Such a step is safe. *)
LEMMA HandlerMovePreserves ==
    ASSUME Inv, HandlerMove
    PROVE  Inv'
PROOF
<1>1. pc \in HandlerPoints \ {"flush", "consume"} /\ Handling
    BY DEF HandlerMove, ContinueWithBody, ContinueWithHeaders, ContinueReturns, EventReturns,
           ReadWouldBlock, ProcessStops, TailReturns, HandlerPoints, Handling
<1>2. cur \in Frame /\ Settled(me, Point(pc))
    BY <1>1, HandledConnection
<1>3. UNCHANGED <<conns, loop>>
    BY DEF HandlerMove, ContinueWithBody, ContinueWithHeaders, ContinueReturns, EventReturns,
           ReadWouldBlock, ProcessStops, TailReturns
<1>4. \/ /\ pc' \in HandlerPoints \ {"flush"}
         /\ \/ cur' = cur
            \/ cur' = [cur EXCEPT !.back = "continue_parse"]
            \/ cur' = [cur EXCEPT !.processed_requests = 0]
      \/ Return
    BY DEF HandlerMove, ContinueWithBody, ContinueWithHeaders, ContinueReturns, EventReturns,
           ReadWouldBlock, ProcessStops, TailReturns, AfterProcess, Goto, HandlerPoints
<1>5. HandlerMoves
    BY <1>2, <1>4 DEF HandlerMoves, Frame
<1>6. Point(pc) \notin {"flush", "consume"} /\ Point(pc') # "flush"
    BY <1>1, <1>4, HandledConnection DEF Point, Return, HandlerPoints
<1>7. Settled(me, Point(pc'))
    BY <1>2, <1>6, SettledElsewhere
<1> QED BY <1>1, <1>3, <1>5, <1>7, MovePreserves

(* FlushClientOutput. *)
LEMMA FlushPreserves ==
    ASSUME Inv, \/ FlushWrites \/ FlushPauses \/ FlushedRequeues \/ FlushedCloses
                \/ FlushedIdles
    PROVE  Inv'
PROOF
<1>1. pc = "flush" /\ Handling
    BY DEF FlushWrites, FlushPauses, FlushedRequeues, FlushedCloses, FlushedIdles,
           Handling, HandlerPoints
<1>2. /\ cur \in Frame /\ me \in ClientConnection /\ Settled(me, "flush")
      /\ global_inflight_bytes \in Nat
    BY <1>1, HandledConnection DEF Point, HandlerPoints, Inv, TypeOK
<1>3. /\ AfterFlush \in {"continue", "event_read"}
      /\ pc' = AfterFlush => Point(pc') = AfterFlush /\ pc' \in HandlerPoints
    BY DEF AfterFlush, Point, HandlerPoints
<1>4. Goto(AfterFlush) => HandlerMoves
    BY <1>2, <1>3 DEF Goto, HandlerMoves
<1>5. /\ UpdateClientPollMask(me) \in ClientConnection
      /\ UpdateClientPollMask(me).connection_id = me.connection_id
      /\ UpdateClientPollMask(me).in_ready_queue = me.in_ready_queue
      /\ Settled(UpdateClientPollMask(me), AfterFlush)
    <2>1. AfterFlush # "flush" /\ AfterFlush # "consume"
        BY <1>3
    <2>2. Unmasked(me, AfterFlush)
        BY <1>2 DEF Settled, Unmasked
    <2> QED BY <1>2, <2>1, <2>2, PollMaskSettles
<1>6. CASE FlushWrites
    <2>1. PICK n \in 1..me.output_buffer :
              /\ n <= cur.write_remaining
              /\ Keep([me EXCEPT !.output_buffer = @ - n, !.wire = @ + n])
              /\ cur' = [cur EXCEPT !.write_remaining = @ - n]
              /\ global_inflight_bytes' = ReleaseInflightBytes(n)
              /\ pc' = pc
        BY <1>6 DEF FlushWrites
    <2>2. n \in Nat /\ me.output_buffer \in Nat /\ me.wire \in Nat
          /\ me.output_buffer - n \in Nat /\ me.wire + n \in Nat
        BY <1>2 DEF ClientConnection
    <2>3. cur.write_remaining \in Nat /\ cur.write_remaining - n \in Nat
        BY <1>2, <2>1, <2>2 DEF Frame
    <2>4. HandlerMoves
        BY <1>1, <1>2, <2>1, <2>3 DEF HandlerMoves, Frame, HandlerPoints
    <2> DEFINE c == [me EXCEPT !.output_buffer = @ - n, !.wire = @ + n]
    <2>5. c \in ClientConnection
        BY <1>2, <2>2 DEF ClientConnection
    <2>6. /\ c.connection_id = me.connection_id /\ c.in_ready_queue = me.in_ready_queue
          /\ c.output_buffer = me.output_buffer - n
          /\ c.armed = me.armed /\ c.pollout = me.pollout
          /\ c.waiting_for_request_body = me.waiting_for_request_body
          /\ c.input_buffer = me.input_buffer
          /\ c.pending_body_bytes_remaining = me.pending_body_bytes_remaining
        BY <1>2 DEF ClientConnection
    <2>7. Keep(c)
        BY <2>1
    <2> HIDE DEF c
    <2>8. Settled(c, "flush") /\ Point(pc') = "flush"
        BY <1>1, <1>2, <2>1, <2>2, <2>6 DEF Settled, Point, HandlerPoints
    <2> QED BY <1>1, <2>1, <2>2, <2>4, <2>5, <2>6, <2>7, <2>8, ReleaseType, KeepPreserves
<1>7. CASE FlushPauses
    <2>1. /\ Keep(me) \/ Keep(UpdateClientPollMask(me))
          /\ me.output_buffer > 0 /\ Goto(AfterFlush) /\ global_inflight_bytes' \in Nat
        BY <1>2, <1>7 DEF FlushPauses
    <2>2. Settled(me, AfterFlush)
        BY <1>2, <1>3, <2>1 DEF Settled
    <2>3. pc' = AfterFlush
        BY <2>1 DEF Goto
    <2> QED BY <1>1, <1>2, <1>3, <1>4, <1>5, <2>1, <2>2, <2>3, KeepPreserves
<1>8. CASE FlushedRequeues
    <2>1. /\ Requeue(UpdateClientPollMask(me)) /\ Goto(AfterFlush) /\ pc' = AfterFlush
          /\ global_inflight_bytes' \in Nat
        BY <1>2, <1>8 DEF FlushedRequeues, Goto
    <2> QED BY <1>1, <1>3, <1>4, <1>5, <2>1, RequeuePreserves
<1>9. CASE FlushedCloses
    <2>1. Close(me, "done") /\ "done" \in CloseReason
        BY <1>9 DEF FlushedCloses, CloseReason
    <2> QED BY <1>1, <1>2, <2>1, HandlerCloses
<1>10. CASE FlushedIdles
    <2> DEFINE b == ArmIdleKeepAliveTimeout(me)
               c == UpdateClientPollMask(IF me.keep_alive_enabled THEN b ELSE me)
    <2>1. /\ Keep(c) /\ Goto(AfterFlush) /\ pc' = AfterFlush /\ me.output_buffer = 0
          /\ global_inflight_bytes' \in Nat
        BY <1>2, <1>10 DEF FlushedIdles, Goto
    <2>2. CASE me.keep_alive_enabled
        <3>1. b \in ClientConnection
            BY <1>2 DEF ArmIdleKeepAliveTimeout, ClientConnection, TimerKind
        <3>2. /\ b.connection_id = me.connection_id /\ b.in_ready_queue = me.in_ready_queue
              /\ b.output_buffer = me.output_buffer
              /\ b.armed = (me.armed \ {"header"}) \cup {"idle"}
              /\ b.waiting_for_request_body = me.waiting_for_request_body
              /\ b.input_buffer = me.input_buffer
              /\ b.pending_body_bytes_remaining = me.pending_body_bytes_remaining
            BY <1>2 DEF ArmIdleKeepAliveTimeout, ClientConnection
        <3>3. c = UpdateClientPollMask(b)
            BY <2>2
        <3> HIDE DEF b, c
        <3>4. Unmasked(b, AfterFlush) /\ AfterFlush # "flush"
            BY <1>2, <1>3, <2>1, <3>2 DEF Settled, Unmasked
        <3>5. /\ c \in ClientConnection /\ c.connection_id = me.connection_id
              /\ c.in_ready_queue = me.in_ready_queue /\ Settled(c, AfterFlush)
            BY <3>1, <3>2, <3>3, <3>4, PollMaskSettles
        <3> QED BY <1>1, <1>3, <1>4, <2>1, <3>5, KeepPreserves
    <2>3. CASE ~me.keep_alive_enabled
        <3>1. c = UpdateClientPollMask(me)
            BY <2>3
        <3> QED BY <1>1, <1>3, <1>4, <1>5, <2>1, <3>1, KeepPreserves
    <2> QED BY <2>2, <2>3
<1> QED BY <1>6, <1>7, <1>8, <1>9, <1>10

(* A change of a connection that Settled does not see. *)
LEMMA SameSettled ==
    ASSUME NEW c \in ClientConnection, NEW d, NEW point, Settled(c, point),
           d.output_buffer = c.output_buffer, d.armed = c.armed, d.pollout = c.pollout,
           d.waiting_for_request_body = c.waiting_for_request_body,
           d.input_buffer = c.input_buffer,
           d.pending_body_bytes_remaining = c.pending_body_bytes_remaining
    PROVE  Settled(d, point)
PROOF
BY DEF Settled

(* ReadFromClient, and the two places it is entered from. *)
LEMMA ReadPreserves ==
    ASSUME Inv, \/ ContinueWithRead \/ EventRead \/ ReadSome \/ ReadEnds
                \/ CheckHeaderLimit \/ ChunkDone
    PROVE  Inv'
PROOF
<1>1. pc \in {"continue_read", "event_read", "read", "check_header", "chunk"} /\ Handling
    BY DEF ContinueWithRead, EventRead, ReadSome, ReadEnds, CheckHeaderLimit, ChunkDone,
           Handling, HandlerPoints
<1>2. /\ cur \in Frame /\ me \in ClientConnection /\ Settled(me, pc)
      /\ global_inflight_bytes \in Nat
    BY <1>1, HandledConnection DEF Point, HandlerPoints, Inv, TypeOK
<1>3. ASSUME NEW next, next # "flush" PROVE Settled(me, next)
    BY <1>1, <1>2, <1>3, SettledElsewhere
<1>4. CASE ContinueWithRead
    <2> DEFINE c == [me EXCEPT !.ready_for_read = FALSE]
    <2>1. /\ pc' = "read" /\ cur' = [cur EXCEPT !.reading = TRUE] /\ Keep(c)
          /\ global_inflight_bytes' \in Nat
        BY <1>2, <1>4 DEF ContinueWithRead
    <2>2. HandlerMoves /\ Point(pc') = "read"
        BY <1>2, <2>1 DEF HandlerMoves, Frame, HandlerPoints, Point
    <2>3. c \in ClientConnection
        BY <1>2 DEF ClientConnection
    <2>4. /\ c.connection_id = me.connection_id /\ c.in_ready_queue = me.in_ready_queue
          /\ Settled(c, "read")
        BY <1>2, <1>3, SameSettled DEF ClientConnection
    <2> HIDE DEF c
    <2> QED BY <1>1, <2>1, <2>2, <2>3, <2>4, KeepPreserves
<1>5. CASE EventRead
    <2> DEFINE b == ArmHeaderTimeout(me)
    <2>1. /\ pc' = "read" /\ cur' = [cur EXCEPT !.reading = TRUE]
          /\ Keep(b) \/ Keep(me)
          /\ global_inflight_bytes' \in Nat /\ me.output_buffer = 0
        BY <1>2, <1>5 DEF EventRead
    <2>2. HandlerMoves /\ Point(pc') = "read"
        BY <1>2, <2>1 DEF HandlerMoves, Frame, HandlerPoints, Point
    <2>3. b \in ClientConnection
        BY <1>2 DEF ArmHeaderTimeout, ClientConnection, TimerKind
    <2>4. /\ b.connection_id = me.connection_id /\ b.in_ready_queue = me.in_ready_queue
          /\ b.output_buffer = me.output_buffer /\ b.pollout = me.pollout
          /\ b.armed = (me.armed \ {"idle"}) \cup {"header"}
          /\ b.waiting_for_request_body = me.waiting_for_request_body
          /\ b.input_buffer = me.input_buffer
          /\ b.pending_body_bytes_remaining = me.pending_body_bytes_remaining
        BY <1>2 DEF ArmHeaderTimeout, ClientConnection
    <2> HIDE DEF b
    <2>5. Settled(me, "read")
        BY <1>3
    <2>6. Settled(b, "read")
        BY <2>1, <2>4, <2>5 DEF Settled
    <2> QED BY <1>1, <1>2, <2>1, <2>2, <2>3, <2>4, <2>5, <2>6, KeepPreserves
<1>6. CASE ReadSome
    <2>0. PICK n \in 1..kReadChunkSize : \E data \in [1..n -> Token] :
              /\ n <= cur.read_remaining
              /\ IF OverBudget(n)
                 THEN Reject(me)
                 ELSE /\ Keep([me EXCEPT !.input_buffer = @ \o data])
                      /\ global_inflight_bytes' = global_inflight_bytes + n
                      /\ pc' = IF me.waiting_for_request_body THEN "consume" ELSE "check_header"
                      /\ cur' = [cur EXCEPT !.read_remaining = @ - n, !.back = "chunk"]
        BY <1>6 DEF ReadSome
    <2>1. PICK data \in [1..n -> Token] :
              /\ n <= cur.read_remaining
              /\ IF OverBudget(n)
                 THEN Reject(me)
                 ELSE /\ Keep([me EXCEPT !.input_buffer = @ \o data])
                      /\ global_inflight_bytes' = global_inflight_bytes + n
                      /\ pc' = IF me.waiting_for_request_body THEN "consume" ELSE "check_header"
                      /\ cur' = [cur EXCEPT !.read_remaining = @ - n, !.back = "chunk"]
        BY <2>0
    <2>2. CASE OverBudget(n)
        BY <1>1, <1>2, <2>1, <2>2, HandlerCloses
    <2>3. CASE ~OverBudget(n)
        <3> DEFINE c == [me EXCEPT !.input_buffer = @ \o data]
        <3>1. /\ Keep(c)
              /\ global_inflight_bytes' = global_inflight_bytes + n
              /\ pc' = IF me.waiting_for_request_body THEN "consume" ELSE "check_header"
              /\ cur' = [cur EXCEPT !.read_remaining = @ - n, !.back = "chunk"]
            BY <2>1, <2>3
        <3>2. /\ n \in Nat /\ cur.read_remaining \in Nat
              /\ cur.read_remaining - n \in Nat /\ global_inflight_bytes + n \in Nat
            BY <1>2, <2>1 DEF Frame
        <3>3. HandlerMoves
            BY <1>2, <3>1, <3>2 DEF HandlerMoves, Frame, HandlerPoints
        <3>4. me.input_buffer \o data \in Seq(Token)
            <4>1. data \in Seq(Token) /\ me.input_buffer \in Seq(Token)
                BY <1>2, <3>2, SeqDef DEF ClientConnection
            <4> QED BY <4>1, ConcatProperties
        <3>5. c \in ClientConnection
            BY <1>2, <3>4 DEF ClientConnection
        <3>6. /\ c.connection_id = me.connection_id /\ c.in_ready_queue = me.in_ready_queue
              /\ c.output_buffer = me.output_buffer /\ c.pollout = me.pollout
              /\ c.armed = me.armed
              /\ c.waiting_for_request_body = me.waiting_for_request_body
            BY <1>2 DEF ClientConnection
        <3> HIDE DEF c
        <3>7. /\ Point(pc') # "flush"
              /\ me.waiting_for_request_body => Point(pc') = "consume"
            BY <3>1 DEF Point, HandlerPoints
        <3>8. Settled(c, Point(pc'))
            BY <1>1, <1>2, <3>6, <3>7 DEF Settled
        <3> QED BY <1>1, <3>1, <3>2, <3>3, <3>5, <3>6, <3>8, KeepPreserves
    <2> QED BY <2>2, <2>3
<1>7. CASE ReadEnds
    <2>1. Close(me, "peer") /\ "peer" \in CloseReason
        BY <1>7 DEF ReadEnds, CloseReason
    <2> QED BY <1>1, <1>2, <2>1, HandlerCloses
<1>8. CASE CheckHeaderLimit
    <2>1. CASE Reject(me)
        BY <1>1, <1>2, <2>1, HandlerCloses
    <2>2. CASE /\ pc' = "process" /\ cur' = [cur EXCEPT !.processed_requests = 0]
               /\ UNCHANGED <<conns, loop>>
        <3>1. HandlerMoves /\ Point(pc') = "process"
            BY <1>2, <2>2 DEF HandlerMoves, Frame, HandlerPoints, Point
        <3> QED BY <1>1, <1>3, <2>2, <3>1, MovePreserves
    <2> QED BY <1>8, <2>1, <2>2 DEF CheckHeaderLimit
<1>9. CASE ChunkDone
    <2> DEFINE c == [me EXCEPT !.ready_for_read = TRUE]
    <2>1. /\ \/ Requeue(c) /\ Return
             \/ Keep(me) /\ Goto("read")
          /\ global_inflight_bytes' \in Nat
        BY <1>2, <1>9 DEF ChunkDone
    <2>2. HandlerMoves /\ Point(pc') # "flush"
        <3>1. pc' \notin {"flush"}
            BY <1>1, <2>1, HandledConnection DEF Return, Goto
        <3>2. HandlerMoves
            BY <1>2, <2>1 DEF HandlerMoves, HandlerPoints, Goto
        <3> QED BY <3>1, <3>2 DEF Point
    <2>3. c \in ClientConnection
        BY <1>2 DEF ClientConnection
    <2>4. /\ c.connection_id = me.connection_id /\ c.in_ready_queue = me.in_ready_queue
          /\ Settled(c, Point(pc')) /\ Settled(me, Point(pc'))
        <3>1. Settled(me, Point(pc'))
            BY <1>3, <2>2
        <3> QED BY <1>2, <3>1, SameSettled DEF ClientConnection
    <2> HIDE DEF c
    <2> QED BY <1>1, <1>2, <2>1, <2>2, <2>3, <2>4, KeepPreserves, RequeuePreserves
<1> QED BY <1>4, <1>5, <1>6, <1>7, <1>8, <1>9

(* What is left of the input buffer is an input buffer. *)
LEMMA ConsumePrefixType ==
    ASSUME NEW in \in Seq(Token), NEW i \in 0..Len(in)
    PROVE  ConsumePrefix(in, i) \in Seq(Token)
PROOF
<1>1. i + 1 \in 1..Len(in) + 1 /\ Len(in) \in (i + 1) - 1..Len(in)
    OBVIOUS
<1> QED BY <1>1, SubSeqProperties DEF ConsumePrefix

(* ProcessBufferedHeaders. *)
LEMMA ProcessPreserves ==
    ASSUME Inv, ProcessHeader \/ TailRequeues \/ TailCloses \/ TailArms
    PROVE  Inv'
PROOF
<1>1. pc \in {"process", "tail"} /\ Handling
    BY DEF ProcessHeader, TailRequeues, TailCloses, TailArms, Handling, HandlerPoints
<1>2. /\ cur \in Frame /\ me \in ClientConnection /\ Settled(me, pc)
      /\ global_inflight_bytes \in Nat
    BY <1>1, HandledConnection DEF Point, HandlerPoints, Inv, TypeOK
<1>3. ASSUME NEW next, next # "flush" PROVE Settled(me, next)
    BY <1>1, <1>2, <1>3, SettledElsewhere
<1>4. CASE ProcessHeader
    <2> DEFINE popped(i) == [me EXCEPT !.input_buffer = ConsumePrefix(@, i)]
               next == [cur EXCEPT !.processed_requests = @ + 1, !.popped = @ + 1]
    <2>1. PICK i \in HeaderEnds(me.input_buffer) :
              LET request == me.input_buffer[i] IN
              \/ Reject(me)
              \/ /\ global_inflight_bytes' = ReleaseInflightBytes(i)
                 /\ Parse[request].content_length > 0
                 /\ Keep(BeginRequestBodyReceive(popped(i), request))
                 /\ pc' = "consume" /\ cur' = [next EXCEPT !.back = "tail"]
              \/ /\ global_inflight_bytes' = ReleaseInflightBytes(i)
                 /\ Keep(popped(i))
                 /\ pc' = "respond"
                 /\ cur' = [next EXCEPT !.request = request, !.back = "process"]
        BY <1>4 DEF ProcessHeader
    <2> DEFINE request == me.input_buffer[i]
               c == popped(i)
               b == BeginRequestBodyReceive(c, request)
    <2>2. i \in 1..Len(me.input_buffer) /\ request \in Requests
        BY DEF HeaderEnds
    <2>3. ConsumePrefix(me.input_buffer, i) \in Seq(Token)
        BY <1>2, <2>2, ConsumePrefixType DEF ClientConnection
    <2>4. c \in ClientConnection
        BY <1>2, <2>3 DEF ClientConnection
    <2>5. /\ c.connection_id = me.connection_id /\ c.in_ready_queue = me.in_ready_queue
          /\ c.output_buffer = me.output_buffer /\ c.armed = me.armed
          /\ c.pollout = me.pollout
          /\ c.waiting_for_request_body = me.waiting_for_request_body
          /\ c.pending_body_bytes_remaining = me.pending_body_bytes_remaining
        BY <1>2 DEF ClientConnection
    <2>6. next \in Frame /\ next.fd = cur.fd /\ next.origin = cur.origin
        <3>1. cur.processed_requests + 1 \in Nat /\ cur.popped + 1 \in Nat
            BY <1>2 DEF Frame
        <3>2. next = [cur EXCEPT !.processed_requests = cur.processed_requests + 1,
                                 !.popped = cur.popped + 1]
            OBVIOUS
        <3> HIDE DEF next
        <3> QED BY <1>2, <3>1, <3>2 DEF Frame
    <2>7. ReleaseInflightBytes(i) \in Nat
        BY <2>2, ReleaseType
    <2>8. CASE Reject(me)
        BY <1>1, <1>2, <2>8, HandlerCloses
    <2>9. CASE /\ global_inflight_bytes' = ReleaseInflightBytes(i)
               /\ Parse[request].content_length > 0
               /\ Keep(b)
               /\ pc' = "consume" /\ cur' = [next EXCEPT !.back = "tail"]
        <3> HIDE DEF next, c
        <3>1. HandlerMoves /\ Point(pc') = "consume"
            BY <2>6, <2>9 DEF HandlerMoves, Frame, HandlerPoints, Point
        <3>2. Parse[request].content_length \in Nat
            BY <2>2, RequestAssumption DEF HttpRequest
        <3>3. b \in ClientConnection
            BY <2>2, <2>4, <3>2 DEF BeginRequestBodyReceive, ArmBodyTimeout, ClientConnection,
                                    TimerKind
        <3>4. /\ b.connection_id = c.connection_id /\ b.in_ready_queue = c.in_ready_queue
              /\ b.output_buffer = c.output_buffer /\ b.armed = {"body"}
              /\ b.pollout = c.pollout /\ b.waiting_for_request_body = TRUE
            BY <2>4 DEF BeginRequestBodyReceive, ArmBodyTimeout, ClientConnection
        <3> HIDE DEF b
        <3>5. Settled(me, "consume")
            BY <1>3
        <3>6. Settled(b, "consume")
            BY <2>5, <3>4, <3>5 DEF Settled
        <3> QED BY <1>1, <2>5, <2>7, <2>9, <3>1, <3>3, <3>4, <3>6, KeepPreserves
    <2>10. CASE /\ global_inflight_bytes' = ReleaseInflightBytes(i)
                /\ Keep(c)
                /\ pc' = "respond"
                /\ cur' = [next EXCEPT !.request = request, !.back = "process"]
        <3> HIDE DEF next, c
        <3>1. HandlerMoves /\ Point(pc') = "respond"
            BY <2>2, <2>6, <2>10 DEF HandlerMoves, Frame, HandlerPoints, Point
        <3>2. ~me.waiting_for_request_body
            <4>1. me.input_buffer # << >>
                BY <2>2
            <4> QED BY <1>1, <1>2, <4>1 DEF Settled
        <3>3. Settled(me, "respond")
            BY <1>3
        <3>4. Settled(c, "respond")
            BY <2>5, <3>2, <3>3 DEF Settled
        <3> QED BY <1>1, <2>4, <2>5, <2>7, <2>10, <3>1, <3>4, KeepPreserves
    <2> QED BY <2>1, <2>8, <2>9, <2>10
<1>5. CASE TailRequeues
    <2>1. Requeue(me) /\ Return /\ global_inflight_bytes' \in Nat
        BY <1>2, <1>5 DEF TailRequeues
    <2>2. HandlerMoves /\ Point(pc') # "flush"
        BY <1>1, <2>1, HandledConnection DEF HandlerMoves, Return, Point, HandlerPoints
    <2>3. Settled(me, Point(pc'))
        BY <1>3, <2>2
    <2> QED BY <1>1, <1>2, <2>1, <2>2, <2>3, RequeuePreserves
<1>6. CASE TailCloses
    <2>1. Close(me, "done") /\ "done" \in CloseReason
        BY <1>6 DEF TailCloses, CloseReason
    <2> QED BY <1>1, <1>2, <2>1, HandlerCloses
<1>7. CASE TailArms
    <2>1. PICK b \in {ArmIdleKeepAliveTimeout(me), ArmHeaderTimeout(me)} :
              /\ Keep(UpdateClientPollMask(b)) /\ Goto(AfterProcess)
              /\ global_inflight_bytes' \in Nat
              /\ ~me.waiting_for_request_body /\ me.output_buffer = 0
        BY <1>2, <1>7 DEF TailArms
    <2>2. HandlerMoves /\ Point(pc') # "flush"
        BY <1>2, <2>1 DEF Goto, AfterProcess, HandlerMoves, HandlerPoints, Point
    <2>3. b \in ClientConnection
        BY <1>2 DEF ArmIdleKeepAliveTimeout, ArmHeaderTimeout, ClientConnection, TimerKind
    <2>4. /\ b.connection_id = me.connection_id /\ b.in_ready_queue = me.in_ready_queue
          /\ b.output_buffer = me.output_buffer
          /\ b.waiting_for_request_body = me.waiting_for_request_body
          /\ "body" \in b.armed <=> "body" \in me.armed
        BY <1>2 DEF ArmIdleKeepAliveTimeout, ArmHeaderTimeout, ClientConnection
    <2>5. Unmasked(b, Point(pc'))
        BY <1>2, <2>1, <2>4 DEF Unmasked, Settled
    <2>6. /\ UpdateClientPollMask(b) \in ClientConnection
          /\ UpdateClientPollMask(b).connection_id = me.connection_id
          /\ UpdateClientPollMask(b).in_ready_queue = me.in_ready_queue
          /\ Settled(UpdateClientPollMask(b), Point(pc'))
        BY <2>2, <2>3, <2>4, <2>5, PollMaskSettles
    <2> QED BY <1>1, <2>1, <2>2, <2>6, KeepPreserves
<1> QED BY <1>4, <1>5, <1>6, <1>7

(* ConsumePendingRequestBody. *)
LEMMA ConsumePreserves ==
    ASSUME Inv, ConsumePart \/ ConsumeRest
    PROVE  Inv'
PROOF
<1>1. pc = "consume" /\ Handling
    BY DEF ConsumePart, ConsumeRest, Handling, HandlerPoints
<1>2. /\ cur \in Frame /\ me \in ClientConnection /\ Settled(me, "consume")
      /\ global_inflight_bytes \in Nat
      /\ me.input_buffer \in Seq(Token) /\ me.pending_body_bytes_remaining \in Nat
    BY <1>1, HandledConnection DEF Point, HandlerPoints, Inv, TypeOK, ClientConnection
<1>3. CASE ConsumePart
    <2> DEFINE rest == me.pending_body_bytes_remaining - Len(me.input_buffer)
               c == [me EXCEPT !.input_buffer = << >>, !.pending_body_bytes_remaining = rest]
    <2>1. /\ Keep(c) /\ Goto(cur.back)
          /\ global_inflight_bytes' = ReleaseInflightBytes(Len(me.input_buffer))
          /\ rest \in Nat /\ rest > 0 /\ << >> \in Seq(Token)
        BY <1>2, <1>3 DEF ConsumePart
    <2> HIDE DEF rest
    <2>2. HandlerMoves /\ Point(pc') # "flush"
        BY <1>2, <2>1 DEF Goto, HandlerMoves, HandlerPoints, Point, Frame
    <2>3. c \in ClientConnection
        BY <1>2, <2>1 DEF ClientConnection
    <2>4. /\ c.connection_id = me.connection_id /\ c.in_ready_queue = me.in_ready_queue
          /\ c.output_buffer = me.output_buffer /\ c.armed = me.armed
          /\ c.pollout = me.pollout /\ c.input_buffer = << >>
          /\ c.waiting_for_request_body = me.waiting_for_request_body
          /\ c.pending_body_bytes_remaining = rest
        BY <1>2 DEF ClientConnection
    <2> HIDE DEF c
    <2>5. Settled(c, Point(pc'))
        BY <1>2, <2>1, <2>2, <2>4 DEF Settled
    <2>6. global_inflight_bytes' \in Nat
        BY <1>2, <2>1, ReleaseType
    <2> QED BY <1>1, <2>1, <2>2, <2>3, <2>4, <2>5, <2>6, KeepPreserves
<1>4. CASE ConsumeRest
    <2> DEFINE n == me.pending_body_bytes_remaining
               c == DisarmBodyTimeout([me EXCEPT !.input_buffer = ConsumePrefix(@, n),
                                                 !.pending_body_bytes_remaining = 0,
                                                 !.waiting_for_request_body = FALSE,
                                                 !.pending_request = NoRequest])
    <2>1. /\ Keep(c) /\ pc' = "respond" /\ cur' = [cur EXCEPT !.request = me.pending_request]
          /\ global_inflight_bytes' = ReleaseInflightBytes(n)
          /\ n \in 0..Len(me.input_buffer)
        BY <1>2, <1>4 DEF ConsumeRest
    <2>2. HandlerMoves /\ Point(pc') = "respond"
        <3>1. me.pending_request \in Requests \cup {NoRequest}
            BY <1>2 DEF ClientConnection
        <3> QED BY <1>2, <2>1, <3>1 DEF HandlerMoves, HandlerPoints, Point, Frame
    <2>3. ConsumePrefix(me.input_buffer, n) \in Seq(Token)
        BY <1>2, <2>1, ConsumePrefixType
    <2>4. c \in ClientConnection
        BY <1>2, <2>3 DEF DisarmBodyTimeout, ClientConnection
    <2>5. /\ c.connection_id = me.connection_id /\ c.in_ready_queue = me.in_ready_queue
          /\ c.output_buffer = me.output_buffer /\ c.pollout = me.pollout
          /\ c.armed = me.armed \ {"body"} /\ c.waiting_for_request_body = FALSE
        BY <1>2 DEF DisarmBodyTimeout, ClientConnection
    <2> HIDE DEF c
    <2>6. Settled(c, "respond")
        BY <1>2, <2>5 DEF Settled
    <2>7. global_inflight_bytes' \in Nat
        BY <1>2, <2>1, ReleaseType
    <2> QED BY <1>1, <2>1, <2>2, <2>4, <2>5, <2>6, <2>7, KeepPreserves
<1> QED BY <1>3, <1>4

(* StartOkResponse, and a write() that fails. *)
LEMMA RespondPreserves ==
    ASSUME Inv, \/ RespondLater \/ RespondNow \/ RespondOverBudget
                \/ WriteFails \/ BrokenPipe
    PROVE  Inv'
PROOF
<1>1. pc \in {"respond", "flush"} /\ Handling
    BY DEF RespondLater, RespondNow, RespondOverBudget, WriteFails, BrokenPipe, Writing,
           Handling, HandlerPoints
<1>2. /\ cur \in Frame /\ me \in ClientConnection /\ Settled(me, pc)
      /\ global_inflight_bytes \in Nat
      /\ me.output_buffer \in Nat /\ me.wire \in Nat /\ me.responses + 1 \in Nat
      /\ ResponseSize \in Nat
    <2>1. cur \in Frame /\ me \in ClientConnection /\ Settled(me, pc)
        BY <1>1, HandledConnection DEF Point, HandlerPoints
    <2>2. me.output_buffer \in Nat /\ me.wire \in Nat /\ me.responses \in Nat
        BY <2>1 DEF ClientConnection
    <2>3. global_inflight_bytes \in Nat /\ ResponseSize \in Nat
        BY Sizes DEF Inv, TypeOK
    <2> QED BY <2>1, <2>2, <2>3
<1> DEFINE a == Answered
<1>3. a \in ClientConnection
    <2>1. KeepAlive \in BOOLEAN
        BY DEF KeepAlive
    <2>2. me.close_after_write \in BOOLEAN
        BY <1>2 DEF ClientConnection
    <2> DEFINE last == me.close_after_write \/ ~KeepAlive
    <2>3. last \in BOOLEAN
        OBVIOUS
    <2>4. a = [me EXCEPT !.armed = me.armed \ {"header", "idle"},
                         !.keep_alive_enabled = KeepAlive,
                         !.close_after_write = last,
                         !.responses = me.responses + 1]
        BY DEF Answered
    <2> HIDE DEF last, a
    <2> QED BY <1>2, <2>1, <2>3, <2>4 DEF ClientConnection
<1>4. /\ a.connection_id = me.connection_id /\ a.in_ready_queue = me.in_ready_queue
      /\ a.output_buffer = me.output_buffer /\ a.armed = me.armed \ {"header", "idle"}
      /\ a.pollout = me.pollout /\ a.wire = me.wire
      /\ a.waiting_for_request_body = me.waiting_for_request_body
      /\ a.input_buffer = me.input_buffer
      /\ a.pending_body_bytes_remaining = me.pending_body_bytes_remaining
    BY <1>2 DEF Answered, ClientConnection
<1> HIDE DEF a
(* Whatever is added to the output buffer of the answered connection and   *)
(* counted on its wire, UpdateClientPollMask settles it.                   *)
<1>5. ASSUME NEW output \in Nat, NEW wire \in Nat, NEW point,
             point \notin {"flush"}, pc = "respond"
      PROVE  LET c == [a EXCEPT !.wire = wire]
                 d == [a EXCEPT !.wire = wire, !.output_buffer = output]
             IN  /\ c \in ClientConnection
                 /\ c.connection_id = me.connection_id /\ c.in_ready_queue = me.in_ready_queue
                 /\ Settled(c, point)
                 /\ UpdateClientPollMask(d) \in ClientConnection
                 /\ UpdateClientPollMask(d).connection_id = me.connection_id
                 /\ UpdateClientPollMask(d).in_ready_queue = me.in_ready_queue
                 /\ Settled(UpdateClientPollMask(d), point)
    <2> DEFINE c == [a EXCEPT !.wire = wire]
               d == [a EXCEPT !.wire = wire, !.output_buffer = output]
    <2>1. c \in ClientConnection /\ d \in ClientConnection
        BY <1>3 DEF ClientConnection
    <2>2. /\ d.connection_id = a.connection_id /\ d.in_ready_queue = a.in_ready_queue
          /\ d.armed = a.armed /\ d.waiting_for_request_body = a.waiting_for_request_body
          /\ d.input_buffer = a.input_buffer
          /\ d.pending_body_bytes_remaining = a.pending_body_bytes_remaining
        BY <1>3 DEF ClientConnection
    <2>3. /\ c.connection_id = a.connection_id /\ c.in_ready_queue = a.in_ready_queue
          /\ c.armed = a.armed /\ c.waiting_for_request_body = a.waiting_for_request_body
          /\ c.output_buffer = a.output_buffer /\ c.pollout = a.pollout
          /\ c.input_buffer = a.input_buffer
          /\ c.pending_body_bytes_remaining = a.pending_body_bytes_remaining
        BY <1>3 DEF ClientConnection
    <2> HIDE DEF c, d
    <2>4. me.armed \in SUBSET {"header", "body", "idle"}
        BY <1>2 DEF ClientConnection, TimerKind
    <2>5. a.armed \subseteq {"body"} /\ ("body" \in a.armed <=> "body" \in me.armed)
        BY <1>4, <2>4
    <2>6. Unmasked(d, point)
        BY <1>2, <1>4, <1>5, <2>2, <2>5 DEF Settled, Unmasked
    <2>7. Settled(c, point)
        BY <1>2, <1>4, <1>5, <2>3, <2>5 DEF Settled
    <2> QED BY <1>4, <1>5, <2>1, <2>2, <2>3, <2>6, <2>7, PollMaskSettles DEF c, d
<1>6. CASE RespondLater
    <2>1. CASE Reject(a)
        BY <1>1, <1>3, <1>4, <2>1, HandlerCloses
    <2> DEFINE d == [a EXCEPT !.wire = me.wire, !.output_buffer = me.output_buffer + ResponseSize]
    <2>2. CASE /\ Keep(UpdateClientPollMask([a EXCEPT !.output_buffer = @ + ResponseSize]))
               /\ global_inflight_bytes' = global_inflight_bytes + ResponseSize
               /\ ResumeCaller
        <3>1. [a EXCEPT !.output_buffer = @ + ResponseSize] = d
            BY <1>3, <1>4 DEF ClientConnection
        <3>2. /\ HandlerMoves /\ Point(pc') \notin {"flush"}
            BY <1>2, <2>2 DEF ResumeCaller, HandlerMoves, HandlerPoints, Point, Frame
        <3>3. me.output_buffer + ResponseSize \in Nat /\ global_inflight_bytes' \in Nat
            BY <1>2, <2>2
        <3>4. pc = "respond"
            BY <1>6 DEF RespondLater
        <3>5. /\ UpdateClientPollMask(d) \in ClientConnection
              /\ UpdateClientPollMask(d).connection_id = me.connection_id
              /\ UpdateClientPollMask(d).in_ready_queue = me.in_ready_queue
              /\ Settled(UpdateClientPollMask(d), Point(pc'))
            BY <1>2, <1>5, <3>2, <3>3, <3>4
        <3>6. Keep(UpdateClientPollMask(d))
            BY <2>2, <3>1
        <3> HIDE DEF d
        <3> QED BY <1>1, <3>2, <3>3, <3>5, <3>6, KeepPreserves
    <2> QED BY <1>6, <2>1, <2>2 DEF RespondLater, a
<1>7. CASE RespondNow
    <2>1. PICK n \in 0..ResponseSize :
              LET sent == [a EXCEPT !.wire = @ + n]
                  rest == ResponseSize - n
              IN  /\ n <= cur.write_remaining
                  /\ \/ rest = 0 /\ Keep(sent) /\ UNCHANGED global_inflight_bytes
                     \/ /\ Keep(UpdateClientPollMask([sent EXCEPT !.output_buffer = rest]))
                        /\ global_inflight_bytes' = global_inflight_bytes + rest
                  /\ pc' = cur.back
                  /\ cur' = [cur EXCEPT !.write_remaining = @ - n, !.request = NoRequest]
        BY <1>7 DEF RespondNow, a
    <2> DEFINE rest == ResponseSize - n
               sent == [a EXCEPT !.wire = me.wire + n]
               d    == [a EXCEPT !.wire = me.wire + n, !.output_buffer = rest]
    <2>2. /\ n \in Nat /\ rest \in Nat /\ me.wire + n \in Nat
          /\ cur.write_remaining - n \in Nat /\ pc = "respond"
        <3>1. pc = "respond"
            BY <1>7 DEF RespondNow
        <3>2. n \in Nat /\ rest \in Nat /\ me.wire + n \in Nat
            BY <1>2
        <3>3. n <= cur.write_remaining
            BY <2>1
        <3>4. cur.write_remaining \in Nat
            BY <1>2 DEF Frame
        <3> QED BY <3>1, <3>2, <3>3, <3>4
    <2>3. HandlerMoves /\ Point(pc') \notin {"flush"}
        BY <1>2, <2>1, <2>2 DEF HandlerMoves, HandlerPoints, Point, Frame
    <2>4. /\ [a EXCEPT !.wire = @ + n] = sent
          /\ [sent EXCEPT !.output_buffer = rest] = d
        BY <1>3, <1>4 DEF ClientConnection
    <2>5. /\ Keep(sent) \/ Keep(UpdateClientPollMask(d))
          /\ global_inflight_bytes' \in Nat
        <3>1. CASE Keep([a EXCEPT !.wire = @ + n]) /\ UNCHANGED global_inflight_bytes
            BY <1>2, <2>4, <3>1
        <3>2. CASE /\ Keep(UpdateClientPollMask([[a EXCEPT !.wire = @ + n]
                                                  EXCEPT !.output_buffer = rest]))
                   /\ global_inflight_bytes' = global_inflight_bytes + rest
            <4>1. global_inflight_bytes + rest \in Nat
                BY <1>2, <2>2
            <4>2. [[a EXCEPT !.wire = @ + n] EXCEPT !.output_buffer = rest] = d
                BY <2>4
            <4> HIDE DEF d, rest
            <4> QED BY <3>2, <4>1, <4>2
        <3> QED BY <2>1, <3>1, <3>2
    <2>6. /\ sent \in ClientConnection
          /\ sent.connection_id = me.connection_id /\ sent.in_ready_queue = me.in_ready_queue
          /\ Settled(sent, Point(pc'))
          /\ UpdateClientPollMask(d) \in ClientConnection
          /\ UpdateClientPollMask(d).connection_id = me.connection_id
          /\ UpdateClientPollMask(d).in_ready_queue = me.in_ready_queue
          /\ Settled(UpdateClientPollMask(d), Point(pc'))
        BY <1>5, <2>2, <2>3
    <2> HIDE DEF sent, d
    <2> QED BY <1>1, <2>3, <2>5, <2>6, KeepPreserves
<1>8. CASE RespondOverBudget
    <2>1. PICK n \in 0..ResponseSize - 1 : Reject([a EXCEPT !.wire = @ + n])
        BY <1>8 DEF RespondOverBudget, a
    <2>2. me.wire + n \in Nat /\ pc = "respond"
        BY <1>2, <1>8 DEF RespondOverBudget
    <2>3. [a EXCEPT !.wire = @ + n] = [a EXCEPT !.wire = me.wire + n]
        BY <1>4
    <2> QED BY <1>1, <1>2, <1>5, <2>1, <2>2, <2>3, HandlerCloses
<1>9. CASE WriteFails
    <2>1. Close(a, "peer") \/ Close(me, "peer")
        BY <1>9 DEF WriteFails, a
    <2>2. "peer" \in CloseReason
        BY DEF CloseReason
    <2> QED BY <1>1, <1>2, <1>3, <1>4, <2>1, <2>2, HandlerCloses
<1>10. CASE BrokenPipe
    <2>1. /\ pc' = "exited" /\ cur' = NoFrame /\ UNCHANGED <<conns, loop>>
          /\ pc' \in LoopPoints
        BY <1>10 DEF BrokenPipe, Exit, LoopPoints
    <2>2. /\ pending_close_queue \in SUBSET PendingCloseEntry /\ batch \in SUBSET Event
          /\ left \in Nat /\ left <= Len(ready_queue)
          /\ active_connection_count <= kMaxConnections
        <3>1. pc # "limit" /\ active_connection_count \in Nat /\ kMaxConnections \in Nat
            BY <1>1, Sizes DEF Inv, TypeOK
        <3> QED BY <3>1 DEF Inv, TypeOK, ReadyRoundIntact, ActiveCountExact
    <2>3. BatchIsCurrent' /\ BatchInv'
        BY <2>1 DEF Inv, BatchIsCurrent, BatchInv, conns, loop, Handling, HandlerPoints
    <2>4. Settled(me, "wait")
        BY <1>2, <1>1, <1>10 DEF Settled, BrokenPipe, Writing
    <2> QED BY <2>1, <2>2, <2>3, <2>4, LoopMove DEF conns, loop
<1> QED BY <1>6, <1>7, <1>8, <1>9, <1>10

-----------------------------------------------------------------------------
(* The invariant, and what follows from it.                                *)

(* The server starts with no connection. *)
LEMMA InitInv == Init => Inv
PROOF
<1> SUFFICES ASSUME Init PROVE Inv
    OBVIOUS
<1>1. /\ DOMAIN clients = {} /\ clients = << >> /\ batch = {} /\ left = 0
      /\ ready_queue = << >> /\ pc = "ready" /\ pc \in LoopPoints
      /\ pc \notin HandlerPoints /\ pc # "limit"
    BY DEF Init, LoopPoints, HandlerPoints
<1>2. TypeOK
    <2>1. clients \in [{} -> ClientConnection]
        BY <1>1
    <2>2. \E open \in SUBSET Fd : clients \in [open -> ClientConnection]
        BY <2>1
    <2> QED BY <1>1, <2>2 DEF Init, TypeOK
<1>3. HandlerOpen /\ RoundInv /\ BatchInv /\ BatchIsCurrent /\ ReadyRoundIntact
    BY <1>1 DEF HandlerOpen, RoundInv, BatchInv, BatchIsCurrent, ReadyRoundIntact, Handling
<1>4. ReadyQueueConsistent /\ ConnectionsInv
    BY <1>1 DEF ReadyQueueConsistent, ConnectionsInv, IsInjective, Range
<1>5. IsFiniteSet(DOMAIN clients) /\ ActiveCountExact
    BY <1>1, FS_EmptySet, Sizes DEF Init, ActiveCountExact
<1> QED BY <1>2, <1>3, <1>4, <1>5 DEF Inv

(* Every action keeps the invariant. *)
LEMMA NextInv == Inv /\ [Next]_vars => Inv'
PROOF
<1> SUFFICES ASSUME Inv, [Next]_vars PROVE Inv'
    OBVIOUS
<1>1. CASE PopReady
    BY <1>1, PopReadyPreserves
<1>2. CASE LoopStep
    BY <1>2, LoopStepPreserves
<1>3. CASE ExpireTimer \/ HandleHangUp \/ EnforceConnectionLimit
    BY <1>3, LoopCloses
<1>4. CASE HandleClientEvent
    BY <1>4, HandleClientEventPreserves
<1>5. CASE RegisterAcceptedConnection
    BY <1>5, RegisterPreserves
<1>6. CASE HandlerMove
    BY <1>6, HandlerMovePreserves
<1>7. CASE \/ FlushWrites \/ FlushPauses \/ FlushedRequeues \/ FlushedCloses \/ FlushedIdles
    BY <1>7, FlushPreserves
<1>8. CASE \/ ContinueWithRead \/ EventRead \/ ReadSome \/ ReadEnds \/ CheckHeaderLimit
           \/ ChunkDone
    BY <1>8, ReadPreserves
<1>9. CASE \/ ProcessHeader \/ TailRequeues \/ TailCloses \/ TailArms
    BY <1>9, ProcessPreserves
<1>10. CASE ConsumePart \/ ConsumeRest
    BY <1>10, ConsumePreserves
<1>11. CASE \/ RespondLater \/ RespondNow \/ RespondOverBudget \/ WriteFails \/ BrokenPipe
    BY <1>11, RespondPreserves
<1>12. CASE Exited \/ UNCHANGED vars
    <2>1. UNCHANGED <<clients, ready_queue, pending_close_queue, active_connection_count,
                      global_inflight_bytes, next_connection_id, batch, left, pc, cur>>
        BY <1>12 DEF Exited, vars, conns, loop
    <2> QED BY <2>1
        DEF Inv, TypeOK, HandlerOpen, Handling, ReadyQueueConsistent, ReadyRoundIntact,
            RoundInv, BatchIsCurrent, BatchInv, ActiveCountExact, ConnectionsInv, Settled,
            PointOf
<1> QED BY <1>1, <1>2, <1>3, <1>4, <1>5, <1>6, <1>7, <1>8, <1>9, <1>10, <1>11, <1>12
    DEF Next, LoopStep, HandlerMove

(* Inv holds for ever. *)
LEMMA Invariance == Spec => []Inv
PROOF
BY InitInv, NextInv, PTL DEF Spec

(* Every variable keeps its type: no step subtracts below zero, indexes a  *)
(* closed connection or queues a descriptor that is not one.               *)
THEOREM TypeCorrect == Spec => []TypeOK
PROOF
<1>1. Inv => TypeOK
    BY DEF Inv
<1> QED BY <1>1, Invariance, PTL

(* ready_queue_ and the in_ready_queue flags always agree, through every   *)
(* enqueue, pop and close.                                                 *)
THEOREM ReadyQueueSafe == Spec => []ReadyQueueConsistent
PROOF
<1>1. Inv => ReadyQueueConsistent
    BY DEF Inv
<1> QED BY <1>1, Invariance, PTL

(* ProcessReadyQueue never takes the front of an empty queue: no handler   *)
(* of a round closes a connection whose turn in that round is to come.     *)
THEOREM ReadyRoundSafe == Spec => []ReadyRoundIntact
PROOF
<1>1. Inv => ReadyRoundIntact
    BY DEF Inv
<1> QED BY <1>1, Invariance, PTL

(* An event of the batch is never handled for a connection other than the  *)
(* one it was reported for, however descriptors are closed and reused.     *)
THEOREM EventsAreCurrent == Spec => []BatchIsCurrent
PROOF
<1>1. Inv => BatchIsCurrent
    BY DEF Inv
<1> QED BY <1>1, Invariance, PTL

(* active_connection_count counts the open connections and never passes    *)
(* the cap but for the one being refused.                                  *)
THEOREM CountIsExact == Spec => []ActiveCountExact
PROOF
<1>1. Inv => ActiveCountExact
    BY DEF Inv
<1> QED BY <1>1, Invariance, PTL

(* Whenever the loop runs no handler, the connections that ask for         *)
(* EPOLLOUT are those with output left: no response waits for an event     *)
(* nobody asked for.                                                       *)
THEOREM OutputWillBePolled == Spec => []OutputIsPolled
PROOF
<1>1. Inv => OutputIsPolled
    BY DEF Inv, ConnectionsInv, Settled, PointOf, OutputIsPolled, Handling, LoopPoints,
           HandlerPoints
<1> QED BY <1>1, Invariance, PTL

(* The body timer is armed exactly while a body is being received, and     *)
(* between handlers such a connection has nothing unread.                  *)
THEOREM BodyTimerIsExact == Spec => []BodyTimerExact
PROOF
<1>1. Inv => BodyTimerExact
    BY DEF Inv, ConnectionsInv, Settled, PointOf, BodyTimerExact, Handling, LoopPoints,
           HandlerPoints
<1> QED BY <1>1, Invariance, PTL

(* No header or idle timer runs while a response is being sent.            *)
THEOREM SendingIsSafe == Spec => []SendingIsNotTimed
PROOF
<1>1. Inv => SendingIsNotTimed
    BY DEF Inv, ConnectionsInv, Settled, SendingIsNotTimed
<1> QED BY <1>1, Invariance, PTL

-----------------------------------------------------------------------------
(* Rounds end: what makes the rank of Server decrease.                     *)

(* No call of ProcessBufferedHeaders goes beyond the cap. *)
CapInv == Handling => cur.processed_requests <= kMaxRequestsPerRound

(* The first component in which two ranks differ decides. *)
LEMMA FirstDifference ==
    ASSUME NEW a1, NEW a2, NEW a3, NEW a4, NEW a5, NEW a6, NEW a7, NEW a8,
           NEW b1, NEW b2, NEW b3, NEW b4, NEW b5, NEW b6, NEW b7, NEW b8,
           \/ a1 < b1
           \/ a1 = b1 /\ a2 < b2
           \/ a1 = b1 /\ a2 = b2 /\ a3 < b3
           \/ a1 = b1 /\ a2 = b2 /\ a3 = b3 /\ a4 < b4
           \/ a1 = b1 /\ a2 = b2 /\ a3 = b3 /\ a4 = b4 /\ a5 < b5
           \/ a1 = b1 /\ a2 = b2 /\ a3 = b3 /\ a4 = b4 /\ a5 = b5 /\ a6 < b6
           \/ a1 = b1 /\ a2 = b2 /\ a3 = b3 /\ a4 = b4 /\ a5 = b5 /\ a6 = b6 /\ a7 < b7
           \/ a1 = b1 /\ a2 = b2 /\ a3 = b3 /\ a4 = b4 /\ a5 = b5 /\ a6 = b6 /\ a7 = b7
              /\ a8 < b8
    PROVE  Precedes(<<a1, a2, a3, a4, a5, a6, a7, a8>>, <<b1, b2, b3, b4, b5, b6, b7, b8>>)
PROOF
<1> DEFINE s == <<a1, a2, a3, a4, a5, a6, a7, a8>>
           t == <<b1, b2, b3, b4, b5, b6, b7, b8>>
<1>1. /\ s[1] = a1 /\ s[2] = a2 /\ s[3] = a3 /\ s[4] = a4
      /\ s[5] = a5 /\ s[6] = a6 /\ s[7] = a7 /\ s[8] = a8
    OBVIOUS
<1>2. /\ t[1] = b1 /\ t[2] = b2 /\ t[3] = b3 /\ t[4] = b4
      /\ t[5] = b5 /\ t[6] = b6 /\ t[7] = b7 /\ t[8] = b8
      /\ Len(t) = 8
    OBVIOUS
<1> HIDE DEF s, t
<1>3. \E i \in 1..8 : s[i] < t[i] /\ \A j \in 1..i - 1 : s[j] = t[j]
    BY <1>1, <1>2
<1>4. Precedes(s, t)
    BY <1>2, <1>3 DEF Precedes
<1> QED BY <1>4 DEF s, t

(* One event for each open connection, and one for the listening socket. *)
LEMMA BatchIsFinite ==
    ASSUME Inv
    PROVE  IsFiniteSet(batch)
PROOF
<1> DEFINE known == DOMAIN clients \cup {ListenFd}
           of    == [e \in batch |-> e.fd]
<1>1. IsFiniteSet(known)
    BY FS_AddElement DEF Inv
<1>2. of \in Injection(batch, known)
    BY DEF Inv, BatchIsCurrent, BatchInv, Injection, IsInjective
<1> QED BY <1>1, <1>2, FS_Injection

(* Every component of a rank is a natural number. *)
LEMMA RankIsNatural ==
    ASSUME Inv, CapInv
    PROVE  /\ Turns \in Nat
           /\ Rank \in Seq(Nat)
PROOF
<1>1. Turns \in Nat
    BY BatchIsFinite, FS_CardinalityType DEF Turns, Inv, TypeOK
<1>2. CASE Handling
    <2>1. /\ cur \in Frame /\ cur.origin \in {"ready", "dispatch"}
          /\ cur.back \in {"process", "tail", "chunk", "continue_parse"}
        BY <1>2, HandledConnection DEF Frame
    <2>2. Phase[cur.origin] \in Nat
        BY <2>1 DEF Phase
    <2>3. ReachedStage \in Nat
        BY <1>2, <2>1 DEF ReachedStage, Stages, Handling, HandlerPoints
    <2>4. cur.read_remaining \in Nat /\ cur.write_remaining \in Nat
        BY <2>1 DEF Frame
    <2>5. kMaxRequestsPerRound - cur.processed_requests \in Nat
        BY <1>2, <2>1, SizeAssumption DEF CapInv, Frame
    <2>6. Detour \in Nat
        BY DEF Detour
    <2> QED BY <1>1, <1>2, <2>2, <2>3, <2>4, <2>5, <2>6 DEF Rank, Handling
<1>3. CASE ~Handling
    <2>1. pc \in LoopPoints \cup {"limit"}
        BY <1>3 DEF Inv, TypeOK, Handling
    <2>2. Phase[pc] \in Nat
        BY <2>1 DEF Phase, LoopPoints
    <2>3. Accepting \in Nat
        BY DEF Accepting
    <2> QED BY <1>1, <1>3, <2>2, <2>3 DEF Rank, Handling
<1> QED BY <1>1, <1>2, <1>3

(* A handler that goes on. *)
LEMMA HandlerGoesOn ==
    ASSUME Inv, CapInv, Handling, pc' \in HandlerPoints, cur'.origin = cur.origin,
           UNCHANGED <<left, batch>>,
           \/ cur'.processed_requests \in {0, cur.processed_requests}
           \/ /\ cur.processed_requests < kMaxRequestsPerRound
              /\ cur'.processed_requests = cur.processed_requests + 1,
           \/ cur'.read_remaining < cur.read_remaining
           \/ /\ cur'.read_remaining = cur.read_remaining
              /\ \/ ReachedStage' < ReachedStage
                 \/ /\ ReachedStage' = ReachedStage
                    /\ \/ /\ cur'.processed_requests = cur.processed_requests + 1
                       \/ /\ cur'.processed_requests = cur.processed_requests
                          /\ \/ Detour' < Detour
                             \/ Detour' = Detour /\ cur'.write_remaining < cur.write_remaining
    PROVE  Precedes(Rank', Rank) /\ CapInv'
PROOF
<1>1. Phase[cur'.origin] = Phase[cur.origin]
    OBVIOUS
<1>2. Turns' = Turns
    BY DEF Turns, Handling, HandlerPoints
<1>3. kMaxRequestsPerRound \in Nat /\ cur.processed_requests \in Nat
    BY HandledConnection, SizeAssumption DEF Frame
<1>7. CapInv'
    BY <1>3 DEF CapInv
<1>4. Rank = <<Phase[cur.origin], Turns, 1, cur.read_remaining, ReachedStage,
               kMaxRequestsPerRound - cur.processed_requests, Detour, cur.write_remaining>>
    BY DEF Rank, Handling
<1>5. Rank' = <<Phase[cur'.origin], Turns', 1, cur'.read_remaining, ReachedStage',
                kMaxRequestsPerRound - cur'.processed_requests, Detour', cur'.write_remaining>>
    BY DEF Rank
<1>6. cur'.processed_requests = cur.processed_requests + 1 =>
        kMaxRequestsPerRound - cur'.processed_requests
            < kMaxRequestsPerRound - cur.processed_requests
    BY <1>3
<1>8. Precedes(Rank', Rank)
    BY <1>1, <1>2, <1>4, <1>5, <1>6, FirstDifference
<1> QED BY <1>7, <1>8

(* A handler that returns, or closes its connection and returns. *)
LEMMA HandlerComesBack ==
    ASSUME Inv, Handling, Return, UNCHANGED <<left, batch>>
    PROVE  Precedes(Rank', Rank) /\ CapInv'
PROOF
<1>1. cur.origin \in {"ready", "dispatch"} /\ pc' = cur.origin
    BY HandledConnection DEF Return
<1>2. pc' \notin HandlerPoints /\ Accepting' = 0
    BY <1>1 DEF HandlerPoints, Accepting
<1>3. Turns' = Turns
    BY <1>1 DEF Turns, Handling, HandlerPoints
<1>4. Rank = <<Phase[cur.origin], Turns, 1, cur.read_remaining, ReachedStage,
               kMaxRequestsPerRound - cur.processed_requests, Detour, cur.write_remaining>>
    BY DEF Rank, Handling
<1>5. Rank' = <<Phase[pc'], Turns', Accepting', 0, 0, 0, 0, 0>>
    BY <1>2 DEF Rank
<1>6. Accepting' < 1
    BY <1>2
<1> QED BY <1>1, <1>2, <1>3, <1>4, <1>5, <1>6, FirstDifference DEF CapInv, Handling

(* The loop goes on to a point that is nearer. *)
LEMMA LoopGoesOn ==
    ASSUME ~Handling, pc' \notin HandlerPoints,
           \/ Phase[pc'] < Phase[pc]
           \/ Phase[pc'] = Phase[pc] /\ Turns' < Turns
           \/ Phase[pc'] = Phase[pc] /\ Turns' = Turns /\ Accepting' < Accepting
    PROVE  Precedes(Rank', Rank) /\ CapInv'
PROOF
<1>1. /\ Rank = <<Phase[pc], Turns, Accepting, 0, 0, 0, 0, 0>>
      /\ Rank' = <<Phase[pc'], Turns', Accepting', 0, 0, 0, 0, 0>>
    BY DEF Rank, Handling
<1> QED BY <1>1, FirstDifference DEF CapInv, Handling

(* The loop calls a handler. *)
LEMMA HandlerStarts ==
    ASSUME ~Handling, pc' \in HandlerPoints, cur'.processed_requests = 0,
           Phase[cur'.origin] = Phase[pc], Turns' < Turns
    PROVE  Precedes(Rank', Rank) /\ CapInv'
PROOF
<1>1. Rank = <<Phase[pc], Turns, Accepting, 0, 0, 0, 0, 0>>
    BY DEF Rank, Handling
<1>2. Rank' = <<Phase[cur'.origin], Turns', 1, cur'.read_remaining, ReachedStage',
                kMaxRequestsPerRound - cur'.processed_requests, Detour', cur'.write_remaining>>
    BY DEF Rank
<1>3. CapInv'
    BY SizeAssumption DEF CapInv
<1> QED BY <1>1, <1>2, <1>3, FirstDifference
(* Outside the handlers: a turn, a timer, an event or a phase is used up.   *)
LEMMA LoopAdvances ==
    ASSUME Inv, CapInv,
           \/ PopReady \/ ReadyQueueDone \/ ExpireTimer \/ TimersDone \/ Wait
           \/ BatchDone \/ HandleListenEvent \/ HandleHangUp \/ HandleClientEvent
           \/ EnforceConnectionLimit \/ AcceptQueueEmpty \/ AcceptFails
    PROVE  Precedes(Rank', Rank) /\ CapInv'
PROOF
<1> USE DEF LoopPoints, HandlerPoints
<1>1. /\ IsFiniteSet(batch) /\ IsFiniteSet(DOMAIN clients)
      /\ left \in Nat /\ Cardinality(batch) \in Nat
    BY BatchIsFinite, FS_CardinalityType DEF Inv, TypeOK
<1>2. CASE PopReady
    <2>1. ~Handling /\ pc = "ready"
        BY <1>2 DEF PopReady, Handling
    <2>2. CASE Head(ready_queue) \in DOMAIN clients
        <3>1. /\ pc' \in HandlerPoints /\ left' = left - 1 /\ batch' = batch
              /\ cur' = NewFrame(Head(ready_queue), "ready", FALSE)
            BY <1>2, <2>2 DEF PopReady
        <3>2. cur'.processed_requests = 0 /\ cur'.origin = "ready"
            BY <3>1 DEF NewFrame
        <3>3. Turns' < Turns
            BY <1>1, <2>1, <3>1 DEF Turns
        <3> QED BY <2>1, <3>1, <3>2, <3>3, HandlerStarts
    <2>3. CASE Head(ready_queue) \notin DOMAIN clients
        <3>1. pc' = pc /\ left' = left - 1 /\ batch' = batch
            BY <1>2, <2>3 DEF PopReady
        <3>2. Turns' < Turns
            BY <1>1, <2>1, <3>1 DEF Turns
        <3> QED BY <2>1, <3>1, <3>2, LoopGoesOn
    <2> QED BY <2>2, <2>3
<1>3. CASE ReadyQueueDone \/ TimersDone \/ Wait \/ BatchDone \/ AcceptFails
    <2>1. /\ ~Handling /\ pc' \notin HandlerPoints
          /\ \/ pc = "ready" /\ pc' = "timers"
             \/ pc = "timers" /\ pc' = "wait"
             \/ pc = "timers_after" /\ pc' = "release"
             \/ pc = "wait" /\ pc' = "dispatch"
             \/ pc = "dispatch" /\ pc' = "timers_after"
             \/ pc = "accept" /\ pc' = "exited"
        BY <1>3 DEF ReadyQueueDone, TimersDone, Wait, BatchDone, AcceptFails, Goto, Exit, Handling
    <2>2. Phase[pc'] < Phase[pc]
        BY <2>1 DEF Phase
    <2> QED BY <2>1, <2>2, LoopGoesOn
<1>4. CASE ExpireTimer
    <2>1. PICK fd \in DOMAIN clients : DOMAIN clients' = DOMAIN clients \ {fd}
        BY <1>4 DEF ExpireTimer, CloseClientConnection, Restrict
    <2>2. pc \in {"timers", "timers_after"} /\ pc' = pc /\ ~Handling
        BY <1>4 DEF ExpireTimer, Handling
    <2>3. /\ Cardinality(DOMAIN clients') = Cardinality(DOMAIN clients) - 1
          /\ Cardinality(DOMAIN clients) \in Nat
        BY <1>1, <2>1, FS_RemoveElement, FS_CardinalityType
    <2>4. Turns' < Turns
        BY <2>2, <2>3 DEF Turns
    <2> QED BY <2>2, <2>4, LoopGoesOn
<1>5. CASE HandleListenEvent \/ HandleHangUp \/ HandleClientEvent
    <2>1. /\ pc = "dispatch" /\ ~Handling /\ left' = left
          /\ \E e \in batch : batch' = batch \ {e}
        BY <1>5 DEF HandleListenEvent, HandleHangUp, HandleClientEvent, Handling
    <2>2. Cardinality(batch') = Cardinality(batch) - 1
        BY <1>1, <2>1, FS_RemoveElement
    <2>3. pc' \notin {"timers", "timers_after"} => Turns' < Turns
        BY <1>1, <2>1, <2>2 DEF Turns
    <2>4. CASE pc' \notin HandlerPoints
        <3>1. pc' \in {"dispatch", "accept"}
            BY <1>5, <2>1, <2>4
                DEF HandleListenEvent, HandleHangUp, HandleClientEvent, Goto
        <3> QED BY <2>1, <2>3, <2>4, <3>1, LoopGoesOn DEF Phase
    <2>5. CASE pc' \in HandlerPoints
        <3>1. PICK e \in batch : cur' = NewFrame(e.fd, "dispatch", "IN" \in e.events)
            BY <1>5, <2>1, <2>5
                DEF HandleListenEvent, HandleHangUp, HandleClientEvent, Goto
        <3>2. cur'.processed_requests = 0 /\ cur'.origin = "dispatch"
            BY <3>1 DEF NewFrame
        <3> QED BY <2>1, <2>3, <2>5, <3>2, HandlerStarts
    <2> QED BY <2>4, <2>5
<1>6. CASE EnforceConnectionLimit \/ AcceptQueueEmpty
    <2>1. /\ ~Handling /\ pc' \notin HandlerPoints
          /\ \/ pc = "limit" /\ pc' = "accept"
             \/ pc = "accept" /\ pc' = "dispatch"
          /\ left' = left /\ batch' = batch
        BY <1>6 DEF EnforceConnectionLimit, AcceptQueueEmpty, Goto, loop, Handling
    <2>2. Turns' = Turns /\ Accepting' < Accepting /\ Phase[pc'] = Phase[pc]
        BY <2>1 DEF Turns, Accepting, Phase
    <2> QED BY <2>1, <2>2, LoopGoesOn
<1> QED BY <1>2, <1>3, <1>4, <1>5, <1>6

(* The steps after which a handler returns to the loop it was called from. *)
LEMMA ReturnAdvances ==
    ASSUME Inv, Handling,
           \/ ContinueReturns \/ EventReturns \/ FlushedCloses \/ ReadEnds \/ ReadWouldBlock
           \/ TailRequeues \/ TailCloses \/ RespondOverBudget \/ WriteFails
    PROVE  Precedes(Rank', Rank) /\ CapInv'
PROOF
<1>1. Return /\ UNCHANGED <<left, batch>>
    BY DEF ContinueReturns, EventReturns, FlushedCloses, ReadEnds, ReadWouldBlock,
           TailRequeues, TailCloses, RespondOverBudget, WriteFails,
           Close, Reject, Requeue, loop
<1> QED BY <1>1, HandlerComesBack

(* SIGPIPE ends the process. *)
LEMMA ExitAdvances ==
    ASSUME Inv, Handling, BrokenPipe
    PROVE  Precedes(Rank', Rank) /\ CapInv'
PROOF
<1>1. pc' = "exited" /\ pc' \notin HandlerPoints
    BY DEF BrokenPipe, Exit, HandlerPoints
<1>2. cur.origin \in {"ready", "dispatch"}
    BY HandledConnection
<1>3. Phase[pc'] < Phase[cur.origin]
    BY <1>1, <1>2 DEF Phase
<1>4. Rank = <<Phase[cur.origin], Turns, 1, cur.read_remaining, ReachedStage,
               kMaxRequestsPerRound - cur.processed_requests, Detour, cur.write_remaining>>
    BY DEF Rank, Handling
<1>5. Rank' = <<Phase[pc'], Turns', Accepting', 0, 0, 0, 0, 0>>
    BY <1>1 DEF Rank
<1> QED BY <1>1, <1>3, <1>4, <1>5, FirstDifference DEF CapInv, Handling

(* The steps that move a handler on, each to a later stage or with less of *)
(* a budget left.                                                          *)
LEMMA HandlerAdvances ==
    ASSUME Inv, CapInv, Handling,
           \/ ContinueWithBody \/ ContinueWithHeaders \/ ContinueWithRead \/ EventRead
           \/ FlushWrites \/ FlushPauses \/ FlushedRequeues \/ FlushedIdles
           \/ ReadSome \/ CheckHeaderLimit \/ ChunkDone \/ ProcessHeader \/ ProcessStops
           \/ TailArms \/ TailReturns \/ ConsumePart \/ ConsumeRest
           \/ RespondLater \/ RespondNow
    PROVE  Precedes(Rank', Rank) /\ CapInv'
PROOF
<1> USE DEF HandlerPoints
<1>1. /\ cur \in Frame /\ cur.origin \in {"ready", "dispatch"}
      /\ cur.back \in {"process", "tail", "chunk", "continue_parse"}
      /\ cur.read_remaining \in Nat /\ cur.write_remaining \in Nat
      /\ cur.processed_requests \in Nat
    BY HandledConnection DEF Frame
<1>2. /\ ReachedStage = Stages[IF pc \in {"consume", "respond"} THEN cur.back ELSE pc]
      /\ ReachedStage' = Stages[IF pc' \in {"consume", "respond"} THEN cur'.back ELSE pc']
    BY DEF ReachedStage
<1>3. CASE \/ ContinueWithBody \/ ContinueWithHeaders \/ ContinueWithRead \/ EventRead
           \/ FlushPauses \/ FlushedRequeues \/ FlushedIdles
    <2>1. /\ UNCHANGED <<left, batch>>
          /\ \/ pc = "continue" /\ pc' = "consume" /\ cur'.back = "continue_parse"
             \/ pc \in {"continue", "continue_parse"} /\ pc' \in {"process", "continue_read"}
             \/ pc \in {"continue_read", "event_read"} /\ pc' = "read"
             \/ pc = "flush" /\ pc' \in {"continue", "event_read"}
        BY <1>1, <1>3
            DEF ContinueWithBody, ContinueWithHeaders, ContinueWithRead, EventRead,
                FlushPauses, FlushedRequeues, FlushedIdles, AfterFlush, Goto, Keep, Requeue,
                loop, Frame
    <2>2. /\ cur'.origin = cur.origin /\ cur'.read_remaining = cur.read_remaining
          /\ cur'.processed_requests \in {0, cur.processed_requests}
        BY <1>1, <1>3
            DEF ContinueWithBody, ContinueWithHeaders, ContinueWithRead, EventRead,
                FlushPauses, FlushedRequeues, FlushedIdles, Goto, Frame
    <2>3. ReachedStage' < ReachedStage
        BY <1>2, <2>1 DEF Stages
    <2> QED BY <2>1, <2>2, <2>3, HandlerGoesOn
<1>4. CASE FlushWrites
    <2>1. PICK n \in 1..me.output_buffer :
            /\ n <= cur.write_remaining
            /\ cur' = [cur EXCEPT !.write_remaining = @ - n]
        BY <1>4 DEF FlushWrites
    <2>2. pc = "flush" /\ pc' = "flush" /\ UNCHANGED <<left, batch>>
        BY <1>4 DEF FlushWrites, Keep, loop
    <2>3. n \in Nat \ {0}
        BY <1>1, HandledConnection DEF ClientConnection
    <2>4. /\ cur'.origin = cur.origin /\ cur'.read_remaining = cur.read_remaining
          /\ cur'.processed_requests = cur.processed_requests
          /\ cur'.write_remaining < cur.write_remaining
        BY <1>1, <2>1, <2>3 DEF Frame
    <2>5. ReachedStage' = ReachedStage /\ Detour' = Detour
        BY <1>2, <2>2 DEF Detour
    <2> QED BY <2>2, <2>4, <2>5, HandlerGoesOn
<1>5. CASE ReadSome
    <2>1. PICK n \in 1..kReadChunkSize :
            \/ Reject(me)
            \/ /\ UNCHANGED <<left, batch>> /\ pc' \in {"consume", "check_header"}
               /\ cur' = [cur EXCEPT !.read_remaining = @ - n, !.back = "chunk"]
        BY <1>5 DEF ReadSome, Keep, loop
    <2>2. CASE Reject(me)
        BY <2>2, HandlerComesBack DEF Reject, loop
    <2>3. CASE /\ UNCHANGED <<left, batch>> /\ pc' \in {"consume", "check_header"}
               /\ cur' = [cur EXCEPT !.read_remaining = @ - n, !.back = "chunk"]
        <3>1. n \in Nat \ {0}
            BY SizeAssumption
        <3>2. /\ cur'.origin = cur.origin /\ cur'.processed_requests = cur.processed_requests
              /\ cur'.read_remaining < cur.read_remaining
            BY <1>1, <2>3, <3>1 DEF Frame
        <3> QED BY <2>3, <3>2, HandlerGoesOn
    <2> QED BY <2>1, <2>2, <2>3
<1>6. CASE CheckHeaderLimit \/ ChunkDone
    <2>1. CASE Return /\ UNCHANGED <<left, batch>>
        BY <2>1, HandlerComesBack
    <2>2. CASE ~(Return /\ UNCHANGED <<left, batch>>)
        <3>1. /\ UNCHANGED <<left, batch>>
              /\ \/ pc = "check_header" /\ pc' = "process"
                 \/ pc = "chunk" /\ pc' = "read"
              /\ cur' \in {cur, [cur EXCEPT !.processed_requests = 0]}
            BY <1>6, <2>2 DEF CheckHeaderLimit, ChunkDone, Reject, Requeue, Keep, Goto, loop
        <3>2. /\ cur'.origin = cur.origin /\ cur'.read_remaining = cur.read_remaining
              /\ cur'.processed_requests \in {0, cur.processed_requests}
            BY <1>1, <3>1 DEF Frame
        <3>3. ReachedStage' < ReachedStage
            BY <1>2, <3>1 DEF Stages
        <3> QED BY <3>1, <3>2, <3>3, HandlerGoesOn
    <2> QED BY <2>1, <2>2
<1>7. CASE ProcessHeader
    <2>1. CASE Return /\ UNCHANGED <<left, batch>>
        BY <2>1, HandlerComesBack
    <2>2. CASE ~(Return /\ UNCHANGED <<left, batch>>)
        <3>1. PICK request :
              LET next == [cur EXCEPT !.processed_requests = @ + 1, !.popped = @ + 1]
              IN  /\ UNCHANGED <<left, batch>>
                  /\ \/ pc' = "consume" /\ cur' = [next EXCEPT !.back = "tail"]
                     \/ /\ pc' = "respond"
                        /\ cur' = [next EXCEPT !.request = request, !.back = "process"]
            BY <1>7, <2>2 DEF ProcessHeader, Reject, Keep, loop
        <3>2. pc = "process" /\ cur.processed_requests < kMaxRequestsPerRound
            BY <1>7 DEF ProcessHeader
        <3>3. /\ cur'.origin = cur.origin /\ cur'.read_remaining = cur.read_remaining
              /\ cur'.processed_requests = cur.processed_requests + 1
              /\ \/ pc' = "consume" /\ cur'.back = "tail"
                 \/ pc' = "respond" /\ cur'.back = "process"
            BY <1>1, <3>1 DEF Frame
        <3>4. ReachedStage' < ReachedStage \/ ReachedStage' = ReachedStage
            BY <1>2, <3>2, <3>3 DEF Stages
        <3> QED BY <3>1, <3>2, <3>3, <3>4, HandlerGoesOn
    <2> QED BY <2>1, <2>2
<1>8. CASE ProcessStops \/ TailArms \/ TailReturns
    <2>1. /\ UNCHANGED <<left, batch>> /\ cur' = cur
          /\ \/ pc = "process" /\ pc' = "tail"
             \/ pc = "tail" /\ pc' \in {"chunk", "continue_read"}
        BY <1>8 DEF ProcessStops, TailArms, TailReturns, AfterProcess, Goto, Keep, loop
    <2>2. ReachedStage' < ReachedStage
        BY <1>2, <2>1 DEF Stages
    <2> QED BY <2>1, <2>2, HandlerGoesOn
<1>9. CASE ConsumePart \/ ConsumeRest
    <2>1. /\ UNCHANGED <<left, batch>> /\ pc = "consume"
          /\ \/ pc' = cur.back /\ cur' = cur
             \/ pc' = "respond" /\ cur' = [cur EXCEPT !.request = me.pending_request]
        BY <1>9 DEF ConsumePart, ConsumeRest, Goto, Keep, loop
    <2>2. /\ cur'.origin = cur.origin /\ cur'.read_remaining = cur.read_remaining
          /\ cur'.processed_requests = cur.processed_requests
          /\ cur'.back = cur.back
        BY <1>1, <2>1 DEF Frame
    <2>3. ReachedStage' = ReachedStage /\ Detour' < Detour
        BY <1>1, <1>2, <2>1, <2>2 DEF Detour
    <2> QED BY <1>1, <2>1, <2>2, <2>3, HandlerGoesOn
<1>10. CASE RespondLater \/ RespondNow
    <2>1. CASE Return /\ UNCHANGED <<left, batch>>
        BY <2>1, HandlerComesBack
    <2>2. CASE ~(Return /\ UNCHANGED <<left, batch>>)
        <3>1. /\ UNCHANGED <<left, batch>> /\ pc = "respond" /\ pc' = cur.back
              /\ \/ cur' = [cur EXCEPT !.request = NoRequest]
                 \/ \E n \in 0..ResponseSize :
                       cur' = [cur EXCEPT !.write_remaining = @ - n, !.request = NoRequest]
            <4>1. CASE RespondLater
                BY <4>1, <2>2 DEF RespondLater, ResumeCaller, Reject, Keep, loop
            <4>2. CASE RespondNow
                BY <4>2 DEF RespondNow, Keep, loop
            <4> QED BY <1>10, <4>1, <4>2
        <3>2. /\ cur'.origin = cur.origin /\ cur'.read_remaining = cur.read_remaining
              /\ cur'.processed_requests = cur.processed_requests
            BY <1>1, <3>1 DEF Frame
        <3>3. pc = "respond" /\ pc' = cur.back /\ pc' \notin {"consume", "respond"}
            BY <1>1, <3>1
        <3>4. ReachedStage' = ReachedStage
            BY <1>2, <3>3
        <3>5. Detour' < Detour
            BY <3>3 DEF Detour
        <3> QED BY <1>1, <3>1, <3>2, <3>4, <3>5, HandlerGoesOn
    <2> QED BY <2>1, <2>2
<1> QED BY <1>3, <1>4, <1>5, <1>6, <1>7, <1>8, <1>9, <1>10

(* The three steps that begin a round, or the search for the next          *)
(* connection to accept, keep what the rank needs.                         *)
LEMMA FreshStart ==
    ASSUME RegisterAcceptedConnection \/ FlushPendingCloseQueue \/ StopRequested
    PROVE  CapInv'
PROOF
<1>1. pc' \in {"limit", "ready", "exited"}
    BY DEF RegisterAcceptedConnection, FlushPendingCloseQueue, StopRequested, Goto, Exit
<1> QED BY <1>1 DEF CapInv, Handling, HandlerPoints

(* Every step keeps the cap, and, where RoundsEnd asks it, brings the end  *)
(* of the round nearer.                                                    *)
LEMMA NextAdvances ==
    Inv /\ CapInv /\ [Next]_vars =>
        /\ CapInv'
        /\ \/ pc = "release" \/ next_connection_id' # next_connection_id \/ UNCHANGED vars
           \/ Rank \in Seq(Nat) /\ Precedes(Rank', Rank)
PROOF
<1> SUFFICES ASSUME Inv, CapInv, [Next]_vars
             PROVE  /\ CapInv'
                    /\ \/ pc = "release" \/ next_connection_id' # next_connection_id
                       \/ UNCHANGED vars
                       \/ Rank \in Seq(Nat) /\ Precedes(Rank', Rank)
    OBVIOUS
<1>1. CASE \/ PopReady \/ ReadyQueueDone \/ ExpireTimer \/ TimersDone \/ Wait
           \/ BatchDone \/ HandleListenEvent \/ HandleHangUp \/ HandleClientEvent
           \/ EnforceConnectionLimit \/ AcceptQueueEmpty \/ AcceptFails
    BY <1>1, LoopAdvances, RankIsNatural
<1>2. CASE \/ ContinueReturns \/ EventReturns \/ FlushedCloses \/ ReadEnds \/ ReadWouldBlock
           \/ TailRequeues \/ TailCloses \/ RespondOverBudget \/ WriteFails
    <2>1. Handling
        BY <1>2 DEF ContinueReturns, EventReturns, FlushedCloses, ReadEnds, ReadWouldBlock,
                    TailRequeues, TailCloses, RespondOverBudget, WriteFails, Writing,
                    Handling, HandlerPoints
    <2> QED BY <1>2, <2>1, ReturnAdvances, RankIsNatural
<1>3. CASE \/ ContinueWithBody \/ ContinueWithHeaders \/ ContinueWithRead \/ EventRead
           \/ FlushWrites \/ FlushPauses \/ FlushedRequeues \/ FlushedIdles
           \/ ReadSome \/ CheckHeaderLimit \/ ChunkDone \/ ProcessHeader \/ ProcessStops
           \/ TailArms \/ TailReturns \/ ConsumePart \/ ConsumeRest
           \/ RespondLater \/ RespondNow
    <2>1. Handling
        BY <1>3 DEF ContinueWithBody, ContinueWithHeaders, ContinueWithRead, EventRead,
                    FlushWrites, FlushPauses, FlushedRequeues, FlushedIdles,
                    ReadSome, CheckHeaderLimit, ChunkDone, ProcessHeader, ProcessStops,
                    TailArms, TailReturns, ConsumePart, ConsumeRest, RespondLater,
                    RespondNow, Handling, HandlerPoints
    <2> QED BY <1>3, <2>1, HandlerAdvances, RankIsNatural
<1>4. CASE BrokenPipe
    <2>1. Handling
        BY <1>4 DEF BrokenPipe, Writing, Handling, HandlerPoints
    <2> QED BY <1>4, <2>1, ExitAdvances, RankIsNatural
<1>5. CASE RegisterAcceptedConnection \/ FlushPendingCloseQueue \/ StopRequested
    <2>1. pc = "release" \/ next_connection_id' # next_connection_id
        <3>1. CASE RegisterAcceptedConnection
            <4>1. next_connection_id \in Nat /\ next_connection_id' = next_connection_id + 1
                BY <3>1 DEF RegisterAcceptedConnection, Inv, TypeOK
            <4> QED BY <4>1
        <3> QED BY <1>5, <3>1 DEF FlushPendingCloseQueue, StopRequested
    <2> QED BY <1>5, <2>1, FreshStart
<1>6. CASE Exited \/ UNCHANGED vars
    <2>1. UNCHANGED vars
        BY <1>6 DEF Exited
    <2>2. CapInv'
        BY <2>1 DEF vars, CapInv, Handling
    <2> QED BY <2>1, <2>2
<1> QED BY <1>1, <1>2, <1>3, <1>4, <1>5, <1>6 DEF Next

(* Whatever the peers send and however the kernel cuts it up, every step of *)
(* a round but an acceptance lowers a rank in a well-founded order: no      *)
(* handler, and no queue that its handlers refill, keeps the thread from    *)
(* the end of the round.                                                    *)
THEOREM RoundsAlwaysEnd == Spec => RoundsEnd
PROOF
<1> DEFINE Nearer == pc # "release" /\ UNCHANGED next_connection_id =>
                        Rank \in Seq(Nat) /\ Precedes(Rank', Rank)
<1>1. Init => CapInv
    BY DEF Init, CapInv, Handling, HandlerPoints
<1>2. Inv /\ CapInv /\ [Next]_vars => CapInv' /\ [Nearer]_vars
    <2> SUFFICES ASSUME Inv, CapInv, [Next]_vars PROVE CapInv' /\ [Nearer]_vars
        OBVIOUS
    <2>1. CapInv' /\ (Nearer \/ UNCHANGED vars)
        BY NextAdvances
    <2> QED BY <2>1
<1>3. Spec => [][Nearer]_vars
    <2> HIDE DEF Nearer
    <2> QED BY <1>1, <1>2, Invariance, PTL DEF Spec
<1> QED BY <1>3 DEF RoundsEnd
=============================================================================
