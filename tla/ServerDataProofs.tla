-------------------------- MODULE ServerDataProofs --------------------------
(* Proofs about what the connections of Server hold: bytes of responses,   *)
(* headers and bodies, and what is still to be done with them.  They build *)
(* on the invariant Inv of ServerProofs.                                   *)
EXTENDS ServerProofs, FoldTheorems

-----------------------------------------------------------------------------
(* The inductive invariant.                                                *)

(* No request has a body: what comments on the ReadyQueue take for granted. *)
NoBodies == \A r \in Requests : Parse[r].content_length = 0

(* Whether the handler that runs has begun to read from the socket. *)
Reading == Handling /\ cur.reading

(* The bytes of the responses built for a connection are all accounted for. *)
Whole(c) == c.wire + c.output_buffer = ResponseSize * c.responses

(* Body bytes are where a header announced them, and nowhere else. *)
WellFramed(in, owed) ==
    \A i \in 1..Len(in) : (in[i] = BodyByte) <=> Owed(in, owed, i)

Framed(c) ==
    /\ WellFramed(c.input_buffer, c.pending_body_bytes_remaining)
    /\ ~c.waiting_for_request_body => c.pending_body_bytes_remaining = 0

(* Before its first response a connection is timed, and the handler that   *)
(* goes through its headers has something of the next one left.            *)
Timed(c, point) ==
    /\ c.keep_alive_enabled => c.responses > 0
    /\ c.responses = 0 => point = "respond" \/ c.armed \cap {"header", "body"} # {}
    /\ /\ point \in {"check_header", "process", "tail"}
       /\ c.responses = 0 /\ ~c.waiting_for_request_body
       => c.input_buffer # << >>
    /\ point \in {"check_header", "process", "respond"} => ~c.waiting_for_request_body

(* Without request bodies, a complete header and an interrupted read are   *)
(* queued, wait for output to be sent, or are about to be dealt with.      *)
Scheduled(c, point, reading) ==
    /\ ~c.waiting_for_request_body
    /\ HasCompleteHeader(c.input_buffer) =>
          \/ c.in_ready_queue \/ c.output_buffer > 0
          \/ point \in {"flush", "continue", "check_header", "process", "respond", "tail"}
    /\ c.ready_for_read =>
          \/ c.in_ready_queue \/ c.output_buffer > 0
          \/ point \in {"flush", "continue", "continue_read"}
          \/ point \in {"process", "respond", "tail"} /\ ~reading

Course(c, point, reading) ==
    /\ Timed(c, point)
    /\ NoBodies => Scheduled(c, point, reading)

(* A process that ends may leave a handler half done. *)
DataInv ==
    \A fd \in DOMAIN clients :
        /\ Whole(clients[fd]) /\ Framed(clients[fd])
        /\ pc # "exited" => Course(clients[fd], PointOf(fd), Reading)

(* The locals of the handler, at its points. *)
FrameInv ==
    /\ pc = "consume" => cur.back # "process"
    /\ pc \in {"consume", "respond"} /\ cur.back = "chunk" => cur.reading
    /\ pc \in {"read", "check_header", "chunk"} => cur.reading
    /\ pc \in {"flush", "continue"} => ~cur.reading
    /\ NoBodies => pc \notin {"consume", "continue_parse"}
    /\ NoBodies /\ pc = "respond" => cur.back = "process"

(* A connection closed as done, idle or slow had its responses sent. *)
CloseInv ==
    \A p \in pending_close_queue : p.reason \in {"done", "header", "idle"} => p.unsent = 0

DInv == Inv /\ DataInv /\ FrameInv /\ CloseInv

-----------------------------------------------------------------------------
(* How consuming a prefix of the input buffer moves what is owed.          *)

(* ConsumePrefix leaves the rest, in place. *)
LEMMA ConsumedPrefix ==
    ASSUME NEW in \in Seq(Token), NEW d \in 0..Len(in)
    PROVE  /\ ConsumePrefix(in, d) \in Seq(Token)
           /\ Len(ConsumePrefix(in, d)) = Len(in) - d
           /\ \A k \in 1..Len(in) - d : ConsumePrefix(in, d)[k] = in[d + k]
           /\ \A k \in 1..Len(in) - d :
                 k \in HeaderEnds(ConsumePrefix(in, d)) <=> d + k \in HeaderEnds(in)
PROOF
<1> DEFINE rest == ConsumePrefix(in, d)
<1>1. /\ rest \in Seq(Token) /\ Len(rest) = Len(in) - d
      /\ \A k \in 1..Len(in) - d : rest[k] = in[d + k]
    BY SubSeqProperties DEF ConsumePrefix
<1> HIDE DEF rest
<1>2. ASSUME NEW k \in 1..Len(in) - d
      PROVE  k \in HeaderEnds(rest) <=> d + k \in HeaderEnds(in)
    BY <1>1 DEF HeaderEnds
<1> QED BY <1>1, <1>2 DEF rest

(* Behind a header, what is owed depends on that header alone. *)
LEMMA OwedBehindHeader ==
    ASSUME NEW in \in Seq(Token), NEW d \in 0..Len(in),
           NEW k \in 1..Len(in) - d,
           NEW h \in HeaderEnds(ConsumePrefix(in, d)), h < k,
           NEW p \in Nat, NEW q \in Nat
    PROVE  Owed(in, p, d + k) <=> Owed(ConsumePrefix(in, d), q, k)
PROOF
<1> DEFINE rest == ConsumePrefix(in, d)
           early == {j \in HeaderEnds(in) : j < d + k}
           late  == {j \in HeaderEnds(rest) : j < k}
<1>1. /\ rest \in Seq(Token) /\ Len(rest) = Len(in) - d
      /\ \A j \in 1..Len(in) - d : rest[j] = in[d + j]
      /\ \A j \in 1..Len(in) - d : j \in HeaderEnds(rest) <=> d + j \in HeaderEnds(in)
    BY ConsumedPrefix
<1> HIDE DEF rest
<1>2. /\ HeaderEnds(in) \subseteq 1..Len(in)
      /\ HeaderEnds(rest) \subseteq 1..Len(in) - d
    BY <1>1 DEF HeaderEnds
<1>3. h \in late /\ d + h \in early
    BY <1>1, <1>2 DEF rest
<1>4. Owed(in, p, d + k) <=> \E j \in early : /\ \A i \in early : i <= j
                                              /\ (d + k) - j <= Parse[in[j]].content_length
    BY <1>3 DEF Owed
<1>5. Owed(rest, q, k) <=> \E j \in late : /\ \A i \in late : i <= j
                                           /\ k - j <= Parse[rest[j]].content_length
    BY <1>3 DEF Owed
<1>6. \A j \in late : d + j \in early /\ rest[j] = in[d + j]
    BY <1>1, <1>2
<1>7. \A j \in early : j > d => j - d \in late /\ rest[j - d] = in[j]
    <2>1. ASSUME NEW j \in early, j > d
          PROVE  j - d \in late /\ rest[j - d] = in[j]
        <3>1. j - d \in 1..Len(in) - d /\ d + (j - d) = j
            BY <2>1, <1>2
        <3> QED BY <3>1, <2>1, <1>1
    <2> QED BY <2>1
<1>8. early \subseteq Int /\ late \subseteq Int /\ \A j \in late : j > 0
    BY <1>2
<1> HIDE DEF early, late
<1>9. ASSUME NEW j \in early, \A i \in early : i <= j,
             (d + k) - j <= Parse[in[j]].content_length
      PROVE  \E m \in late : /\ \A i \in late : i <= m
                             /\ k - m <= Parse[rest[m]].content_length
    <2>1. d + h <= j /\ h > 0
        BY <1>3, <1>8, <1>9
    <2>2. j > d
        BY <2>1, <1>3, <1>8
    <2>3. j - d \in late /\ rest[j - d] = in[j]
        BY <2>2, <1>7
    <2>4. \A i \in late : i <= j - d
        <3> TAKE i \in late
        <3>1. d + i <= j /\ i \in Int /\ j \in Int /\ d \in Int
            BY <1>6, <1>8, <1>9
        <3> QED BY <3>1
    <2>5. k - (j - d) = (d + k) - j
        BY <1>8
    <2> QED BY <2>3, <2>4, <2>5, <1>9
<1>10. ASSUME NEW m \in late, \A i \in late : i <= m,
              k - m <= Parse[rest[m]].content_length
       PROVE  \E j \in early : /\ \A i \in early : i <= j
                               /\ (d + k) - j <= Parse[in[j]].content_length
    <2>1. d + m \in early /\ rest[m] = in[d + m]
        BY <1>6
    <2>2. \A i \in early : i <= d + m
        <3> TAKE i \in early
        <3>1. CASE i > d
            <4>1. i - d <= m
                BY <3>1, <1>7, <1>10
            <4> QED BY <4>1, <1>8
        <3>2. CASE ~(i > d)
            BY <3>2, <1>8
        <3> QED BY <3>1, <3>2
    <2>3. (d + k) - (d + m) = k - m
        BY <1>8
    <2> QED BY <2>1, <2>2, <2>3, <1>10
<1> QED BY <1>4, <1>5, <1>9, <1>10 DEF rest

(* ProcessBufferedHeaders takes a header: the bytes behind it are the body *)
(* it announces.                                                           *)
LEMMA PopKeepsFraming ==
    ASSUME NEW in \in Seq(Token), NEW h \in HeaderEnds(in), IsHeaderEnd(in, h),
           WellFramed(in, 0)
    PROVE  WellFramed(ConsumePrefix(in, h), Parse[in[h]].content_length)
PROOF
<1> DEFINE rest == ConsumePrefix(in, h)
           owed == Parse[in[h]].content_length
<1>1. h \in 0..Len(in) /\ h \in 1..Len(in) /\ in[h] \in Requests
    BY DEF HeaderEnds
<1>2. owed \in Nat
    BY <1>1, RequestAssumption DEF HttpRequest
<1>3. /\ rest \in Seq(Token) /\ Len(rest) = Len(in) - h
      /\ \A j \in 1..Len(in) - h : rest[j] = in[h + j]
      /\ \A j \in 1..Len(in) - h : j \in HeaderEnds(rest) <=> h + j \in HeaderEnds(in)
    BY <1>1, ConsumedPrefix
<1> SUFFICES ASSUME NEW k \in 1..Len(in) - h
             PROVE  Owed(in, 0, h + k) <=> Owed(rest, owed, k)
    <2>1. ASSUME NEW k \in 1..Len(in) - h, Owed(in, 0, h + k) <=> Owed(rest, owed, k)
          PROVE  (rest[k] = BodyByte) <=> Owed(rest, owed, k)
        <3>1. h + k \in 1..Len(in)
            BY <1>1
        <3> QED BY <2>1, <3>1, <1>3 DEF WellFramed
    <2> QED BY <2>1, <1>3 DEF WellFramed
<1>4. CASE \E j \in HeaderEnds(rest) : j < k
    BY <1>4, <1>1, <1>2, OwedBehindHeader
<1>5. CASE ~\E j \in HeaderEnds(rest) : j < k
    <2>1. Owed(rest, owed, k) <=> k <= owed
        BY <1>5 DEF Owed
    <2>2. \A j \in HeaderEnds(in) : j < h + k <=> j = h
        <3> TAKE j \in HeaderEnds(in)
        <3>1. j \in 1..Len(in) /\ h <= j
            BY DEF HeaderEnds, IsHeaderEnd
        <3>2. ASSUME j < h + k, j # h PROVE FALSE
            <4>1. j - h \in 1..Len(in) - h /\ h + (j - h) = j /\ j - h < k
                BY <3>1, <3>2, <1>1
            <4> QED BY <4>1, <1>3, <1>5
        <3> QED BY <3>1, <3>2
    <2>3. {j \in HeaderEnds(in) : j < h + k} = {h}
        BY <2>2
    <2>4. Owed(in, 0, h + k) <=> h + k - h <= owed
        BY <2>3, <1>1 DEF Owed
    <2> QED BY <2>1, <2>4, <1>1, <1>2
<1> QED BY <1>4, <1>5

(* No header ends among the bytes that are owed to a body. *)
LEMMA OwedAreBody ==
    ASSUME NEW in \in Seq(Token), NEW owed \in Nat, WellFramed(in, owed),
           NEW j \in HeaderEnds(in)
    PROVE  j > owed
PROOF
<1>1. HeaderEnds(in) \subseteq 1..Len(in) /\ \A i \in HeaderEnds(in) : in[i] # BodyByte
    BY RequestAssumption DEF HeaderEnds
<1>2. PICK h \in HeaderEnds(in) : \A i \in HeaderEnds(in) : h <= i
    <2>1. HeaderEnds(in) \subseteq Nat
        BY <1>1
    <2> QED BY <2>1, LeastMember
<1>3. {i \in HeaderEnds(in) : i < h} = {}
    BY <1>1, <1>2
<1>4. ~(h <= owed)
    BY <1>1, <1>3 DEF WellFramed, Owed
<1> QED BY <1>1, <1>2, <1>4

(* ConsumePendingRequestBody takes what is owed: a header starts behind it. *)
LEMMA BodyKeepsFraming ==
    ASSUME NEW in \in Seq(Token), NEW owed \in 0..Len(in), WellFramed(in, owed)
    PROVE  WellFramed(ConsumePrefix(in, owed), 0)
PROOF
<1> DEFINE rest == ConsumePrefix(in, owed)
<1>1. /\ rest \in Seq(Token) /\ Len(rest) = Len(in) - owed
      /\ \A j \in 1..Len(in) - owed : rest[j] = in[owed + j]
      /\ \A j \in 1..Len(in) - owed : j \in HeaderEnds(rest) <=> owed + j \in HeaderEnds(in)
    BY ConsumedPrefix
<1>2. owed \in Nat /\ Len(in) \in Nat
    OBVIOUS
<1> SUFFICES ASSUME NEW k \in 1..Len(in) - owed
             PROVE  Owed(in, owed, owed + k) <=> Owed(rest, 0, k)
    <2>1. ASSUME NEW k \in 1..Len(in) - owed, Owed(in, owed, owed + k) <=> Owed(rest, 0, k)
          PROVE  (rest[k] = BodyByte) <=> Owed(rest, 0, k)
        <3>1. owed + k \in 1..Len(in)
            BY <1>2
        <3> QED BY <2>1, <3>1, <1>1 DEF WellFramed
    <2> QED BY <2>1, <1>1 DEF WellFramed
<1>3. CASE \E j \in HeaderEnds(rest) : j < k
    BY <1>2, <1>3, OwedBehindHeader
<1>4. CASE ~\E j \in HeaderEnds(rest) : j < k
    <2>1. ~Owed(rest, 0, k)
        BY <1>4 DEF Owed
    <2>2. {j \in HeaderEnds(in) : j < owed + k} = {}
        <3>1. ASSUME NEW j \in HeaderEnds(in), j < owed + k PROVE FALSE
            <4>1. j \in 1..Len(in) /\ j > owed
                BY <1>2, OwedAreBody DEF HeaderEnds
            <4>2. j - owed \in 1..Len(in) - owed /\ owed + (j - owed) = j /\ j - owed < k
                BY <3>1, <4>1, <1>2
            <4> QED BY <4>2, <1>1, <1>4
        <3> QED BY <3>1
    <2>3. ~Owed(in, owed, owed + k)
        BY <2>2, <1>2 DEF Owed
    <2> QED BY <2>1, <2>3
<1> QED BY <1>3, <1>4

-----------------------------------------------------------------------------
(* How the invariant is carried from one state to the next.                *)

(* A connection no handler works on does not depend on the running one. *)
LEMMA CourseElsewhere ==
    ASSUME NEW c, NEW r \in BOOLEAN, NEW s \in BOOLEAN, Course(c, "wait", r)
    PROVE  Course(c, "wait", s)
PROOF
BY DEF Course, Timed, Scheduled

(* The handler's connection, or the one a new handler takes up, ends the   *)
(* step as it should, or is closed; the others stay as they are.           *)
LEMMA DataStep ==
    ASSUME DInv, Inv', pc # "exited", pc' # "exited", NEW fd,
           Handling => fd = cur.fd,
           pc' \in HandlerPoints => cur'.fd = fd,
           \A f \in DOMAIN clients' \ {fd} : f \in DOMAIN clients /\ clients'[f] = clients[f],
           fd \in DOMAIN clients' =>
              /\ Whole(clients'[fd]) /\ Framed(clients'[fd])
              /\ Course(clients'[fd], Point(pc'), pc' \in HandlerPoints /\ cur'.reading),
           FrameInv', CloseInv'
    PROVE  DInv'
PROOF
<1>1. (Reading \in BOOLEAN) /\ (Reading' \in BOOLEAN)
    <2>1. Handling => cur.reading \in BOOLEAN
        BY HandledConnection DEF DInv, Frame
    <2>2. Handling' => cur'.reading \in BOOLEAN
        <3>1. Handling' => cur' \in Frame
            BY DEF Inv, TypeOK, Handling, LoopPoints, HandlerPoints
        <3> QED BY <3>1 DEF Frame
    <2> QED BY <2>1, <2>2 DEF Reading, Handling
<1>2. ASSUME NEW f \in DOMAIN clients', f # fd
      PROVE  /\ Whole(clients'[f]) /\ Framed(clients'[f])
             /\ Course(clients'[f], PointOf(f)', Reading')
    <2>1. f \in DOMAIN clients /\ clients'[f] = clients[f]
        BY <1>2
    <2>2. /\ Whole(clients[f]) /\ Framed(clients[f])
          /\ Course(clients[f], PointOf(f), Reading)
        BY <2>1 DEF DInv, DataInv
    <2>3. PointOf(f) = "wait" /\ PointOf(f)' = "wait"
        BY <1>2 DEF PointOf, Handling
    <2> QED BY <1>1, <2>1, <2>2, <2>3, CourseElsewhere
<1>3. ASSUME fd \in DOMAIN clients'
      PROVE  Course(clients'[fd], PointOf(fd)', Reading')
    <2>1. PointOf(fd)' = Point(pc')
        BY DEF PointOf, Point, Handling
    <2>2. Reading' = (pc' \in HandlerPoints /\ cur'.reading)
        BY DEF Reading, Handling
    <2> QED BY <1>3, <2>1, <2>2
<1>4. DataInv'
    BY <1>2, <1>3 DEF DataInv
<1> QED BY <1>4 DEF DInv

(* What the invariant says of the connection a handler works on. *)
LEMMA HandledData ==
    ASSUME DInv, Handling
    PROVE  /\ cur \in Frame /\ cur.fd \in DOMAIN clients
           /\ me \in ClientConnection /\ me.input_buffer \in Seq(Token)
           /\ me.connection_id \in Nat \ {0}
           /\ Settled(me, pc)
           /\ Whole(me) /\ Framed(me) /\ Course(me, pc, cur.reading)
           /\ pc # "exited" /\ pc \in HandlerPoints
PROOF
<1>1. /\ cur \in Frame /\ cur.fd \in DOMAIN clients /\ me \in ClientConnection
      /\ Settled(me, Point(pc))
    BY HandledConnection DEF DInv
<1>2. pc # "exited" /\ pc \in HandlerPoints /\ Point(pc) = pc /\ PointOf(cur.fd) = pc
    BY DEF Handling, HandlerPoints, Point, PointOf
<1>3. Reading = cur.reading
    BY <1>1 DEF Reading, Frame
<1>4. Whole(me) /\ Framed(me) /\ Course(me, pc, cur.reading)
    BY <1>1, <1>2, <1>3 DEF DInv, DataInv, me
<1>5. me.input_buffer \in Seq(Token) /\ me.connection_id \in Nat \ {0}
    BY <1>1 DEF ClientConnection
<1> QED BY <1>1, <1>2, <1>4, <1>5

(* A handler changes its connection, and goes on or returns. *)
LEMMA HandlerData ==
    ASSUME DInv, Inv', Handling, HandlerMoves, NEW c,
           clients' = [clients EXCEPT ![cur.fd] = c],
           Whole(c), Framed(c),
           Course(c, Point(pc'), pc' \in HandlerPoints /\ cur'.reading),
           FrameInv', UNCHANGED pending_close_queue
    PROVE  DInv'
PROOF
<1>1. /\ cur.fd \in DOMAIN clients /\ pc # "exited"
      /\ pc' \in HandlerPoints \cup {"ready", "dispatch"}
      /\ pc' \in HandlerPoints => cur'.fd = cur.fd
    BY HandledData, MovePoints DEF DInv
<1>2. pc' # "exited"
    BY <1>1 DEF HandlerPoints
<1>3. /\ clients'[cur.fd] = c
      /\ \A f \in DOMAIN clients' \ {cur.fd} : f \in DOMAIN clients /\ clients'[f] = clients[f]
    BY <1>1
<1>4. CloseInv'
    BY DEF DInv, CloseInv
<1> QED BY <1>1, <1>2, <1>3, <1>4, DataStep

(* A handler leaves its connection as it is. *)
LEMMA HandlerLeaves ==
    ASSUME DInv, Inv', Handling, HandlerMoves, UNCHANGED <<clients, pending_close_queue>>,
           Course(me, Point(pc'), pc' \in HandlerPoints /\ cur'.reading),
           FrameInv'
    PROVE  DInv'
PROOF
<1>1. clients' = [clients EXCEPT ![cur.fd] = me]
    BY OpenConnections DEF DInv, Inv, me
<1> QED BY <1>1, HandledData, HandlerData

(* Between handlers FrameInv says nothing. *)
LEMMA NoFrameInv ==
    ASSUME pc' \in LoopPoints \cup {"limit"}
    PROVE  FrameInv'
PROOF
BY DEF FrameInv, LoopPoints

(* A connection is closed. *)
LEMMA CloseData ==
    ASSUME DInv, Inv', pc # "exited", pc' \in LoopPoints \ {"exited"},
           NEW fd \in DOMAIN clients, NEW c \in ClientConnection,
           NEW reason, Handling => fd = cur.fd,
           CloseClientConnection(fd, c, reason),
           reason \in {"done", "header", "idle"} => Whole(c) /\ c.output_buffer = 0
    PROVE  DInv'
PROOF
<1>1. pc' \notin HandlerPoints /\ pc' # "exited"
    BY DEF LoopPoints, HandlerPoints
<1>2. /\ fd \notin DOMAIN clients'
      /\ \A f \in DOMAIN clients' : f \in DOMAIN clients /\ clients'[f] = clients[f]
    BY DEF CloseClientConnection, Restrict
<1>3. FrameInv'
    BY NoFrameInv
<1>4. CloseInv'
    <2>1. c.wire \in Nat /\ c.responses \in Nat /\ ResponseSize \in Nat
        BY Sizes DEF ClientConnection
    <2>2. ResponseSize * c.responses \in Nat
        BY <2>1
    <2> DEFINE built == ResponseSize * c.responses
               entry == [connection_id |-> c.connection_id, reason |-> reason,
                         unsent |-> built - c.wire]
    <2>3. entry.reason \in {"done", "header", "idle"} => entry.unsent = 0
        <3> SUFFICES ASSUME reason \in {"done", "header", "idle"}
                     PROVE  built - c.wire = 0
            OBVIOUS
        <3>1. c.wire = built
            BY <2>1 DEF Whole
        <3> QED BY <3>1, <2>1, <2>2
    <2>4. pending_close_queue' = pending_close_queue \cup {entry}
        BY DEF CloseClientConnection
    <2> HIDE DEF entry
    <2> QED BY <2>3, <2>4 DEF DInv, CloseInv
<1> QED BY <1>1, <1>2, <1>3, <1>4, DataStep

(* A handler closes its connection. *)
LEMMA HandlerCloseData ==
    ASSUME DInv, Inv', Handling, NEW c \in ClientConnection, NEW reason, Close(c, reason),
           reason \in {"done", "header", "idle"} => Whole(c) /\ c.output_buffer = 0
    PROVE  DInv'
PROOF
<1>1. cur.fd \in DOMAIN clients /\ cur \in Frame /\ pc # "exited"
    BY HandledData
<1>2. pc' \in LoopPoints \ {"exited"} /\ CloseClientConnection(cur.fd, c, reason)
    BY <1>1 DEF Close, Return, Frame, LoopPoints
<1> QED BY <1>1, <1>2, CloseData

(* A handler answers with an error, and closes its connection. *)
LEMMA HandlerRejectData ==
    ASSUME DInv, Inv', Handling, NEW c \in ClientConnection, Reject(c)
    PROVE  DInv'
PROOF
<1>1. Close(c, "error response")
    BY DEF Reject, Close, SendErrorResponseAndClose
<1> QED BY <1>1, HandlerCloseData

(* The loop goes from one phase to the next. *)
LEMMA LoopData ==
    ASSUME DInv, Inv', ~Handling, pc # "exited", pc' \in LoopPoints \ {"exited"},
           UNCHANGED clients, pending_close_queue' \subseteq pending_close_queue
    PROVE  DInv'
PROOF
<1>1. pc' \notin HandlerPoints /\ pc' # "exited"
    BY DEF LoopPoints, HandlerPoints
<1>2. ~Reading /\ ~Reading' /\ \A fd \in DOMAIN clients : PointOf(fd) = "wait" /\ PointOf(fd)' = "wait"
    BY <1>1 DEF Reading, Handling, PointOf
<1>3. Reading = FALSE /\ Reading' = FALSE
    BY <1>2 DEF Reading
<1>4. DataInv'
    BY <1>1, <1>2, <1>3 DEF DInv, DataInv
<1>5. FrameInv' /\ CloseInv'
    BY NoFrameInv DEF DInv, CloseInv
<1> QED BY <1>4, <1>5 DEF DInv

(* The process ends, wherever the thread is. *)
LEMMA ExitData ==
    ASSUME DInv, Inv', pc' = "exited", UNCHANGED conns
    PROVE  DInv'
PROOF
<1>1. DataInv' /\ CloseInv'
    BY DEF DInv, DataInv, CloseInv, conns
<1>2. FrameInv'
    BY NoFrameInv DEF LoopPoints
<1> QED BY <1>1, <1>2 DEF DInv

-----------------------------------------------------------------------------
(* The loop.                                                               *)

(* What holds of a connection no handler works on. *)
LEMMA WaitingData ==
    ASSUME DInv, pc # "exited", NEW fd \in DOMAIN clients, ~Handling
    PROVE  /\ clients[fd] \in ClientConnection
           /\ Whole(clients[fd]) /\ Framed(clients[fd])
           /\ Course(clients[fd], "wait", FALSE)
PROOF
<1>1. PointOf(fd) = "wait" /\ Reading = FALSE
    BY DEF PointOf, Reading
<1>2. clients[fd] \in ClientConnection
    BY OpenConnections DEF DInv, Inv
<1> QED BY <1>1, <1>2 DEF DInv, DataInv

(* A new handler looks at its socket, or flushes, first. *)
LEMMA NewFrameInv ==
    ASSUME NEW fd, NEW origin, NEW readable, cur' = NewFrame(fd, origin, readable),
           pc' \in {"flush", "continue", "event_read"}
    PROVE  FrameInv' /\ cur'.fd = fd /\ cur'.reading = FALSE
PROOF
BY DEF FrameInv, NewFrame

(* ProcessReadyQueue takes a connection: its handler will go through what   *)
(* the connection was queued for.                                          *)
LEMMA PopReadyData ==
    ASSUME DInv, Inv', PopReady
    PROVE  DInv'
PROOF
<1>1. pc = "ready" /\ ~Handling /\ pc # "exited"
    BY DEF PopReady, Handling, HandlerPoints
<1>2. CloseInv'
    BY DEF PopReady, DInv, CloseInv
<1>3. PICK fd : fd = Head(ready_queue)
    OBVIOUS
<1>4. CASE fd \notin DOMAIN clients
    BY <1>1, <1>3, <1>4, LoopData DEF PopReady, LoopPoints
<1>5. CASE fd \in DOMAIN clients
    <2> DEFINE c == [clients[fd] EXCEPT !.in_ready_queue = FALSE]
    <2>1. /\ clients' = [clients EXCEPT ![fd] = c]
          /\ cur' = NewFrame(fd, "ready", FALSE)
          /\ pc' \in {"flush", "continue"}
        BY <1>3, <1>5 DEF PopReady
    <2>2. /\ clients[fd] \in ClientConnection
          /\ Whole(clients[fd]) /\ Framed(clients[fd])
          /\ Course(clients[fd], "wait", FALSE)
        BY <1>1, <1>5, WaitingData
    <2>3. /\ \A f \in DOMAIN clients' \ {fd} : f \in DOMAIN clients /\ clients'[f] = clients[f]
          /\ clients'[fd] = c
        BY <1>5, <2>1
    <2>4. FrameInv' /\ cur'.fd = fd /\ cur'.reading = FALSE
        BY <2>1, NewFrameInv
    <2>5. Whole(c) /\ Framed(c) /\ Course(c, pc', FALSE)
        BY <2>1, <2>2 DEF Whole, Framed, Course, Timed, Scheduled, ClientConnection
    <2>6. Point(pc') = pc' /\ pc' # "exited" /\ pc' \in HandlerPoints
        BY <2>1 DEF Point, HandlerPoints
    <2> HIDE DEF c
    <2> QED BY <1>1, <1>2, <2>3, <2>4, <2>5, <2>6, DataStep
<1> QED BY <1>4, <1>5

(* HandleClientEvent takes up a connection as the loop left it. *)
LEMMA HandleClientEventData ==
    ASSUME DInv, Inv', HandleClientEvent
    PROVE  DInv'
PROOF
<1>1. pc = "dispatch" /\ ~Handling /\ pc # "exited"
    BY DEF HandleClientEvent, Handling, HandlerPoints
<1>2. UNCHANGED conns
    BY DEF HandleClientEvent
<1>3. CloseInv'
    BY <1>2 DEF DInv, CloseInv, conns
<1>4. PICK e \in batch :
          IF e.fd \in DOMAIN clients
          THEN /\ cur' = NewFrame(e.fd, "dispatch", "IN" \in e.events)
               /\ pc' = IF clients[e.fd].output_buffer > 0 /\ "OUT" \in e.events
                        THEN "flush" ELSE "event_read"
          ELSE UNCHANGED <<pc, cur>>
    BY DEF HandleClientEvent
<1>5. CASE e.fd \notin DOMAIN clients
    BY <1>1, <1>2, <1>4, <1>5, LoopData DEF conns, LoopPoints
<1>6. CASE e.fd \in DOMAIN clients
    <2>1. /\ clients[e.fd] \in ClientConnection
          /\ Whole(clients[e.fd]) /\ Framed(clients[e.fd])
          /\ Course(clients[e.fd], "wait", FALSE)
        BY <1>1, <1>6, WaitingData
    <2>2. /\ pc' \in {"flush", "event_read"} /\ Point(pc') = pc' /\ pc' # "exited"
          /\ pc' \in HandlerPoints
        BY <1>4, <1>6 DEF Point, HandlerPoints
    <2>3. FrameInv' /\ cur'.fd = e.fd /\ cur'.reading = FALSE
        BY <1>4, <1>6, <2>2, NewFrameInv
    <2>4. Course(clients[e.fd], pc', FALSE)
        BY <2>1, <2>2 DEF Course, Timed, Scheduled
    <2>5. clients' = clients
        BY <1>2 DEF conns
    <2> QED BY <1>1, <1>3, <2>1, <2>2, <2>3, <2>4, <2>5, DataStep
<1> QED BY <1>5, <1>6

(* A new connection has its header timer armed before anything is read. *)
LEMMA RegisterData ==
    ASSUME DInv, Inv', RegisterAcceptedConnection
    PROVE  DInv'
PROOF
<1>1. /\ pc = "accept" /\ ~Handling /\ pc # "exited"
      /\ pc' = "limit" /\ pc' # "exited" /\ pc' \notin HandlerPoints
    BY DEF RegisterAcceptedConnection, Handling, HandlerPoints
<1> DEFINE c == ArmHeaderTimeout(NewConnection(next_connection_id))
<1>2. PICK fd \in Fd \ DOMAIN clients :
          clients' = [f \in DOMAIN clients \cup {fd} |-> IF f = fd THEN c ELSE clients[f]]
    BY DEF RegisterAcceptedConnection
<1>3. FrameInv' /\ CloseInv'
    BY <1>1, NoFrameInv DEF RegisterAcceptedConnection, DInv, CloseInv
<1>4. /\ c.wire = 0 /\ c.output_buffer = 0 /\ c.responses = 0
      /\ c.input_buffer = << >> /\ c.pending_body_bytes_remaining = 0
      /\ c.waiting_for_request_body = FALSE /\ c.ready_for_read = FALSE
      /\ c.keep_alive_enabled = FALSE /\ "header" \in c.armed
    BY DEF ArmHeaderTimeout, NewConnection
<1>5. Whole(c) /\ Framed(c) /\ Course(c, "wait", FALSE)
    <2>1. HeaderEnds(<< >>) = {}
        BY DEF HeaderEnds
    <2>2. ~HasCompleteHeader(c.input_buffer)
        BY <1>4, <2>1 DEF HasCompleteHeader
    <2>3. Whole(c)
        BY <1>4, Sizes DEF Whole
    <2>4. Framed(c)
        BY <1>4 DEF Framed, WellFramed
    <2> QED BY <1>4, <2>2, <2>3, <2>4 DEF Course, Timed, Scheduled
<1>6. /\ clients'[fd] = c
      /\ \A f \in DOMAIN clients' \ {fd} : f \in DOMAIN clients /\ clients'[f] = clients[f]
    BY <1>2
<1>7. Point(pc') = "wait" /\ (pc' \in HandlerPoints /\ cur'.reading) = FALSE
    BY <1>1 DEF Point
<1> HIDE DEF c
<1> QED BY <1>1, <1>3, <1>5, <1>6, <1>7, DataStep

(* A connection whose header or idle timer expires owes nothing: no such   *)
(* timer runs while output is left.                                        *)
LEMMA LoopClosesData ==
    ASSUME DInv, Inv', ExpireTimer \/ HandleHangUp \/ EnforceConnectionLimit
    PROVE  DInv'
PROOF
<1>1. pc \in {"timers", "timers_after", "dispatch", "limit"} /\ ~Handling /\ pc # "exited"
    BY DEF ExpireTimer, HandleHangUp, EnforceConnectionLimit, Handling, HandlerPoints
<1>2. /\ pc' \in LoopPoints \ {"exited"}
      /\ \/ UNCHANGED <<clients, pending_close_queue>>
         \/ \E fd \in DOMAIN clients, reason \in CloseReason :
               /\ CloseClientConnection(fd, clients[fd], reason)
               /\ reason \in {"done", "header", "idle"} => reason \in clients[fd].armed
    <2>1. CASE ExpireTimer
        <3>1. PICK fd \in DOMAIN clients : \E k \in clients[fd].armed :
                    CloseClientConnection(fd, clients[fd], k)
            BY <2>1 DEF ExpireTimer
        <3>2. PICK kind \in clients[fd].armed : CloseClientConnection(fd, clients[fd], kind)
            BY <3>1
        <3>3. kind \in CloseReason
            BY <1>1, WaitingData DEF ClientConnection, CloseReason
        <3>4. pc' \in LoopPoints \ {"exited"}
            BY <2>1 DEF ExpireTimer, LoopPoints
        <3> QED BY <3>2, <3>3, <3>4
    <2>2. CASE HandleHangUp
        <3>1. pc' = "dispatch" /\ \E e \in batch :
                 e.fd \in DOMAIN clients /\ CloseClientConnection(e.fd, clients[e.fd], "peer")
            BY <2>2 DEF HandleHangUp
        <3>2. PICK fd \in DOMAIN clients : CloseClientConnection(fd, clients[fd], "peer")
            BY <3>1
        <3>3. "peer" \in CloseReason /\ pc' \in LoopPoints \ {"exited"}
            BY <3>1 DEF CloseReason, LoopPoints
        <3>4. "peer" \notin {"done", "header", "idle"}
            OBVIOUS
        <3> QED BY <3>2, <3>3, <3>4
    <2>3. CASE EnforceConnectionLimit
        <3>1. cur.fd \in DOMAIN clients
            BY <2>3 DEF EnforceConnectionLimit, DInv, Inv, HandlerOpen
        <3> QED BY <2>3, <3>1 DEF EnforceConnectionLimit, me, CloseReason, LoopPoints, conns
    <2> QED BY <2>1, <2>2, <2>3
<1>3. CASE UNCHANGED <<clients, pending_close_queue>>
    BY <1>1, <1>2, <1>3, LoopData
<1>4. ASSUME NEW fd \in DOMAIN clients, NEW reason \in CloseReason,
             CloseClientConnection(fd, clients[fd], reason),
             reason \in {"done", "header", "idle"} => reason \in clients[fd].armed
      PROVE  DInv'
    <2>1. clients[fd] \in ClientConnection /\ Whole(clients[fd])
        BY <1>1, WaitingData
    <2>2. Settled(clients[fd], "wait")
        BY <1>1 DEF DInv, Inv, ConnectionsInv, PointOf
    <2>3. reason \in {"done", "header", "idle"} => clients[fd].output_buffer = 0
        <3>1. clients[fd].output_buffer \in Nat /\ clients[fd].armed \subseteq TimerKind
            BY <2>1 DEF ClientConnection
        <3> QED BY <3>1, <1>4, <2>2 DEF Settled, TimerKind
    <2> QED BY <1>1, <1>2, <1>4, <2>1, <2>3, CloseData
<1> QED BY <1>2, <1>3, <1>4

(* The phases of the loop. *)
LEMMA LoopStepData ==
    ASSUME DInv, Inv', LoopStep
    PROVE  DInv'
PROOF
<1>1. pc \notin HandlerPoints /\ pc # "exited"
    BY DEF LoopStep, ReadyQueueDone, TimersDone, Wait, BatchDone, HandleListenEvent,
           AcceptQueueEmpty, AcceptFails, FlushPendingCloseQueue, StopRequested, HandlerPoints
<1>2. CASE AcceptFails \/ StopRequested
    BY <1>2, ExitData DEF AcceptFails, StopRequested, Exit
<1>3. CASE ~(AcceptFails \/ StopRequested)
    <2>1. /\ pc' \in LoopPoints \ {"exited"} /\ UNCHANGED clients
          /\ pending_close_queue' \subseteq pending_close_queue
        BY <1>3 DEF LoopStep, ReadyQueueDone, TimersDone, Wait, BatchDone, HandleListenEvent,
               AcceptQueueEmpty, FlushPendingCloseQueue, Goto, conns, LoopPoints
    <2> QED BY <1>1, <2>1, LoopData DEF Handling
<1> QED BY <1>2, <1>3

-----------------------------------------------------------------------------
(* The handlers.                                                           *)

(* A connection whose body is expected is no matter without bodies. *)
LEMMA NoBodiesNoWait ==
    ASSUME DInv, Handling, NoBodies
    PROVE  ~me.waiting_for_request_body /\ Scheduled(me, pc, cur.reading)
PROOF
BY HandledData DEF Course, Scheduled

(* A complete header is something in the input buffer. *)
LEMMA CompleteIsNotEmpty ==
    ASSUME NEW in \in Seq(Token), HasCompleteHeader(in)
    PROVE  in # << >>
PROOF
BY DEF HasCompleteHeader, HeaderEnds

(* The steps that only choose what the handler does next. *)
LEMMA HandlerMoveData ==
    ASSUME DInv, Inv', HandlerMove
    PROVE  DInv'
PROOF
<1>1. Handling
    BY DEF HandlerMove, ContinueWithBody, ContinueWithHeaders, ContinueReturns, EventReturns,
           ReadWouldBlock, ProcessStops, TailReturns, HandlerPoints, Handling
<1>2. /\ cur \in Frame /\ me \in ClientConnection /\ me.input_buffer \in Seq(Token)
      /\ cur.origin \in {"ready", "dispatch"} /\ cur.reading \in BOOLEAN
      /\ Course(me, pc, cur.reading)
    BY <1>1, HandledData DEF Frame
<1>3. NoBodies => ~me.waiting_for_request_body /\ Scheduled(me, pc, cur.reading)
    BY <1>1, NoBodiesNoWait
<1>4. UNCHANGED <<clients, pending_close_queue>>
    BY DEF HandlerMove, ContinueWithBody, ContinueWithHeaders, ContinueReturns, EventReturns,
           ReadWouldBlock, ProcessStops, TailReturns, conns
<1>5. FrameInv
    BY DEF DInv
(* The handler goes on, at a point and with a frame that suit its connection. *)
<1>6. ASSUME NEW point \in HandlerPoints, pc' = point, cur' \in Frame,
             cur'.fd = cur.fd, cur'.origin = cur.origin, cur'.reading = cur.reading,
             Course(me, point, cur.reading), FrameInv'
      PROVE  DInv'
    <2>1. HandlerMoves
        BY <1>6 DEF HandlerMoves
    <2>2. Point(pc') = point /\ (pc' \in HandlerPoints /\ cur'.reading) = cur.reading
        BY <1>2, <1>6 DEF Point
    <2> QED BY <1>1, <1>4, <1>6, <2>1, <2>2, HandlerLeaves
(* The handler returns. *)
<1>7. ASSUME Return, Course(me, "wait", FALSE)
      PROVE  DInv'
    <2>1. pc' \in LoopPoints /\ pc' \notin HandlerPoints
        BY <1>2, <1>7 DEF Return, LoopPoints, HandlerPoints
    <2>2. Point(pc') = "wait" /\ (pc' \in HandlerPoints /\ cur'.reading) = FALSE
        BY <2>1 DEF Point
    <2>3. FrameInv'
        BY <2>1, NoFrameInv
    <2> QED BY <1>1, <1>4, <1>7, <2>2, <2>3, HandlerLeaves DEF HandlerMoves
<1>8. CASE ContinueWithBody
    <2>1. /\ pc = "continue" /\ pc' = "consume" /\ me.waiting_for_request_body
          /\ cur' = [cur EXCEPT !.back = "continue_parse"]
        BY <1>8 DEF ContinueWithBody
    <2>2. /\ cur' \in Frame /\ cur'.fd = cur.fd /\ cur'.origin = cur.origin
          /\ cur'.reading = cur.reading /\ cur'.back = "continue_parse"
        BY <1>2, <2>1 DEF Frame
    <2>3. Course(me, "consume", cur.reading) /\ FrameInv'
        BY <1>2, <1>3, <2>1, <2>2 DEF Course, Timed, FrameInv
    <2> QED BY <1>6, <2>1, <2>2, <2>3 DEF HandlerPoints
<1>9. CASE ContinueWithHeaders
    <2>1. /\ pc \in {"continue", "continue_parse"} /\ me.output_buffer = 0
          /\ ~me.waiting_for_request_body
        BY <1>9 DEF ContinueWithHeaders
    <2>2. CASE HasCompleteHeader(me.input_buffer)
        <3>1. pc' = "process" /\ cur' = [cur EXCEPT !.processed_requests = 0]
            BY <1>9, <2>2 DEF ContinueWithHeaders
        <3>2. /\ cur' \in Frame /\ cur'.fd = cur.fd /\ cur'.origin = cur.origin
              /\ cur'.reading = cur.reading /\ cur'.back = cur.back
            BY <1>2, <3>1 DEF Frame
        <3>3. me.input_buffer # << >>
            BY <1>2, <2>2, CompleteIsNotEmpty
        <3>4. Course(me, "process", cur.reading)
            BY <1>2, <1>3, <1>5, <2>1, <3>3 DEF Course, Timed, Scheduled, FrameInv
        <3>5. FrameInv'
            BY <3>1 DEF FrameInv
        <3> QED BY <1>6, <3>1, <3>2, <3>4, <3>5 DEF HandlerPoints
    <2>3. CASE ~HasCompleteHeader(me.input_buffer)
        <3>1. pc' = "continue_read" /\ cur' = cur
            BY <1>9, <2>3 DEF ContinueWithHeaders, Goto
        <3>2. Course(me, "continue_read", cur.reading) /\ FrameInv'
            BY <1>2, <1>3, <2>1, <2>3, <3>1 DEF Course, Timed, Scheduled, FrameInv
        <3> QED BY <1>2, <1>6, <3>1, <3>2 DEF HandlerPoints
    <2> QED BY <2>2, <2>3
<1>10. CASE ContinueReturns
    <2>1. Return
        BY <1>10 DEF ContinueReturns
    <2>2. \/ pc = "continue" /\ me.output_buffer > 0
          \/ pc = "continue_parse"
          \/ pc = "continue_read" /\ (me.output_buffer > 0 \/ ~me.ready_for_read)
        BY <1>10 DEF ContinueReturns
    <2>3. Course(me, "wait", FALSE)
        BY <1>2, <1>3, <1>5, <2>2 DEF Course, Timed, Scheduled, FrameInv
    <2> QED BY <1>7, <2>1, <2>3
<1>11. CASE EventReturns \/ ReadWouldBlock
    <2>1. Return /\ pc \in {"event_read", "read"}
        BY <1>11 DEF EventReturns, ReadWouldBlock
    <2>2. Course(me, "wait", FALSE)
        BY <1>2, <1>3, <2>1 DEF Course, Timed, Scheduled
    <2> QED BY <1>7, <2>1, <2>2
<1>12. CASE ProcessStops
    <2>1. pc = "process" /\ pc' = "tail" /\ cur' = cur
        BY <1>12 DEF ProcessStops, Goto
    <2>2. Course(me, "tail", cur.reading) /\ FrameInv'
        BY <1>2, <1>3, <2>1 DEF Course, Timed, Scheduled, FrameInv
    <2> QED BY <1>2, <1>6, <2>1, <2>2 DEF HandlerPoints
<1>13. CASE TailReturns
    <2>1. /\ pc = "tail" /\ pc' = AfterProcess /\ cur' = cur
          /\ \/ me.waiting_for_request_body
             \/ ~HasCompleteHeader(me.input_buffer)
        BY <1>13 DEF TailReturns, Goto
    <2>2. Course(me, pc', cur.reading) /\ FrameInv' /\ pc' \in {"chunk", "continue_read"}
        BY <1>2, <1>3, <2>1 DEF AfterProcess, Course, Timed, Scheduled, FrameInv
    <2> QED BY <1>2, <1>6, <2>1, <2>2 DEF HandlerPoints
<1> QED BY <1>8, <1>9, <1>10, <1>11, <1>12, <1>13 DEF HandlerMove

(* A handler changes its connection and goes on. *)
LEMMA GoesOnData ==
    ASSUME DInv, Inv', Handling, NEW c, NEW point \in HandlerPoints,
           clients' = [clients EXCEPT ![cur.fd] = c], UNCHANGED pending_close_queue,
           pc' = point, cur' \in Frame, cur'.fd = cur.fd, cur'.origin = cur.origin,
           Whole(c), Framed(c), Course(c, point, cur'.reading), FrameInv'
    PROVE  DInv'
PROOF
<1>1. HandlerMoves
    BY DEF HandlerMoves
<1>2. Point(pc') = point /\ (pc' \in HandlerPoints /\ cur'.reading) = cur'.reading
    BY DEF Point, Frame
<1> QED BY <1>1, <1>2, HandlerData

(* A handler changes its connection and returns. *)
LEMMA ReturnsData ==
    ASSUME DInv, Inv', Handling, NEW c,
           clients' = [clients EXCEPT ![cur.fd] = c], UNCHANGED pending_close_queue,
           Return, Whole(c), Framed(c), Course(c, "wait", FALSE)
    PROVE  DInv'
PROOF
<1>1. pc' \in LoopPoints /\ pc' \notin HandlerPoints
    BY HandledData DEF Return, Frame, LoopPoints, HandlerPoints
<1>2. Point(pc') = "wait" /\ (pc' \in HandlerPoints /\ cur'.reading) = FALSE
    BY <1>1 DEF Point
<1>3. FrameInv'
    BY <1>1, NoFrameInv
<1> QED BY <1>2, <1>3, HandlerData DEF HandlerMoves

(* UpdateClientPollMask changes the epoll registration alone. *)
LEMMA MaskData ==
    ASSUME NEW c \in ClientConnection
    PROVE  LET d == UpdateClientPollMask(c)
           IN  /\ Whole(d) <=> Whole(c)
               /\ Framed(d) <=> Framed(c)
               /\ \A point, reading : Course(d, point, reading) <=> Course(c, point, reading)
               /\ d.in_ready_queue = c.in_ready_queue /\ d \in ClientConnection
PROOF
<1> DEFINE asks == c.output_buffer > 0
           d == UpdateClientPollMask(c)
<1>1. asks \in BOOLEAN
    OBVIOUS
<1>2. d = [c EXCEPT !.pollout = asks]
    BY DEF UpdateClientPollMask
<1> HIDE DEF asks, d
<1>3. d \in ClientConnection
    BY <1>1, <1>2 DEF ClientConnection
<1>4. /\ d.in_ready_queue = c.in_ready_queue /\ d.ready_for_read = c.ready_for_read
      /\ d.output_buffer = c.output_buffer /\ d.armed = c.armed
      /\ d.waiting_for_request_body = c.waiting_for_request_body
      /\ d.input_buffer = c.input_buffer /\ d.keep_alive_enabled = c.keep_alive_enabled
      /\ d.pending_body_bytes_remaining = c.pending_body_bytes_remaining
      /\ d.responses = c.responses /\ d.wire = c.wire
    BY <1>2 DEF ClientConnection
<1>5. \A point, reading : Course(d, point, reading) <=> Course(c, point, reading)
    BY <1>4 DEF Course, Timed, Scheduled
<1> QED BY <1>3, <1>4, <1>5 DEF Whole, Framed, d

(* EnqueueReadyConnection queues the connection: what it holds is scheduled. *)
LEMMA QueuedData ==
    ASSUME NEW c \in ClientConnection, NEW point, NEW reading, Whole(c), Framed(c),
           Timed(c, point), NoBodies => ~c.waiting_for_request_body
    PROVE  LET d == [c EXCEPT !.in_ready_queue = TRUE]
           IN  Whole(d) /\ Framed(d) /\ Course(d, point, reading)
PROOF
BY DEF Whole, Framed, Course, Timed, Scheduled, ClientConnection

(* FlushClientOutput. *)
LEMMA FlushData ==
    ASSUME DInv, Inv', \/ FlushWrites \/ FlushPauses \/ FlushedRequeues \/ FlushedCloses
                       \/ FlushedIdles
    PROVE  DInv'
PROOF
<1>1. pc = "flush" /\ Handling
    BY DEF FlushWrites, FlushPauses, FlushedRequeues, FlushedCloses, FlushedIdles,
           Handling, HandlerPoints
<1>2. /\ cur \in Frame /\ cur.fd \in DOMAIN clients /\ me \in ClientConnection
      /\ Whole(me) /\ Framed(me) /\ Course(me, "flush", cur.reading) /\ ~cur.reading
    BY <1>1, HandledData DEF DInv, FrameInv
<1>3. NoBodies => ~me.waiting_for_request_body
    BY <1>1, NoBodiesNoWait
<1>4. AfterFlush \in {"continue", "event_read"} /\ AfterFlush \in HandlerPoints
    BY DEF AfterFlush, HandlerPoints
<1>5. CASE FlushWrites
    <2>1. PICK n \in 1..me.output_buffer :
              /\ n <= cur.write_remaining
              /\ Keep([me EXCEPT !.output_buffer = @ - n, !.wire = @ + n])
              /\ cur' = [cur EXCEPT !.write_remaining = @ - n]
        BY <1>5 DEF FlushWrites
    <2> DEFINE c == [me EXCEPT !.output_buffer = @ - n, !.wire = @ + n]
    <2>2. me.output_buffer \in Nat /\ me.wire \in Nat /\ cur.write_remaining \in Nat
        BY <1>2 DEF ClientConnection, Frame
    <2>3. /\ c.output_buffer = me.output_buffer - n /\ c.wire = me.wire + n
          /\ c.input_buffer = me.input_buffer /\ c.armed = me.armed
          /\ c.waiting_for_request_body = me.waiting_for_request_body
          /\ c.pending_body_bytes_remaining = me.pending_body_bytes_remaining
          /\ c.responses = me.responses /\ c.keep_alive_enabled = me.keep_alive_enabled
        BY <1>2 DEF ClientConnection
    <2>4. /\ clients' = [clients EXCEPT ![cur.fd] = c] /\ UNCHANGED pending_close_queue
          /\ pc' = "flush"
        BY <1>1, <1>5, <2>1 DEF FlushWrites, Keep
    <2>5. /\ cur' \in Frame /\ cur'.fd = cur.fd /\ cur'.origin = cur.origin
          /\ cur'.reading = cur.reading /\ cur'.back = cur.back
        <3>1. cur.write_remaining - n \in Nat
            BY <2>1, <2>2
        <3> QED BY <1>2, <2>1, <3>1 DEF Frame
    <2> HIDE DEF c
    <2>6. Whole(c)
        BY <1>2, <2>2, <2>3 DEF Whole
    <2>7. Framed(c) /\ Course(c, "flush", cur'.reading)
        BY <1>2, <1>3, <2>3 DEF Framed, Course, Timed, Scheduled
    <2>8. FrameInv'
        BY <1>2, <2>4, <2>5 DEF FrameInv
    <2> QED BY <1>1, <2>4, <2>5, <2>6, <2>7, <2>8, GoesOnData DEF HandlerPoints
(* The other steps go on after the flush. *)
<1>6. ASSUME NEW c, clients' = [clients EXCEPT ![cur.fd] = c], UNCHANGED pending_close_queue,
             Goto(AfterFlush), Whole(c), Framed(c), Course(c, AfterFlush, cur.reading)
      PROVE  DInv'
    <2>1. pc' = AfterFlush /\ cur' = cur
        BY <1>6 DEF Goto
    <2>2. FrameInv'
        BY <1>2, <1>4, <2>1 DEF FrameInv
    <2> QED BY <1>1, <1>2, <1>4, <1>6, <2>1, <2>2, GoesOnData
<1>7. CASE FlushPauses
    <2>1. Course(me, AfterFlush, cur.reading)
        BY <1>2, <1>4, <1>7 DEF FlushPauses, Course, Timed, Scheduled
    <2>2. \E c \in {me, UpdateClientPollMask(me)} : Keep(c)
        BY <1>7 DEF FlushPauses
    <2>3. PICK c \in {me, UpdateClientPollMask(me)} : Keep(c)
        BY <2>2
    <2>4. Whole(c) /\ Framed(c) /\ Course(c, AfterFlush, cur.reading)
        BY <1>2, <2>1, <2>3, MaskData
    <2> QED BY <1>6, <1>7, <2>3, <2>4 DEF FlushPauses, Keep
<1>8. CASE FlushedRequeues
    <2> DEFINE c == UpdateClientPollMask(me)
               d == [c EXCEPT !.in_ready_queue = TRUE]
    <2>1. /\ clients' = [clients EXCEPT ![cur.fd] = d] /\ UNCHANGED pending_close_queue
          /\ Goto(AfterFlush)
        BY <1>8 DEF FlushedRequeues, Requeue, EnqueueReadyConnection
    <2>2. Timed(me, AfterFlush)
        BY <1>2, <1>4 DEF Course, Timed
    <2>3. /\ c \in ClientConnection /\ Whole(c) /\ Framed(c)
          /\ c.waiting_for_request_body = me.waiting_for_request_body
          /\ Timed(c, AfterFlush)
        BY <1>2, <2>2, MaskData DEF UpdateClientPollMask, ClientConnection, Timed
    <2> HIDE DEF c
    <2>4. Whole(d) /\ Framed(d) /\ Course(d, AfterFlush, cur.reading)
        BY <1>3, <2>3, QueuedData
    <2> QED BY <1>6, <2>1, <2>4
<1>9. CASE FlushedCloses
    BY <1>1, <1>2, <1>9, HandlerCloseData DEF FlushedCloses
<1>10. CASE FlushedIdles
    <2> DEFINE c == IF me.keep_alive_enabled THEN ArmIdleKeepAliveTimeout(me) ELSE me
    <2>1. /\ c \in ClientConnection
          /\ Whole(c) /\ Framed(c) /\ Course(c, AfterFlush, cur.reading)
        <3>1. Course(me, AfterFlush, cur.reading)
            BY <1>2, <1>4, <1>10 DEF FlushedIdles, Course, Timed, Scheduled
        <3>2. CASE ~me.keep_alive_enabled
            BY <1>2, <3>1, <3>2
        <3>3. CASE me.keep_alive_enabled
            <4> DEFINE armed == (me.armed \ {"header"}) \cup {"idle"}
            <4>1. c = [me EXCEPT !.armed = armed] /\ armed \in SUBSET TimerKind
                BY <1>2, <3>3 DEF ArmIdleKeepAliveTimeout, ClientConnection, TimerKind
            <4>2. me.responses > 0
                BY <1>2, <3>3 DEF Course, Timed
            <4> HIDE DEF armed, c
            <4>3. c \in ClientConnection
                BY <1>2, <4>1 DEF ClientConnection
            <4>4. Whole(c) /\ Framed(c)
                BY <1>2, <4>1 DEF Whole, Framed, ClientConnection
            <4>5. Course(c, AfterFlush, cur.reading)
                BY <1>2, <1>4, <3>1, <4>1, <4>2
                DEF Course, Timed, Scheduled, ClientConnection
            <4> QED BY <4>3, <4>4, <4>5
        <3> QED BY <3>2, <3>3
    <2>2. /\ clients' = [clients EXCEPT ![cur.fd] = UpdateClientPollMask(c)]
          /\ UNCHANGED pending_close_queue /\ Goto(AfterFlush)
        BY <1>10 DEF FlushedIdles, Keep
    <2> HIDE DEF c
    <2> QED BY <1>6, <2>1, <2>2, MaskData
<1> QED BY <1>5, <1>7, <1>8, <1>9, <1>10

(* ReadFromClient, and the two places it is entered from. *)
LEMMA ReadData ==
    ASSUME DInv, Inv', \/ ContinueWithRead \/ EventRead \/ ReadSome \/ ReadEnds
                       \/ CheckHeaderLimit \/ ChunkDone
    PROVE  DInv'
PROOF
<1>1. pc \in {"continue_read", "event_read", "read", "check_header", "chunk"} /\ Handling
    BY DEF ContinueWithRead, EventRead, ReadSome, ReadEnds, CheckHeaderLimit, ChunkDone,
           Handling, HandlerPoints
<1>2. /\ cur \in Frame /\ cur.fd \in DOMAIN clients /\ me \in ClientConnection
      /\ me.input_buffer \in Seq(Token) /\ cur.reading \in BOOLEAN
      /\ Whole(me) /\ Framed(me) /\ Course(me, pc, cur.reading)
      /\ pc \in {"read", "check_header", "chunk"} => cur.reading
    BY <1>1, HandledData DEF DInv, FrameInv, Frame
<1>3. NoBodies => ~me.waiting_for_request_body /\ Scheduled(me, pc, cur.reading)
    BY <1>1, NoBodiesNoWait
<1>4. CASE ContinueWithRead
    <2> DEFINE c == [me EXCEPT !.ready_for_read = FALSE]
    <2>1. /\ pc = "continue_read" /\ pc' = "read" /\ cur' = [cur EXCEPT !.reading = TRUE]
          /\ clients' = [clients EXCEPT ![cur.fd] = c] /\ UNCHANGED pending_close_queue
        BY <1>4 DEF ContinueWithRead, Keep
    <2>2. /\ cur' \in Frame /\ cur'.fd = cur.fd /\ cur'.origin = cur.origin
          /\ cur'.reading = TRUE
        BY <1>2, <2>1 DEF Frame
    <2>3. Whole(c) /\ Framed(c) /\ Course(c, "read", TRUE)
        BY <1>2, <1>3, <2>1
        DEF Whole, Framed, Course, Timed, Scheduled, ClientConnection
    <2>4. FrameInv'
        BY <2>1, <2>2 DEF FrameInv
    <2> HIDE DEF c
    <2> QED BY <1>1, <2>1, <2>2, <2>3, <2>4, GoesOnData DEF HandlerPoints
<1>5. CASE EventRead
    <2> DEFINE c == IF "idle" \in me.armed THEN ArmHeaderTimeout(me) ELSE me
               armed == IF "idle" \in me.armed THEN (me.armed \ {"idle"}) \cup {"header"}
                                               ELSE me.armed
    <2>1. /\ pc = "event_read" /\ pc' = "read" /\ cur' = [cur EXCEPT !.reading = TRUE]
          /\ clients' = [clients EXCEPT ![cur.fd] = c] /\ UNCHANGED pending_close_queue
        BY <1>5 DEF EventRead, Keep
    <2>2. /\ cur' \in Frame /\ cur'.fd = cur.fd /\ cur'.origin = cur.origin
          /\ cur'.reading = TRUE
        BY <1>2, <2>1 DEF Frame
    <2>3. c = [me EXCEPT !.armed = armed]
        BY <1>2 DEF ArmHeaderTimeout, ClientConnection
    <2>4. \A t \in {"header", "body"} : t \in me.armed => t \in armed
        OBVIOUS
    <2> HIDE DEF c, armed
    <2>5. Whole(c) /\ Framed(c)
        BY <1>2, <2>3 DEF Whole, Framed, ClientConnection
    <2>6. Timed(c, "read")
        BY <1>2, <2>1, <2>3, <2>4 DEF Course, Timed, ClientConnection
    <2>7. NoBodies => Scheduled(c, "read", TRUE)
        BY <1>2, <1>3, <2>1, <2>3 DEF Scheduled, ClientConnection
    <2>8. FrameInv'
        BY <2>1, <2>2 DEF FrameInv
    <2>9. Course(c, "read", cur'.reading)
        BY <2>2, <2>6, <2>7 DEF Course
    <2> QED BY <1>1, <2>1, <2>2, <2>5, <2>8, <2>9, GoesOnData DEF HandlerPoints
<1>6. CASE ReadSome
    <2>1. PICK n \in 1..kReadChunkSize : \E data \in [1..n -> Token] :
              /\ n <= cur.read_remaining
              /\ ClientMaySend(me, data)
              /\ IF OverBudget(n)
                 THEN Reject(me)
                 ELSE /\ Keep([me EXCEPT !.input_buffer = @ \o data])
                      /\ pc' = IF me.waiting_for_request_body THEN "consume" ELSE "check_header"
                      /\ cur' = [cur EXCEPT !.read_remaining = @ - n, !.back = "chunk"]
        BY <1>6 DEF ReadSome
    <2>2. PICK data \in [1..n -> Token] :
              /\ n <= cur.read_remaining
              /\ ClientMaySend(me, data)
              /\ IF OverBudget(n)
                 THEN Reject(me)
                 ELSE /\ Keep([me EXCEPT !.input_buffer = @ \o data])
                      /\ pc' = IF me.waiting_for_request_body THEN "consume" ELSE "check_header"
                      /\ cur' = [cur EXCEPT !.read_remaining = @ - n, !.back = "chunk"]
        BY <2>1
    <2>3. CASE OverBudget(n)
        BY <1>1, <1>2, <2>2, <2>3, HandlerRejectData
    <2>4. CASE ~OverBudget(n)
        <3> DEFINE in == me.input_buffer \o data
                   c  == [me EXCEPT !.input_buffer = in]
        <3>1. /\ n \in Nat /\ n > 0 /\ data \in Seq(Token) /\ Len(data) = n
            BY SizeAssumption
        <3>2. in \in Seq(Token) /\ Len(in) = Len(me.input_buffer) + n
            BY <1>2, <3>1, ConcatProperties
        <3>3. in # << >>
            <4>1. Len(in) > 0
                BY <1>2, <3>1, <3>2
            <4> QED BY <4>1
        <3>4. WellFramed(in, me.pending_body_bytes_remaining)
            BY <2>2 DEF ClientMaySend, WellFramed
        <3> HIDE DEF in
        <3>5. /\ c.input_buffer = in /\ c.wire = me.wire /\ c.output_buffer = me.output_buffer
              /\ c.responses = me.responses /\ c.armed = me.armed
              /\ c.keep_alive_enabled = me.keep_alive_enabled
              /\ c.waiting_for_request_body = me.waiting_for_request_body
              /\ c.pending_body_bytes_remaining = me.pending_body_bytes_remaining
              /\ c.in_ready_queue = me.in_ready_queue /\ c.ready_for_read = me.ready_for_read
            BY <1>2 DEF ClientConnection
        <3>6. /\ clients' = [clients EXCEPT ![cur.fd] = c] /\ UNCHANGED pending_close_queue
              /\ pc' = IF me.waiting_for_request_body THEN "consume" ELSE "check_header"
              /\ cur' = [cur EXCEPT !.read_remaining = @ - n, !.back = "chunk"]
            BY <2>2, <2>4 DEF Keep, in
        <3>7. pc = "read" /\ cur.reading
            BY <1>2, <1>6 DEF ReadSome
        <3>8. /\ cur' \in Frame /\ cur'.fd = cur.fd /\ cur'.origin = cur.origin
              /\ cur'.reading = TRUE /\ cur'.back = "chunk"
            <4>1. cur.read_remaining - n \in Nat
                BY <1>2, <2>2, <3>1 DEF Frame
            <4> QED BY <1>2, <3>6, <3>7, <4>1 DEF Frame
        <3> HIDE DEF c
        <3>9. Whole(c) /\ Framed(c)
            BY <1>2, <3>4, <3>5 DEF Whole, Framed
        <3>10. Timed(c, pc')
            BY <1>2, <3>3, <3>5, <3>6, <3>7 DEF Course, Timed
        <3>11. NoBodies => pc' = "check_header" /\ Scheduled(c, pc', TRUE)
            BY <1>3, <3>5, <3>6, <3>7 DEF Scheduled
        <3>12. FrameInv'
            BY <3>6, <3>8, <3>11 DEF FrameInv
        <3>13. Course(c, pc', cur'.reading)
            BY <3>8, <3>10, <3>11 DEF Course
        <3>14. pc' \in HandlerPoints
            BY <3>6 DEF HandlerPoints
        <3> QED BY <1>1, <3>6, <3>8, <3>9, <3>12, <3>13, <3>14, GoesOnData
    <2> QED BY <2>3, <2>4
<1>7. CASE ReadEnds
    BY <1>1, <1>2, <1>7, HandlerCloseData DEF ReadEnds
<1>8. CASE CheckHeaderLimit
    <2>1. pc = "check_header"
        BY <1>8 DEF CheckHeaderLimit
    <2>2. CASE HeaderExceedsLimit(me.input_buffer, kMaxHeaderBytes)
        BY <1>1, <1>2, <1>8, <2>2, HandlerRejectData DEF CheckHeaderLimit
    <2>3. CASE ~HeaderExceedsLimit(me.input_buffer, kMaxHeaderBytes)
        <3>1. /\ pc' = "process" /\ cur' = [cur EXCEPT !.processed_requests = 0]
              /\ UNCHANGED <<clients, pending_close_queue>>
            BY <1>8, <2>3 DEF CheckHeaderLimit, conns
        <3>2. /\ cur' \in Frame /\ cur'.fd = cur.fd /\ cur'.origin = cur.origin
              /\ cur'.reading = cur.reading
            BY <1>2, <3>1 DEF Frame
        <3>3. Course(me, "process", cur.reading)
            BY <1>2, <1>3, <2>1 DEF Course, Timed, Scheduled
        <3>4. FrameInv'
            BY <3>1 DEF FrameInv
        <3>5. clients' = [clients EXCEPT ![cur.fd] = me]
            BY <3>1, OpenConnections DEF DInv, Inv, me
        <3> QED BY <1>1, <1>2, <3>1, <3>2, <3>3, <3>4, <3>5, GoesOnData DEF HandlerPoints
    <2> QED BY <2>2, <2>3
<1>9. CASE ChunkDone
    <2>1. pc = "chunk"
        BY <1>9 DEF ChunkDone
    <2>2. CASE cur.read_remaining = 0
        <3> DEFINE c == [me EXCEPT !.ready_for_read = TRUE]
                   d == [c EXCEPT !.in_ready_queue = TRUE]
        <3>1. /\ clients' = [clients EXCEPT ![cur.fd] = d] /\ UNCHANGED pending_close_queue
              /\ Return
            BY <1>9, <2>2 DEF ChunkDone, Requeue, EnqueueReadyConnection
        <3>2. /\ c \in ClientConnection /\ Whole(c) /\ Framed(c) /\ Timed(c, "wait")
              /\ c.waiting_for_request_body = me.waiting_for_request_body
            BY <1>2, <2>1 DEF Whole, Framed, Course, Timed, ClientConnection
        <3> HIDE DEF c
        <3>3. Whole(d) /\ Framed(d) /\ Course(d, "wait", FALSE)
            BY <1>3, <3>2, QueuedData
        <3> QED BY <1>1, <3>1, <3>3, ReturnsData
    <2>3. CASE cur.read_remaining # 0
        <3>1. /\ clients' = [clients EXCEPT ![cur.fd] = me] /\ UNCHANGED pending_close_queue
              /\ pc' = "read" /\ cur' = cur
            BY <1>9, <2>3 DEF ChunkDone, Keep, Goto
        <3>2. Course(me, "read", cur.reading)
            BY <1>2, <1>3, <2>1 DEF Course, Timed, Scheduled
        <3>3. FrameInv'
            BY <1>2, <2>1, <3>1 DEF FrameInv
        <3> QED BY <1>1, <1>2, <3>1, <3>2, <3>3, GoesOnData DEF HandlerPoints
    <2> QED BY <2>2, <2>3
<1> QED BY <1>4, <1>5, <1>6, <1>7, <1>8, <1>9

(* ProcessBufferedHeaders. *)
LEMMA ProcessData ==
    ASSUME DInv, Inv', ProcessHeader \/ TailRequeues \/ TailCloses \/ TailArms
    PROVE  DInv'
PROOF
<1>1. pc \in {"process", "tail"} /\ Handling
    BY DEF ProcessHeader, TailRequeues, TailCloses, TailArms, Handling, HandlerPoints
<1>2. /\ cur \in Frame /\ cur.fd \in DOMAIN clients /\ me \in ClientConnection
      /\ me.input_buffer \in Seq(Token) /\ cur.reading \in BOOLEAN
      /\ Whole(me) /\ Framed(me) /\ Course(me, pc, cur.reading)
    BY <1>1, HandledData DEF Frame
<1>3. NoBodies => ~me.waiting_for_request_body /\ Scheduled(me, pc, cur.reading)
    BY <1>1, NoBodiesNoWait
<1>4. CASE ProcessHeader
    <2> DEFINE next == [cur EXCEPT !.processed_requests = @ + 1, !.popped = @ + 1]
    <2>1. PICK i \in HeaderEnds(me.input_buffer) :
              LET request == me.input_buffer[i]
                  popped  == [me EXCEPT !.input_buffer = ConsumePrefix(@, i)]
              IN  /\ IsHeaderEnd(me.input_buffer, i)
                  /\ \/ Reject(me)
                     \/ /\ Parse[request].content_length > 0
                        /\ Keep(BeginRequestBodyReceive(popped, request))
                        /\ pc' = "consume" /\ cur' = [next EXCEPT !.back = "tail"]
                     \/ /\ ~(Parse[request].content_length > 0)
                        /\ Keep(popped)
                        /\ pc' = "respond"
                        /\ cur' = [next EXCEPT !.request = request, !.back = "process"]
        BY <1>4 DEF ProcessHeader
    <2> DEFINE request == me.input_buffer[i]
               rest == ConsumePrefix(me.input_buffer, i)
               c == [me EXCEPT !.input_buffer = rest]
               owed == Parse[request].content_length
    <2>2. /\ i \in 1..Len(me.input_buffer) /\ request \in Requests
          /\ owed \in Nat
        <3>1. i \in 1..Len(me.input_buffer) /\ request \in Requests
            BY DEF HeaderEnds
        <3> QED BY <3>1, RequestAssumption DEF HttpRequest
    <2>3. pc = "process" /\ ~me.waiting_for_request_body
        BY <1>2, <1>4 DEF ProcessHeader, Course, Timed
    <2>4. rest \in Seq(Token) /\ WellFramed(rest, owed)
        <3>1. rest \in Seq(Token)
            BY <1>2, <2>2, ConsumedPrefix
        <3>2. WellFramed(me.input_buffer, 0)
            BY <1>2, <2>3 DEF Framed
        <3>3. IsHeaderEnd(me.input_buffer, i)
            BY <2>1
        <3> QED BY <1>2, <3>1, <3>2, <3>3, PopKeepsFraming
    <2>5. /\ next \in Frame /\ next.fd = cur.fd /\ next.origin = cur.origin
          /\ next.reading = cur.reading
        <3>1. cur.processed_requests + 1 \in Nat /\ cur.popped + 1 \in Nat
            BY <1>2 DEF Frame
        <3>2. next = [cur EXCEPT !.processed_requests = cur.processed_requests + 1,
                                 !.popped = cur.popped + 1]
            OBVIOUS
        <3> HIDE DEF next
        <3> QED BY <1>2, <3>1, <3>2 DEF Frame
    <2> HIDE DEF rest, next
    <2>6. /\ c \in ClientConnection /\ c.input_buffer = rest
          /\ c.output_buffer = me.output_buffer /\ c.armed = me.armed
          /\ c.wire = me.wire /\ c.responses = me.responses
          /\ c.keep_alive_enabled = me.keep_alive_enabled
          /\ c.waiting_for_request_body = me.waiting_for_request_body
          /\ c.pending_body_bytes_remaining = me.pending_body_bytes_remaining
          /\ c.in_ready_queue = me.in_ready_queue /\ c.ready_for_read = me.ready_for_read
        BY <1>2, <2>4 DEF ClientConnection
    <2>7. CASE Reject(me)
        BY <1>1, <1>2, <2>7, HandlerRejectData
    <2>8. CASE /\ owed > 0
               /\ Keep(BeginRequestBodyReceive(c, request))
               /\ pc' = "consume" /\ cur' = [next EXCEPT !.back = "tail"]
        <3> DEFINE b == BeginRequestBodyReceive(c, request)
        <3>1. /\ b.input_buffer = rest /\ b.output_buffer = me.output_buffer
              /\ b.wire = me.wire /\ b.responses = me.responses
              /\ b.keep_alive_enabled = me.keep_alive_enabled
              /\ b.waiting_for_request_body = TRUE /\ b.armed = {"body"}
              /\ b.pending_body_bytes_remaining = owed
            BY <2>6 DEF BeginRequestBodyReceive, ArmBodyTimeout, ClientConnection
        <3>2. ~NoBodies
            BY <2>2, <2>8 DEF NoBodies
        <3>3. clients' = [clients EXCEPT ![cur.fd] = b] /\ UNCHANGED pending_close_queue
            BY <2>8 DEF Keep
        <3>4. /\ cur' \in Frame /\ cur'.fd = cur.fd /\ cur'.origin = cur.origin
              /\ cur'.back = "tail"
            BY <2>5, <2>8 DEF Frame
        <3> HIDE DEF b, c
        <3>5. Whole(b) /\ Framed(b)
            BY <1>2, <2>4, <3>1 DEF Whole, Framed
        <3>6. Course(b, "consume", cur'.reading)
            BY <1>2, <3>1, <3>2 DEF Course, Timed
        <3>7. FrameInv'
            BY <2>8, <3>2, <3>4 DEF FrameInv
        <3> QED BY <1>1, <2>8, <3>3, <3>4, <3>5, <3>6, <3>7, GoesOnData DEF HandlerPoints
    <2>9. CASE /\ ~(owed > 0)
               /\ Keep(c)
               /\ pc' = "respond"
               /\ cur' = [next EXCEPT !.request = request, !.back = "process"]
        <3>1. owed = 0
            BY <2>2, <2>9
        <3>2. clients' = [clients EXCEPT ![cur.fd] = c] /\ UNCHANGED pending_close_queue
            BY <2>9 DEF Keep
        <3>3. /\ cur' \in Frame /\ cur'.fd = cur.fd /\ cur'.origin = cur.origin
              /\ cur'.back = "process" /\ cur'.reading = cur.reading
            BY <2>2, <2>5, <2>9 DEF Frame
        <3> HIDE DEF c
        <3>4. Whole(c) /\ Framed(c)
            BY <1>2, <2>3, <2>4, <2>6, <3>1 DEF Whole, Framed
        <3>5. Timed(c, "respond")
            BY <1>2, <2>3, <2>6 DEF Course, Timed
        <3>6. NoBodies => Scheduled(c, "respond", cur.reading)
            BY <1>3, <2>3, <2>6 DEF Scheduled
        <3>7. FrameInv'
            BY <2>9, <3>3 DEF FrameInv
        <3>8. Course(c, "respond", cur'.reading)
            BY <3>3, <3>5, <3>6 DEF Course
        <3> QED BY <1>1, <2>9, <3>2, <3>3, <3>4, <3>7, <3>8, GoesOnData DEF HandlerPoints
    <2> QED BY <2>1, <2>7, <2>8, <2>9 DEF rest
<1>5. CASE TailRequeues
    <2> DEFINE d == [me EXCEPT !.in_ready_queue = TRUE]
    <2>1. /\ clients' = [clients EXCEPT ![cur.fd] = d] /\ UNCHANGED pending_close_queue
          /\ Return /\ pc = "tail"
        BY <1>5 DEF TailRequeues, Requeue, EnqueueReadyConnection
    <2>2. Timed(me, "wait")
        BY <1>2, <2>1 DEF Course, Timed
    <2>3. Whole(d) /\ Framed(d) /\ Course(d, "wait", FALSE)
        BY <1>2, <1>3, <2>2, QueuedData
    <2> HIDE DEF d
    <2> QED BY <1>1, <2>1, <2>3, ReturnsData
<1>6. CASE TailCloses
    BY <1>1, <1>2, <1>6, HandlerCloseData DEF TailCloses
<1>7. CASE TailArms
    <2> DEFINE armed == IF me.input_buffer = << >> THEN (me.armed \ {"header"}) \cup {"idle"}
                        ELSE (me.armed \ {"idle"}) \cup {"header"}
               c == IF me.input_buffer = << >> THEN ArmIdleKeepAliveTimeout(me)
                    ELSE ArmHeaderTimeout(me)
    <2>1. /\ clients' = [clients EXCEPT ![cur.fd] = UpdateClientPollMask(c)]
          /\ UNCHANGED pending_close_queue /\ pc' = AfterProcess /\ cur' = cur
          /\ pc = "tail" /\ ~me.waiting_for_request_body
          /\ ~HasCompleteHeader(me.input_buffer) /\ ~me.ready_for_read
        BY <1>7 DEF TailArms, Keep, Goto
    <2>2. c = [me EXCEPT !.armed = armed] /\ armed \in SUBSET TimerKind
        BY <1>2 DEF ArmIdleKeepAliveTimeout, ArmHeaderTimeout, ClientConnection, TimerKind
    <2>3. me.responses = 0 => "header" \in armed
        BY <1>2, <2>1 DEF Course, Timed
    <2> HIDE DEF armed, c
    <2>4. /\ pc' \in {"chunk", "continue_read"} /\ pc' \in HandlerPoints
          /\ pc' = "chunk" => cur.reading
        BY <2>1 DEF AfterProcess, HandlerPoints
    <2>5. c \in ClientConnection /\ Whole(c) /\ Framed(c)
        BY <1>2, <2>2 DEF Whole, Framed, ClientConnection
    <2>6. Timed(c, pc')
        BY <1>2, <2>1, <2>2, <2>3, <2>4 DEF Course, Timed, ClientConnection
    <2>7. Scheduled(c, pc', cur.reading)
        BY <1>2, <2>1, <2>2 DEF Scheduled, ClientConnection
    <2>8. LET d == UpdateClientPollMask(c)
          IN  Whole(d) /\ Framed(d) /\ Course(d, pc', cur'.reading)
        BY <2>1, <2>5, <2>6, <2>7, MaskData DEF Course
    <2>9. FrameInv'
        BY <2>1, <2>4 DEF FrameInv
    <2> QED BY <1>1, <1>2, <2>1, <2>4, <2>8, <2>9, GoesOnData
<1> QED BY <1>4, <1>5, <1>6, <1>7

(* ConsumePendingRequestBody. *)
LEMMA ConsumeData ==
    ASSUME DInv, Inv', ConsumePart \/ ConsumeRest
    PROVE  DInv'
PROOF
<1>1. pc = "consume" /\ Handling
    BY DEF ConsumePart, ConsumeRest, Handling, HandlerPoints
<1>2. /\ cur \in Frame /\ cur.fd \in DOMAIN clients /\ me \in ClientConnection
      /\ me.input_buffer \in Seq(Token) /\ me.pending_body_bytes_remaining \in Nat
      /\ Whole(me) /\ Framed(me) /\ Course(me, "consume", cur.reading)
    BY <1>1, HandledData DEF ClientConnection
<1>3. /\ ~NoBodies /\ cur.back \in {"tail", "chunk", "continue_parse"}
      /\ cur.back = "chunk" => cur.reading
    BY <1>1, <1>2 DEF DInv, FrameInv, Frame
<1>4. CASE ConsumePart
    <2> DEFINE rest == me.pending_body_bytes_remaining - Len(me.input_buffer)
               c == [me EXCEPT !.input_buffer = << >>, !.pending_body_bytes_remaining = rest]
    <2>1. /\ clients' = [clients EXCEPT ![cur.fd] = c] /\ UNCHANGED pending_close_queue
          /\ pc' = cur.back /\ cur' = cur
          /\ Len(me.input_buffer) < me.pending_body_bytes_remaining
        BY <1>4 DEF ConsumePart, Keep, Goto
    <2>2. me.waiting_for_request_body
        BY <1>2, <2>1 DEF Framed
    <2> HIDE DEF rest
    <2>3. /\ c.input_buffer = << >> /\ c.wire = me.wire /\ c.output_buffer = me.output_buffer
          /\ c.responses = me.responses /\ c.armed = me.armed
          /\ c.keep_alive_enabled = me.keep_alive_enabled
          /\ c.waiting_for_request_body = me.waiting_for_request_body
        BY <1>2 DEF ClientConnection
    <2> HIDE DEF c
    <2>4. Whole(c) /\ Framed(c)
        BY <1>2, <2>2, <2>3 DEF Whole, Framed, WellFramed
    <2>5. Course(c, pc', cur'.reading)
        BY <1>2, <1>3, <2>1, <2>2, <2>3 DEF Course, Timed
    <2>6. FrameInv'
        BY <1>3, <2>1 DEF FrameInv
    <2>7. pc' \in HandlerPoints
        BY <1>3, <2>1 DEF HandlerPoints
    <2> QED BY <1>1, <1>2, <2>1, <2>4, <2>5, <2>6, <2>7, GoesOnData
<1>5. CASE ConsumeRest
    <2> DEFINE n == me.pending_body_bytes_remaining
               rest == ConsumePrefix(me.input_buffer, n)
               c == DisarmBodyTimeout([me EXCEPT !.input_buffer = rest,
                                                 !.pending_body_bytes_remaining = 0,
                                                 !.waiting_for_request_body = FALSE,
                                                 !.pending_request = NoRequest])
    <2>1. /\ clients' = [clients EXCEPT ![cur.fd] = c] /\ UNCHANGED pending_close_queue
          /\ pc' = "respond" /\ cur' = [cur EXCEPT !.request = me.pending_request]
          /\ n \in 0..Len(me.input_buffer)
        BY <1>2, <1>5 DEF ConsumeRest, Keep
    <2>2. WellFramed(rest, 0)
        BY <1>2, <2>1, BodyKeepsFraming DEF Framed
    <2> HIDE DEF rest
    <2>3. /\ c.input_buffer = rest /\ c.wire = me.wire /\ c.output_buffer = me.output_buffer
          /\ c.responses = me.responses
          /\ c.keep_alive_enabled = me.keep_alive_enabled
          /\ c.waiting_for_request_body = FALSE /\ c.pending_body_bytes_remaining = 0
        BY <1>2 DEF DisarmBodyTimeout, ClientConnection
    <2> HIDE DEF c
    <2>4. Whole(c) /\ Framed(c)
        BY <1>2, <2>2, <2>3 DEF Whole, Framed
    <2>5. /\ cur' \in Frame /\ cur'.fd = cur.fd /\ cur'.origin = cur.origin
          /\ cur'.reading = cur.reading /\ cur'.back = cur.back
        <3>1. me.pending_request \in Requests \cup {NoRequest}
            BY <1>2 DEF ClientConnection
        <3> QED BY <1>2, <2>1, <3>1 DEF Frame
    <2>6. Course(c, "respond", cur'.reading)
        BY <1>2, <1>3, <2>3 DEF Course, Timed
    <2>7. FrameInv'
        BY <1>3, <2>1, <2>5 DEF FrameInv
    <2> QED BY <1>1, <2>1, <2>4, <2>5, <2>6, <2>7, GoesOnData DEF HandlerPoints
<1> QED BY <1>4, <1>5

(* StartOkResponse, and a write() that fails. *)
LEMMA RespondData ==
    ASSUME DInv, Inv', \/ RespondLater \/ RespondNow \/ RespondOverBudget
                       \/ WriteFails \/ BrokenPipe
    PROVE  DInv'
PROOF
<1>1. pc \in {"respond", "flush"} /\ Handling
    BY DEF RespondLater, RespondNow, RespondOverBudget, WriteFails, BrokenPipe, Writing,
           Handling, HandlerPoints
<1>2. /\ cur \in Frame /\ cur.fd \in DOMAIN clients /\ me \in ClientConnection
      /\ cur.reading \in BOOLEAN
      /\ Whole(me) /\ Framed(me) /\ Course(me, pc, cur.reading)
      /\ me.output_buffer \in Nat /\ me.wire \in Nat /\ me.responses + 1 \in Nat
      /\ ResponseSize \in Nat /\ ResponseSize > 0
    BY <1>1, HandledData, Sizes DEF ClientConnection, Frame
<1>3. NoBodies => ~me.waiting_for_request_body /\ Scheduled(me, pc, cur.reading)
    BY <1>1, NoBodiesNoWait
<1> DEFINE a == Answered
<1>4. a \in ClientConnection
    <2>1. KeepAlive \in BOOLEAN
        BY DEF KeepAlive
    <2> DEFINE last == me.close_after_write \/ ~KeepAlive
    <2>2. last \in BOOLEAN
        OBVIOUS
    <2>3. a = [me EXCEPT !.armed = me.armed \ {"header", "idle"},
                         !.keep_alive_enabled = KeepAlive,
                         !.close_after_write = last,
                         !.responses = me.responses + 1]
        BY DEF Answered
    <2> HIDE DEF last, a
    <2> QED BY <1>2, <2>1, <2>2, <2>3 DEF ClientConnection
<1>5. /\ a.in_ready_queue = me.in_ready_queue /\ a.ready_for_read = me.ready_for_read
      /\ a.output_buffer = me.output_buffer /\ a.wire = me.wire
      /\ a.responses = me.responses + 1
      /\ a.waiting_for_request_body = me.waiting_for_request_body
      /\ a.input_buffer = me.input_buffer
      /\ a.pending_body_bytes_remaining = me.pending_body_bytes_remaining
    BY <1>2 DEF Answered, ClientConnection
<1> HIDE DEF a
<1>6. ResponseSize * (me.responses + 1) = me.wire + me.output_buffer + ResponseSize
    <2>1. me.responses \in Nat
        BY <1>2 DEF ClientConnection
    <2>2. ResponseSize * (me.responses + 1) = ResponseSize * me.responses + ResponseSize
        BY <1>2, <2>1
    <2>3. me.wire + me.output_buffer = ResponseSize * me.responses
        BY <1>2 DEF Whole
    <2> QED BY <1>2, <2>2, <2>3
(* However much of the response the socket takes, the rest is buffered. *)
<1>7. ASSUME NEW n \in 0..ResponseSize, pc = "respond",
             NEW c, c = [a EXCEPT !.wire = me.wire + n,
                                  !.output_buffer = me.output_buffer + (ResponseSize - n)]
      PROVE  /\ c \in ClientConnection /\ Whole(c) /\ Framed(c)
             /\ me.output_buffer = 0 \/ n = 0 =>
                   /\ cur.back \in HandlerPoints
                   /\ Course(c, cur.back, cur.reading)
    <2> DEFINE wire == me.wire + n
               output == me.output_buffer + (ResponseSize - n)
    <2>1. wire \in Nat /\ output \in Nat /\ wire + output = ResponseSize * (me.responses + 1)
        BY <1>2, <1>6
    <2>2. me.output_buffer > 0 /\ n = 0 => output > 0
        BY <1>2
    <2>3. c = [a EXCEPT !.wire = wire, !.output_buffer = output]
        BY <1>7
    <2> HIDE DEF wire, output
    <2>4. c \in ClientConnection
        BY <1>4, <2>1, <2>3 DEF ClientConnection
    <2>5. /\ c.in_ready_queue = me.in_ready_queue /\ c.ready_for_read = me.ready_for_read
          /\ c.output_buffer = output /\ c.wire = wire
          /\ c.responses = me.responses + 1
          /\ c.waiting_for_request_body = me.waiting_for_request_body
          /\ c.input_buffer = me.input_buffer
          /\ c.pending_body_bytes_remaining = me.pending_body_bytes_remaining
        BY <1>4, <1>5, <2>3 DEF ClientConnection
    <2>6. Whole(c) /\ Framed(c)
        BY <1>2, <2>1, <2>5 DEF Whole, Framed
    <2>7. ASSUME me.output_buffer = 0 \/ n = 0
          PROVE  /\ cur.back \in HandlerPoints
                 /\ Course(c, cur.back, cur.reading)
        <3>1. cur.back \in {"process", "tail", "chunk", "continue_parse"}
            BY <1>2 DEF Frame
        <3>2. NoBodies => cur.back = "process"
            BY <1>7 DEF DInv, FrameInv
        <3>3. c.responses > 0
            <4>1. me.responses \in Nat
                BY <1>2 DEF ClientConnection
            <4> QED BY <4>1, <2>5
        <3>4. ~c.waiting_for_request_body
            BY <1>2, <1>7, <2>5 DEF Course, Timed
        <3>5. Timed(c, cur.back)
            BY <3>1, <3>3, <3>4 DEF Timed
        <3>6. me.output_buffer > 0 => output > 0
            BY <1>2, <2>2, <2>7
        <3>7. NoBodies => Scheduled(c, cur.back, cur.reading)
            BY <1>3, <1>7, <2>5, <3>2, <3>4, <3>6 DEF Scheduled
        <3> QED BY <3>1, <3>5, <3>7 DEF Course, HandlerPoints
    <2> QED BY <2>4, <2>6, <2>7
(* The caller goes on. *)
<1>8. ASSUME NEW n \in 0..ResponseSize, pc = "respond", me.output_buffer = 0 \/ n = 0,
             NEW c, c = [a EXCEPT !.wire = me.wire + n,
                                  !.output_buffer = me.output_buffer + (ResponseSize - n)],
             Keep(c) \/ Keep(UpdateClientPollMask(c)),
             pc' = cur.back, cur' \in Frame, cur'.fd = cur.fd, cur'.origin = cur.origin,
             cur'.reading = cur.reading, cur'.back = cur.back
      PROVE  DInv'
    <2>1. /\ c \in ClientConnection /\ Whole(c) /\ Framed(c)
          /\ cur.back \in HandlerPoints /\ Course(c, cur.back, cur.reading)
        BY <1>7, <1>8
    <2>2. PICK d \in {c, UpdateClientPollMask(c)} : Keep(d)
        BY <1>8
    <2>3. Whole(d) /\ Framed(d) /\ Course(d, cur.back, cur.reading)
        BY <2>1, <2>2, MaskData
    <2>4. FrameInv'
        <3>1. cur.back \in {"process", "tail", "chunk", "continue_parse"}
            BY <1>2 DEF Frame
        <3>2. /\ cur.back = "chunk" => cur.reading
              /\ NoBodies => cur.back = "process"
            BY <1>8 DEF DInv, FrameInv
        <3> QED BY <1>8, <3>1, <3>2 DEF FrameInv
    <2>5. clients' = [clients EXCEPT ![cur.fd] = d] /\ UNCHANGED pending_close_queue
        BY <2>2 DEF Keep
    <2> QED BY <1>1, <1>8, <2>1, <2>3, <2>4, <2>5, GoesOnData
<1>9. CASE RespondLater
    <2>1. pc = "respond"
        BY <1>9 DEF RespondLater
    <2>2. CASE OverBudget(ResponseSize)
        BY <1>1, <1>4, <1>9, <2>2, HandlerRejectData DEF RespondLater, a
    <2>3. CASE ~OverBudget(ResponseSize)
        <3>1. /\ Keep(UpdateClientPollMask([a EXCEPT !.output_buffer = @ + ResponseSize]))
              /\ ResumeCaller
            BY <1>9, <2>3 DEF RespondLater, a
        <3> DEFINE c == [a EXCEPT !.wire = me.wire + 0,
                                  !.output_buffer = me.output_buffer + (ResponseSize - 0)]
        <3>2. [a EXCEPT !.output_buffer = @ + ResponseSize] = c
            <4> DEFINE output == me.output_buffer + ResponseSize
            <4>1. me.wire + 0 = me.wire /\ me.output_buffer + (ResponseSize - 0) = output
                BY <1>2
            <4> HIDE DEF output
            <4>2. c = [a EXCEPT !.wire = me.wire, !.output_buffer = output]
                BY <4>1
            <4>3. [a EXCEPT !.output_buffer = @ + ResponseSize]
                     = [a EXCEPT !.output_buffer = output]
                BY <1>5 DEF output
            <4> HIDE DEF c
            <4> QED BY <1>4, <1>5, <4>2, <4>3 DEF ClientConnection
        <3>3. /\ pc' = cur.back /\ cur' \in Frame /\ cur'.fd = cur.fd
              /\ cur'.origin = cur.origin /\ cur'.reading = cur.reading
              /\ cur'.back = cur.back
            BY <1>2, <3>1 DEF ResumeCaller, Frame
        <3>4. Keep(UpdateClientPollMask(c)) /\ 0 \in 0..ResponseSize
            BY <1>2, <3>1, <3>2
        <3>5. PICK d : d = c
            OBVIOUS
        <3> HIDE DEF c
        <3>6. Keep(UpdateClientPollMask(d))
            BY <3>4, <3>5
        <3>7. d = [a EXCEPT !.wire = me.wire + 0,
                            !.output_buffer = me.output_buffer + (ResponseSize - 0)]
            BY <3>5 DEF c
        <3> QED BY <1>8, <2>1, <3>3, <3>4, <3>6, <3>7
    <2> QED BY <2>2, <2>3
<1>10. CASE RespondNow
    <2>1. PICK n \in 0..ResponseSize :
              LET sent == [a EXCEPT !.wire = @ + n]
                  rest == ResponseSize - n
              IN  /\ n <= cur.write_remaining
                  /\ \/ rest = 0 /\ Keep(sent)
                     \/ Keep(UpdateClientPollMask([sent EXCEPT !.output_buffer = rest]))
                  /\ pc' = cur.back
                  /\ cur' = [cur EXCEPT !.write_remaining = @ - n, !.request = NoRequest]
        BY <1>10 DEF RespondNow, a
    <2>2. pc = "respond" /\ me.output_buffer = 0
        BY <1>10 DEF RespondNow
    <2> DEFINE rest == ResponseSize - n
               c == [a EXCEPT !.wire = me.wire + n,
                              !.output_buffer = me.output_buffer + (ResponseSize - n)]
    <2>3. n \in Nat /\ rest \in Nat /\ me.output_buffer + (ResponseSize - n) = rest
        BY <1>2, <2>2
    <2>4. /\ [[a EXCEPT !.wire = @ + n] EXCEPT !.output_buffer = rest] = c
          /\ rest = 0 => [a EXCEPT !.wire = @ + n] = c
        <3> HIDE DEF rest
        <3>1. c = [a EXCEPT !.wire = me.wire + n, !.output_buffer = rest]
            BY <2>3
        <3> HIDE DEF c
        <3> QED BY <1>4, <1>5, <2>2, <3>1 DEF ClientConnection
    <2>5. /\ pc' = cur.back /\ cur' \in Frame /\ cur'.fd = cur.fd
          /\ cur'.origin = cur.origin /\ cur'.reading = cur.reading
          /\ cur'.back = cur.back
        <3>1. cur.write_remaining - n \in Nat
            BY <1>2, <2>1, <2>3 DEF Frame
        <3>2. /\ pc' = cur.back
              /\ cur' = [cur EXCEPT !.write_remaining = cur.write_remaining - n,
                                    !.request = NoRequest]
            BY <2>1
        <3> QED BY <1>2, <3>1, <3>2 DEF Frame
    <2>6. Keep(c) \/ Keep(UpdateClientPollMask(c))
        <3>1. CASE rest = 0 /\ Keep([a EXCEPT !.wire = @ + n])
            BY <2>4, <3>1
        <3>2. CASE Keep(UpdateClientPollMask([[a EXCEPT !.wire = @ + n]
                                                 EXCEPT !.output_buffer = rest]))
            <4> HIDE DEF c, rest
            <4> QED BY <2>4, <3>2
        <3> QED BY <2>1, <3>1, <3>2
    <2>7. PICK d : d = c
        OBVIOUS
    <2>8. d = [a EXCEPT !.wire = me.wire + n,
                        !.output_buffer = me.output_buffer + (ResponseSize - n)]
        BY <2>7
    <2> HIDE DEF c
    <2>9. Keep(d) \/ Keep(UpdateClientPollMask(d))
        BY <2>6, <2>7
    <2> QED BY <1>8, <2>2, <2>5, <2>8, <2>9
<1>11. CASE RespondOverBudget
    <2>1. PICK n \in 0..ResponseSize - 1 : Reject([a EXCEPT !.wire = @ + n])
        BY <1>11 DEF RespondOverBudget, a
    <2>2. me.wire + n \in Nat
        BY <1>2
    <2>3. [a EXCEPT !.wire = @ + n] \in ClientConnection
        BY <1>4, <1>5, <2>2 DEF ClientConnection
    <2> QED BY <1>1, <2>1, <2>3, HandlerRejectData
<1>12. CASE WriteFails
    <2>1. PICK c \in {a, me} : Close(c, "peer")
        BY <1>12 DEF WriteFails, a
    <2> QED BY <1>1, <1>2, <1>4, <2>1, HandlerCloseData
<1>13. CASE BrokenPipe
    BY <1>13, ExitData DEF BrokenPipe, Exit
<1> QED BY <1>9, <1>10, <1>11, <1>12, <1>13

-----------------------------------------------------------------------------
(* The invariant, and what follows from it.                                *)

(* A server with no connections has nothing wrong with them. *)
LEMMA InitDInv == Init => DInv
PROOF
<1> SUFFICES ASSUME Init PROVE DInv
    OBVIOUS
<1>1. DOMAIN clients = {} /\ pc = "ready" /\ pending_close_queue = {}
    BY DEF Init
<1>2. DataInv /\ FrameInv /\ CloseInv
    BY <1>1 DEF DataInv, FrameInv, CloseInv
<1> QED BY <1>2, InitInv DEF DInv

(* Every action keeps the invariant. *)
LEMMA NextDInv == DInv /\ [Next]_vars => DInv'
PROOF
<1> SUFFICES ASSUME DInv, [Next]_vars PROVE DInv'
    OBVIOUS
<1>1. Inv'
    BY NextInv DEF DInv
<1>2. CASE PopReady
    BY <1>1, <1>2, PopReadyData
<1>3. CASE LoopStep
    BY <1>1, <1>3, LoopStepData
<1>4. CASE ExpireTimer \/ HandleHangUp \/ EnforceConnectionLimit
    BY <1>1, <1>4, LoopClosesData
<1>5. CASE HandleClientEvent
    BY <1>1, <1>5, HandleClientEventData
<1>6. CASE RegisterAcceptedConnection
    BY <1>1, <1>6, RegisterData
<1>7. CASE HandlerMove
    BY <1>1, <1>7, HandlerMoveData
<1>8. CASE \/ FlushWrites \/ FlushPauses \/ FlushedRequeues \/ FlushedCloses \/ FlushedIdles
    BY <1>1, <1>8, FlushData
<1>9. CASE \/ ContinueWithRead \/ EventRead \/ ReadSome \/ ReadEnds \/ CheckHeaderLimit
           \/ ChunkDone
    BY <1>1, <1>9, ReadData
<1>10. CASE \/ ProcessHeader \/ TailRequeues \/ TailCloses \/ TailArms
    BY <1>1, <1>10, ProcessData
<1>11. CASE ConsumePart \/ ConsumeRest
    BY <1>1, <1>11, ConsumeData
<1>12. CASE \/ RespondLater \/ RespondNow \/ RespondOverBudget \/ WriteFails \/ BrokenPipe
    BY <1>1, <1>12, RespondData
<1>13. CASE Exited \/ UNCHANGED vars
    <2>1. UNCHANGED <<clients, pending_close_queue, pc, cur>>
        BY <1>13 DEF Exited, vars, conns
    <2> QED BY <1>1, <2>1
        DEF DInv, DataInv, FrameInv, CloseInv, Reading, Handling, PointOf
<1> QED BY <1>2, <1>3, <1>4, <1>5, <1>6, <1>7, <1>8, <1>9, <1>10, <1>11, <1>12, <1>13
    DEF Next, LoopStep, HandlerMove

(* DInv holds for ever. *)
LEMMA DataInvariance == Spec => []DInv
PROOF
BY InitDInv, NextDInv, PTL DEF Spec

(* Every byte of every 200 response is on the wire or in the output buffer *)
(* through every partial write, append and flush, and a connection closed  *)
(* as done, idle or slow to send a header was sent all of them.            *)
THEOREM ResponsesStayWhole == Spec => []ResponsesAreWhole
PROOF
<1>1. DInv => ResponsesAreWhole
    BY DEF DInv, DataInv, CloseInv, Whole, ResponsesAreWhole
<1> QED BY <1>1, DataInvariance, PTL

(* However headers and bodies are cut into reads and budgets, no byte of a *)
(* body is looked at as the start of a header.                             *)
THEOREM HeadersStayFramed == Spec => []HeadersAreFramed
PROOF
<1>1. ASSUME DInv, NEW fd \in DOMAIN clients,
             ~clients[fd].waiting_for_request_body, clients[fd].input_buffer # << >>
      PROVE  clients[fd].input_buffer[1] # BodyByte
    <2> DEFINE in == clients[fd].input_buffer
    <2>1. WellFramed(in, 0) /\ in \in Seq(Token)
        BY <1>1, OpenConnections DEF DInv, DataInv, Framed, Inv, ClientConnection
    <2>2. 1 \in 1..Len(in) /\ HeaderEnds(in) \subseteq 1..Len(in)
        BY <1>1, <2>1 DEF HeaderEnds
    <2> HIDE DEF in
    <2>3. {j \in HeaderEnds(in) : j < 1} = {}
        BY <2>2
    <2>4. ~Owed(in, 0, 1)
        BY <2>3 DEF Owed
    <2> QED BY <2>1, <2>2, <2>4 DEF WellFramed, in
<1>2. DInv => HeadersAreFramed
    BY <1>1 DEF HeadersAreFramed
<1> QED BY <1>2, DataInvariance, PTL

(* Until its first response is built a connection is always under the      *)
(* header or the body timer when the loop waits: one that never completes  *)
(* a request is not kept for ever.                                         *)
THEOREM FirstRequestIsTimed == Spec => []FirstRequestTimed
PROOF
<1>1. DInv => FirstRequestTimed
    <2> SUFFICES ASSUME DInv, pc = "wait", NEW fd \in DOMAIN clients,
                        clients[fd].responses = 0
                 PROVE  clients[fd].armed \cap {"header", "body"} # {}
        BY DEF FirstRequestTimed
    <2>1. ~Handling /\ pc # "exited"
        BY DEF Handling, HandlerPoints
    <2> QED BY <2>1, WaitingData DEF Course, Timed
<1> QED BY <1>1, DataInvariance, PTL

(* While requests have no body, a connection whose input buffer holds a    *)
(* complete header is queued, or waits for its output to be sent, whenever *)
(* the loop waits: it does not depend on another EPOLLIN.                  *)
THEOREM BufferedRequestsStayScheduled ==
    ASSUME NoBodies
    PROVE  Spec => []BufferedRequestsScheduled
PROOF
<1>1. DInv => BufferedRequestsScheduled
    <2> SUFFICES ASSUME DInv, pc = "wait", NEW fd \in DOMAIN clients,
                        HasCompleteHeader(clients[fd].input_buffer)
                 PROVE  clients[fd].in_ready_queue \/ clients[fd].output_buffer > 0
        BY DEF BufferedRequestsScheduled
    <2>1. ~Handling /\ pc # "exited"
        BY DEF Handling, HandlerPoints
    <2> QED BY <2>1, WaitingData DEF Course, Scheduled
<1> QED BY <1>1, DataInvariance, PTL

(* While requests have no body, a read cut off by its budget is taken up   *)
(* again: the connection is queued, or waits for its output to be sent.    *)
THEOREM ReadsStayContinued ==
    ASSUME NoBodies
    PROVE  Spec => []ReadsAreContinued
PROOF
<1>1. DInv => ReadsAreContinued
    <2> SUFFICES ASSUME DInv, pc = "wait", NEW fd \in DOMAIN clients,
                        clients[fd].ready_for_read
                 PROVE  clients[fd].in_ready_queue \/ clients[fd].output_buffer > 0
        BY DEF ReadsAreContinued
    <2>1. ~Handling /\ pc # "exited"
        BY DEF Handling, HandlerPoints
    <2> QED BY <2>1, WaitingData DEF Course, Scheduled
<1> QED BY <1>1, DataInvariance, PTL

-----------------------------------------------------------------------------
(* Nobody is forgotten: while no body is received and no read is cut off,  *)
(* what a handler leaves behind always has something that takes it up.     *)

AllPlain == \A fd \in DOMAIN clients : Plain(clients[fd])

(* The connection has an end to wait for, but where a handler is about to  *)
(* give it one.                                                            *)
Minded(c, point) ==
    /\ c.responses > 0 => c.keep_alive_enabled \/ c.close_after_write
    /\ HasCompleteHeader(c.input_buffer) =>
          \/ c.in_ready_queue \/ c.output_buffer > 0
          \/ point \in {"flush", "continue", "check_header", "process", "respond", "tail"}
    /\ \/ c.armed # {} \/ c.output_buffer > 0 \/ HasCompleteHeader(c.input_buffer)
       \/ point \in {"flush", "process", "respond", "tail"}

MindedInv ==
    pc # "exited" =>
        /\ pc \notin {"consume", "continue_parse"}
        /\ pc = "respond" => cur.back = "process"
        /\ \A fd \in DOMAIN clients : Minded(clients[fd], PointOf(fd))

MInv == DInv /\ AllPlain /\ MindedInv

(* The one connection that changes is minded, the others are left alone. *)
LEMMA MindedStep ==
    ASSUME MindedInv, pc # "exited", NEW fd,
           Handling => fd = cur.fd,
           pc' \in HandlerPoints => cur'.fd = fd,
           \A f \in DOMAIN clients' \ {fd} : f \in DOMAIN clients /\ clients'[f] = clients[f],
           fd \in DOMAIN clients' => Minded(clients'[fd], Point(pc')),
           pc' \notin {"consume", "continue_parse"},
           pc' = "respond" => cur'.back = "process"
    PROVE  MindedInv'
PROOF
<1>1. ASSUME NEW f \in DOMAIN clients' PROVE Minded(clients'[f], PointOf(f)')
    <2>1. CASE f = fd
        <3>1. PointOf(fd)' = Point(pc')
            BY DEF PointOf, Point, Handling
        <3> QED BY <2>1, <3>1
    <2>2. CASE f # fd
        <3>1. PointOf(f) = "wait" /\ PointOf(f)' = "wait"
            BY <2>2 DEF PointOf, Handling
        <3>2. f \in DOMAIN clients /\ clients'[f] = clients[f]
            BY <2>2
        <3> QED BY <3>1, <3>2 DEF MindedInv
    <2> QED BY <2>1, <2>2
<1> QED BY <1>1 DEF MindedInv

(* A connection is closed. *)
LEMMA MindedClose ==
    ASSUME MindedInv, pc # "exited", NEW fd, NEW c, NEW reason,
           Handling => fd = cur.fd, pc' \in LoopPoints,
           CloseClientConnection(fd, c, reason)
    PROVE  MindedInv'
PROOF
<1>1. /\ fd \notin DOMAIN clients'
      /\ \A f \in DOMAIN clients' : f \in DOMAIN clients /\ clients'[f] = clients[f]
    BY DEF CloseClientConnection, Restrict
<1>2. pc' \notin HandlerPoints /\ pc' \notin {"consume", "continue_parse", "respond"}
    BY DEF LoopPoints, HandlerPoints
<1> QED BY <1>1, <1>2, MindedStep

(* The loop goes from one phase to the next. *)
LEMMA MindedLoop ==
    ASSUME MindedInv, ~Handling, pc # "exited", pc' \in LoopPoints, UNCHANGED clients
    PROVE  MindedInv'
PROOF
<1>1. pc' \notin HandlerPoints /\ pc' \notin {"consume", "continue_parse", "respond"}
    BY DEF LoopPoints, HandlerPoints
<1>2. \A fd \in DOMAIN clients : PointOf(fd) = "wait" /\ PointOf(fd)' = "wait"
    BY <1>1 DEF PointOf, Handling
<1> QED BY <1>1, <1>2 DEF MindedInv

(* What the invariant says of the connection a handler works on. *)
LEMMA HandledIsMinded ==
    ASSUME MInv, Handling
    PROVE  /\ cur \in Frame /\ cur.fd \in DOMAIN clients /\ me \in ClientConnection
           /\ me.input_buffer \in Seq(Token) /\ me.output_buffer \in Nat
           /\ Minded(me, pc) /\ Plain(me) /\ Timed(me, pc)
           /\ pc # "exited" /\ pc \notin {"consume", "continue_parse"}
           /\ pc = "respond" => cur.back = "process"
           /\ clients = [clients EXCEPT ![cur.fd] = me]
PROOF
<1>1. /\ cur \in Frame /\ cur.fd \in DOMAIN clients /\ me \in ClientConnection
      /\ me.input_buffer \in Seq(Token) /\ Course(me, pc, cur.reading) /\ pc # "exited"
    BY HandledData DEF MInv
<1>2. PointOf(cur.fd) = pc
    BY DEF PointOf
<1>3. Minded(me, pc) /\ Plain(me)
    BY <1>1, <1>2 DEF MInv, MindedInv, AllPlain, me
<1>4. pc \notin {"consume", "continue_parse"} /\ (pc = "respond" => cur.back = "process")
    BY <1>1 DEF MInv, MindedInv
<1>5. clients = [clients EXCEPT ![cur.fd] = me]
    BY OpenConnections DEF MInv, DInv, Inv, me
<1>6. me.output_buffer \in Nat
    BY <1>1 DEF ClientConnection
<1> QED BY <1>1, <1>3, <1>4, <1>5, <1>6 DEF Course

(* A handler leaves its connection c, and goes on or returns. *)
LEMMA MindedHandler ==
    ASSUME MInv, Handling, NEW c, NEW point,
           clients' = [clients EXCEPT ![cur.fd] = c],
           \/ /\ pc' = point /\ point \in HandlerPoints \ {"consume", "continue_parse"}
              /\ cur'.fd = cur.fd
           \/ Return /\ point = "wait",
           Minded(c, point),
           point = "respond" => cur'.back = "process"
    PROVE  MindedInv'
PROOF
<1>1. cur \in Frame /\ cur.fd \in DOMAIN clients /\ pc # "exited"
    BY HandledIsMinded
<1>2. /\ clients'[cur.fd] = c
      /\ \A f \in DOMAIN clients' \ {cur.fd} : f \in DOMAIN clients /\ clients'[f] = clients[f]
    BY <1>1
<1>3. /\ Point(pc') = point /\ pc' \notin {"consume", "continue_parse"}
      /\ pc' \in HandlerPoints => cur'.fd = cur.fd
      /\ pc' = "respond" => cur'.back = "process"
    <2>1. CASE Return /\ point = "wait"
        <3>1. pc' \in {"ready", "dispatch"}
            BY <1>1, <2>1 DEF Return, Frame
        <3> QED BY <2>1, <3>1 DEF Point, HandlerPoints
    <2>2. CASE pc' = point /\ point \in HandlerPoints \ {"consume", "continue_parse"}
               /\ cur'.fd = cur.fd
        BY <2>2 DEF Point
    <2> QED BY <2>1, <2>2
<1> QED BY <1>1, <1>2, <1>3, MindedStep DEF MInv

(* A handler closes its connection, with or without an error response. *)
LEMMA MindedHandlerClose ==
    ASSUME MInv, Handling, NEW c, NEW reason, Close(c, reason) \/ Reject(c)
    PROVE  MindedInv'
PROOF
<1>1. cur \in Frame /\ pc # "exited"
    BY HandledIsMinded
<1>2. /\ pc' \in LoopPoints
      /\ \E r : CloseClientConnection(cur.fd, c, r)
    BY <1>1 DEF Close, Reject, SendErrorResponseAndClose, Return, Frame, LoopPoints
<1> QED BY <1>1, <1>2, MindedClose DEF MInv

(* UpdateClientPollMask arms and queues nothing. *)
LEMMA MaskMinds ==
    ASSUME NEW c \in ClientConnection, NEW point
    PROVE  /\ Minded(UpdateClientPollMask(c), point) <=> Minded(c, point)
           /\ Minded([UpdateClientPollMask(c) EXCEPT !.in_ready_queue = TRUE], point)
                 <=> Minded([c EXCEPT !.in_ready_queue = TRUE], point)
PROOF
<1> DEFINE asks == c.output_buffer > 0
           d == UpdateClientPollMask(c)
           queued(x) == [x EXCEPT !.in_ready_queue = TRUE]
<1>1. d = [c EXCEPT !.pollout = asks]
    BY DEF UpdateClientPollMask
<1> HIDE DEF asks, d
<1>2. /\ d.in_ready_queue = c.in_ready_queue
      /\ d.output_buffer = c.output_buffer /\ d.armed = c.armed
      /\ d.input_buffer = c.input_buffer /\ d.keep_alive_enabled = c.keep_alive_enabled
      /\ d.close_after_write = c.close_after_write /\ d.responses = c.responses
    BY <1>1 DEF ClientConnection
<1>3. /\ queued(d).in_ready_queue = queued(c).in_ready_queue
      /\ queued(d).output_buffer = queued(c).output_buffer /\ queued(d).armed = queued(c).armed
      /\ queued(d).input_buffer = queued(c).input_buffer
      /\ queued(d).keep_alive_enabled = queued(c).keep_alive_enabled
      /\ queued(d).close_after_write = queued(c).close_after_write
      /\ queued(d).responses = queued(c).responses
    BY <1>1 DEF ClientConnection
<1> HIDE DEF queued
<1>4. Minded(d, point) <=> Minded(c, point)
    BY <1>2 DEF Minded
<1>5. Minded(queued(d), point) <=> Minded(queued(c), point)
    BY <1>3 DEF Minded
<1> QED BY <1>4, <1>5 DEF d, queued

(* The steps between handlers, and those that begin one. *)
LEMMA LoopMinds ==
    ASSUME MInv, AllPlain',
           \/ PopReady \/ LoopStep \/ ExpireTimer \/ HandleHangUp \/ EnforceConnectionLimit
           \/ HandleClientEvent \/ RegisterAcceptedConnection
    PROVE  MindedInv'
PROOF
<1>1. ~Handling /\ pc # "exited"
    BY DEF PopReady, LoopStep, ExpireTimer, HandleHangUp, EnforceConnectionLimit,
           HandleClientEvent, RegisterAcceptedConnection, ReadyQueueDone, TimersDone, Wait,
           BatchDone, HandleListenEvent, AcceptQueueEmpty, AcceptFails,
           FlushPendingCloseQueue, StopRequested, Handling, HandlerPoints
<1>2. \A fd \in DOMAIN clients :
          clients[fd] \in ClientConnection /\ Minded(clients[fd], "wait")
    <2>1. \A fd \in DOMAIN clients : PointOf(fd) = "wait"
        BY <1>1 DEF PointOf
    <2> QED BY <1>1, <2>1, OpenConnections DEF MInv, MindedInv, DInv, Inv
<1>3. CASE PopReady
    <2> DEFINE fd == Head(ready_queue)
               c  == [clients[fd] EXCEPT !.in_ready_queue = FALSE]
    <2>1. CASE fd \notin DOMAIN clients
        BY <1>1, <1>3, <2>1, MindedLoop DEF PopReady, LoopPoints, MInv
    <2>2. CASE fd \in DOMAIN clients
        <3>1. /\ clients' = [clients EXCEPT ![fd] = c] /\ cur'.fd = fd
              /\ pc' = IF clients[fd].output_buffer > 0 THEN "flush" ELSE "continue"
            BY <1>3, <2>2 DEF PopReady, NewFrame
        <3>2. Minded(c, pc')
            BY <1>2, <2>2, <3>1 DEF Minded, ClientConnection
        <3>3. Point(pc') = pc' /\ pc' \notin {"consume", "continue_parse", "respond"}
            BY <3>1 DEF Point, HandlerPoints
        <3> HIDE DEF c, fd
        <3> QED BY <1>1, <2>2, <3>1, <3>2, <3>3, MindedStep DEF MInv
    <2> QED BY <2>1, <2>2
<1>4. CASE LoopStep
    <2>1. pc' \in LoopPoints \cup {"limit"} /\ UNCHANGED clients
        BY <1>4 DEF LoopStep, ReadyQueueDone, TimersDone, Wait, BatchDone, HandleListenEvent,
               AcceptQueueEmpty, AcceptFails, FlushPendingCloseQueue, StopRequested,
               Exit, Goto, conns, LoopPoints
    <2>2. pc' # "limit"
        BY <1>4 DEF LoopStep, ReadyQueueDone, TimersDone, Wait, BatchDone, HandleListenEvent,
               AcceptQueueEmpty, AcceptFails, FlushPendingCloseQueue, StopRequested,
               Exit, Goto
    <2> QED BY <1>1, <2>1, <2>2, MindedLoop DEF MInv
<1>5. CASE ExpireTimer \/ HandleHangUp \/ EnforceConnectionLimit
    <2>1. /\ pc' \in LoopPoints
          /\ \/ UNCHANGED clients
             \/ \E fd, c, reason : CloseClientConnection(fd, c, reason)
        BY <1>5 DEF ExpireTimer, HandleHangUp, EnforceConnectionLimit, conns, LoopPoints
    <2> QED BY <1>1, <2>1, MindedLoop, MindedClose DEF MInv
<1>6. CASE HandleClientEvent
    <2>1. PICK e \in batch :
              IF e.fd \in DOMAIN clients
              THEN /\ cur' = NewFrame(e.fd, "dispatch", "IN" \in e.events)
                   /\ pc' = IF clients[e.fd].output_buffer > 0 /\ "OUT" \in e.events
                            THEN "flush" ELSE "event_read"
              ELSE UNCHANGED <<pc, cur>>
        BY <1>6 DEF HandleClientEvent
    <2>2. clients' = clients /\ pc = "dispatch"
        BY <1>6 DEF HandleClientEvent, conns
    <2>3. CASE e.fd \notin DOMAIN clients
        BY <1>1, <2>1, <2>2, <2>3, MindedLoop DEF MInv, LoopPoints
    <2>4. CASE e.fd \in DOMAIN clients
        <3>1. cur'.fd = e.fd /\ pc' \in {"flush", "event_read"}
            BY <2>1, <2>4 DEF NewFrame
        <3>2. Minded(clients[e.fd], pc')
            BY <1>2, <2>4, <3>1 DEF Minded
        <3>3. Point(pc') = pc' /\ pc' \notin {"consume", "continue_parse", "respond"}
            BY <3>1 DEF Point, HandlerPoints
        <3> QED BY <1>1, <2>2, <2>4, <3>1, <3>2, <3>3, MindedStep DEF MInv
    <2> QED BY <2>3, <2>4
<1>7. CASE RegisterAcceptedConnection
    <2> DEFINE c == ArmHeaderTimeout(NewConnection(next_connection_id))
    <2>1. PICK fd \in Fd \ DOMAIN clients :
              clients' = [f \in DOMAIN clients \cup {fd} |-> IF f = fd THEN c ELSE clients[f]]
        BY <1>7 DEF RegisterAcceptedConnection
    <2>2. pc' = "limit" /\ Point(pc') = "wait" /\ pc' \notin HandlerPoints
        BY <1>7 DEF RegisterAcceptedConnection, Point, HandlerPoints
    <2>3. c.responses = 0 /\ c.input_buffer = << >> /\ c.armed # {}
        BY DEF ArmHeaderTimeout, NewConnection
    <2>4. ~HasCompleteHeader(<< >>)
        BY DEF HasCompleteHeader, HeaderEnds
    <2> HIDE DEF c
    <2>5. Minded(c, "wait")
        BY <2>3, <2>4 DEF Minded
    <2> QED BY <1>1, <2>1, <2>2, <2>5, MindedStep DEF MInv
<1> QED BY <1>3, <1>4, <1>5, <1>6, <1>7

(* The steps that only choose what the handler does next. *)
LEMMA MovesMind ==
    ASSUME MInv, AllPlain', HandlerMove
    PROVE  MindedInv'
PROOF
<1>1. Handling
    BY DEF HandlerMove, ContinueWithBody, ContinueWithHeaders, ContinueReturns, EventReturns,
           ReadWouldBlock, ProcessStops, TailReturns, HandlerPoints, Handling
<1>2. /\ Minded(me, pc) /\ Plain(me) /\ pc \notin {"consume", "continue_parse"}
      /\ cur \in Frame /\ me.output_buffer \in Nat
    BY <1>1, HandledIsMinded
<1>3. clients' = [clients EXCEPT ![cur.fd] = me]
    BY <1>1, HandledIsMinded
    DEF HandlerMove, ContinueWithBody, ContinueWithHeaders, ContinueReturns, EventReturns,
        ReadWouldBlock, ProcessStops, TailReturns, conns
<1>4. ASSUME NEW point \in {"process", "continue_read", "tail", "chunk"},
             pc' = point, cur'.fd = cur.fd, Minded(me, point)
      PROVE  MindedInv'
    <2>1. point \in HandlerPoints \ {"consume", "continue_parse"} /\ point # "respond"
        BY DEF HandlerPoints
    <2> QED BY <1>1, <1>3, <1>4, <2>1, MindedHandler
<1>5. ASSUME Return, Minded(me, "wait")
      PROVE  MindedInv'
    BY <1>1, <1>3, <1>5, MindedHandler
<1>6. CASE ContinueWithBody
    BY <1>2, <1>6 DEF ContinueWithBody, Plain
<1>7. CASE ContinueWithHeaders
    <2>1. /\ me.output_buffer = 0 /\ pc = "continue"
          /\ IF HasCompleteHeader(me.input_buffer)
             THEN pc' = "process" /\ cur'.fd = cur.fd
             ELSE pc' = "continue_read" /\ cur'.fd = cur.fd
        BY <1>2, <1>7 DEF ContinueWithHeaders, Goto, Frame
    <2>2. Minded(me, pc')
        BY <1>2, <2>1 DEF Minded
    <2> QED BY <1>4, <2>1, <2>2
<1>8. CASE ContinueReturns \/ EventReturns \/ ReadWouldBlock
    <2>1. Return
        BY <1>8 DEF ContinueReturns, EventReturns, ReadWouldBlock
    <2>2. \/ pc = "continue" /\ me.output_buffer > 0
          \/ pc \in {"continue_read", "event_read", "read"}
        BY <1>2, <1>8 DEF ContinueReturns, EventReturns, ReadWouldBlock
    <2>3. Minded(me, "wait")
        BY <1>2, <2>2 DEF Minded
    <2> QED BY <1>5, <2>1, <2>3
<1>9. CASE ProcessStops
    <2>1. pc' = "tail" /\ cur' = cur /\ pc = "process"
        BY <1>9 DEF ProcessStops, Goto
    <2>2. Minded(me, "tail")
        BY <1>2, <2>1 DEF Minded
    <2> QED BY <1>4, <2>1, <2>2
<1>10. CASE TailReturns
    <2>1. /\ pc' \in {"chunk", "continue_read"} /\ cur' = cur
          /\ ~HasCompleteHeader(me.input_buffer) /\ me.output_buffer > 0
        BY <1>2, <1>10 DEF TailReturns, AfterProcess, Goto, Plain
    <2>2. Minded(me, pc')
        BY <1>2, <2>1 DEF Minded
    <2> QED BY <1>4, <2>1, <2>2
<1> QED BY <1>6, <1>7, <1>8, <1>9, <1>10 DEF HandlerMove

(* FlushClientOutput: what has been sent to the end is closed, timed, or   *)
(* queued for the headers behind it.                                       *)
LEMMA FlushMinds ==
    ASSUME MInv, AllPlain', \/ FlushWrites \/ FlushPauses \/ FlushedRequeues
                            \/ FlushedCloses \/ FlushedIdles
    PROVE  MindedInv'
PROOF
<1>1. pc = "flush" /\ Handling
    BY DEF FlushWrites, FlushPauses, FlushedRequeues, FlushedCloses, FlushedIdles,
           Handling, HandlerPoints
<1>2. /\ Minded(me, "flush") /\ Plain(me) /\ Timed(me, "flush") /\ cur \in Frame
      /\ me \in ClientConnection /\ me.output_buffer \in Nat
    BY <1>1, HandledIsMinded
<1>3. AfterFlush \in {"continue", "event_read"}
    BY DEF AfterFlush
<1>4. ASSUME NEW c, Goto(AfterFlush), clients' = [clients EXCEPT ![cur.fd] = c],
             Minded(c, AfterFlush)
      PROVE  MindedInv'
    <2>1. /\ AfterFlush \in HandlerPoints \ {"consume", "continue_parse"}
          /\ AfterFlush # "respond" /\ pc' = AfterFlush /\ cur' = cur
        BY <1>3, <1>4 DEF HandlerPoints, Goto
    <2> QED BY <1>1, <1>4, <2>1, MindedHandler
<1>5. CASE FlushWrites
    <2>1. PICK n \in 1..me.output_buffer :
              /\ Keep([me EXCEPT !.output_buffer = @ - n, !.wire = @ + n])
              /\ cur' = [cur EXCEPT !.write_remaining = @ - n]
        BY <1>5 DEF FlushWrites
    <2> DEFINE c == [me EXCEPT !.output_buffer = @ - n, !.wire = @ + n]
    <2>2. Minded(c, "flush")
        BY <1>2 DEF Minded, ClientConnection
    <2>3. /\ clients' = [clients EXCEPT ![cur.fd] = c] /\ cur'.fd = cur.fd /\ pc' = "flush"
        BY <1>1, <1>2, <1>5, <2>1 DEF FlushWrites, Keep, Frame
    <2>4. "flush" \in HandlerPoints \ {"consume", "continue_parse"}
        BY DEF HandlerPoints
    <2> HIDE DEF c
    <2> QED BY <1>1, <2>2, <2>3, <2>4, MindedHandler
<1>6. CASE FlushPauses
    <2>1. Minded(me, AfterFlush)
        BY <1>2, <1>6 DEF FlushPauses, Minded
    <2>2. \E c \in {me, UpdateClientPollMask(me)} : clients' = [clients EXCEPT ![cur.fd] = c]
        BY <1>6 DEF FlushPauses, Keep
    <2> QED BY <1>2, <1>4, <1>6, <2>1, <2>2, MaskMinds DEF FlushPauses
<1>7. CASE FlushedRequeues
    <2>1. HasCompleteHeader(me.input_buffer)
        BY <1>2, <1>7 DEF FlushedRequeues, Plain
    <2>2. Minded([me EXCEPT !.in_ready_queue = TRUE], AfterFlush)
        BY <1>2, <2>1 DEF Minded, ClientConnection
    <2>3. clients' = [clients EXCEPT ![cur.fd] =
                         [UpdateClientPollMask(me) EXCEPT !.in_ready_queue = TRUE]]
        BY <1>7 DEF FlushedRequeues, Requeue, EnqueueReadyConnection
    <2>4. Minded([UpdateClientPollMask(me) EXCEPT !.in_ready_queue = TRUE], AfterFlush)
        BY <1>2, <2>2, MaskMinds
    <2> QED BY <1>4, <1>7, <2>3, <2>4 DEF FlushedRequeues
<1>8. CASE FlushedCloses
    BY <1>1, <1>8, MindedHandlerClose DEF FlushedCloses
<1>9. CASE FlushedIdles
    <2> DEFINE c == IF me.keep_alive_enabled THEN ArmIdleKeepAliveTimeout(me) ELSE me
    <2>1. ~HasCompleteHeader(me.input_buffer) /\ ~me.close_after_write
        BY <1>9 DEF FlushedIdles
    <2>2. c \in ClientConnection /\ Minded(c, AfterFlush)
        <3>1. CASE me.keep_alive_enabled
            <4> DEFINE armed == (me.armed \ {"header"}) \cup {"idle"}
            <4>1. c = [me EXCEPT !.armed = armed] /\ armed \in SUBSET TimerKind /\ armed # {}
                BY <1>2, <3>1 DEF ArmIdleKeepAliveTimeout, ClientConnection, TimerKind
            <4> HIDE DEF armed, c
            <4> QED BY <1>2, <2>1, <4>1 DEF Minded, ClientConnection
        <3>2. CASE ~me.keep_alive_enabled
            <4>1. ~(me.responses > 0) /\ me.responses \in Nat
                BY <1>2, <2>1, <3>2 DEF Minded, ClientConnection
            <4>2. me.armed # {}
                BY <1>2, <4>1 DEF Timed
            <4> QED BY <1>2, <2>1, <3>2, <4>1, <4>2 DEF Minded
        <3> QED BY <3>1, <3>2
    <2>3. clients' = [clients EXCEPT ![cur.fd] = UpdateClientPollMask(c)] /\ Goto(AfterFlush)
        BY <1>9 DEF FlushedIdles, Keep
    <2> HIDE DEF c
    <2> QED BY <1>4, <2>2, <2>3, MaskMinds
<1> QED BY <1>5, <1>6, <1>7, <1>8, <1>9

(* ReadFromClient: a header stays complete when more is read. *)
LEMMA ReadMinds ==
    ASSUME MInv, AllPlain', \/ ContinueWithRead \/ EventRead \/ ReadSome \/ ReadEnds
                            \/ CheckHeaderLimit \/ ChunkDone
    PROVE  MindedInv'
PROOF
<1>1. pc \in {"continue_read", "event_read", "read", "check_header", "chunk"} /\ Handling
    BY DEF ContinueWithRead, EventRead, ReadSome, ReadEnds, CheckHeaderLimit, ChunkDone,
           Handling, HandlerPoints
<1>2. /\ Minded(me, pc) /\ Plain(me) /\ cur \in Frame /\ cur.fd \in DOMAIN clients
      /\ me \in ClientConnection /\ me.input_buffer \in Seq(Token)
      /\ clients = [clients EXCEPT ![cur.fd] = me]
    BY <1>1, HandledIsMinded
<1>3. ASSUME NEW c, NEW point \in {"read", "check_header", "process"}, pc' = point,
             cur'.fd = cur.fd, clients' = [clients EXCEPT ![cur.fd] = c], Minded(c, point)
      PROVE  MindedInv'
    <2>1. point \in HandlerPoints \ {"consume", "continue_parse"} /\ point # "respond"
        BY DEF HandlerPoints
    <2> QED BY <1>1, <1>3, <2>1, MindedHandler
<1>4. CASE ContinueWithRead
    BY <1>2, <1>4 DEF ContinueWithRead, Plain
<1>5. CASE EventRead
    <2> DEFINE c == IF "idle" \in me.armed THEN ArmHeaderTimeout(me) ELSE me
    <2>1. /\ pc = "event_read" /\ pc' = "read" /\ cur'.fd = cur.fd
          /\ clients' = [clients EXCEPT ![cur.fd] = c]
        BY <1>2, <1>5 DEF EventRead, Keep, Frame
    <2>2. Minded(c, "read")
        <3>1. CASE "idle" \in me.armed
            <4> DEFINE armed == (me.armed \ {"idle"}) \cup {"header"}
            <4>1. c = [me EXCEPT !.armed = armed] /\ armed # {}
                BY <1>2, <3>1 DEF ArmHeaderTimeout, ClientConnection
            <4> HIDE DEF armed, c
            <4> QED BY <1>2, <2>1, <4>1 DEF Minded, ClientConnection
        <3>2. CASE "idle" \notin me.armed
            BY <1>2, <2>1, <3>2 DEF Minded
        <3> QED BY <3>1, <3>2
    <2> HIDE DEF c
    <2> QED BY <1>3, <2>1, <2>2
<1>6. CASE ReadSome
    <2>1. pc = "read"
        BY <1>6 DEF ReadSome
    <2>2. PICK n \in 1..kReadChunkSize : \E data \in [1..n -> Token] :
              \/ Reject(me)
              \/ /\ Keep([me EXCEPT !.input_buffer = @ \o data])
                 /\ pc' = IF me.waiting_for_request_body THEN "consume" ELSE "check_header"
                 /\ cur' = [cur EXCEPT !.read_remaining = @ - n, !.back = "chunk"]
        BY <1>6 DEF ReadSome
    <2>3. PICK data \in [1..n -> Token] :
              \/ Reject(me)
              \/ /\ Keep([me EXCEPT !.input_buffer = @ \o data])
                 /\ pc' = IF me.waiting_for_request_body THEN "consume" ELSE "check_header"
                 /\ cur' = [cur EXCEPT !.read_remaining = @ - n, !.back = "chunk"]
        BY <2>2
    <2>4. CASE Reject(me)
        BY <1>1, <2>4, MindedHandlerClose
    <2>5. CASE ~Reject(me)
        <3> DEFINE in == me.input_buffer \o data
                   c  == [me EXCEPT !.input_buffer = in]
        <3>1. data \in Seq(Token)
            <4>1. n \in Nat
                BY SizeAssumption
            <4> QED BY <4>1
        <3>2. HasCompleteHeader(me.input_buffer) => HasCompleteHeader(in)
            <4> SUFFICES ASSUME NEW i \in HeaderEnds(me.input_buffer) PROVE i \in HeaderEnds(in)
                BY DEF HasCompleteHeader
            <4>1. i \in 1..Len(me.input_buffer) /\ me.input_buffer[i] \in Requests
                BY DEF HeaderEnds
            <4>2. /\ Len(in) = Len(me.input_buffer) + Len(data) /\ Len(data) \in Nat
                  /\ Len(me.input_buffer) \in Nat
                BY <1>2, <3>1, ConcatProperties, LenProperties
            <4>3. i \in 1..Len(in) /\ in[i] = me.input_buffer[i]
                <5>1. i \in 1..Len(me.input_buffer) + Len(data) /\ i <= Len(me.input_buffer)
                    BY <4>1, <4>2
                <5> QED BY <1>2, <3>1, <4>2, <5>1, ConcatProperties
            <4> QED BY <4>1, <4>3 DEF HeaderEnds
        <3> HIDE DEF in
        <3>3. Minded(c, "check_header")
            BY <1>2, <2>1, <3>2 DEF Minded, ClientConnection
        <3>4. /\ clients' = [clients EXCEPT ![cur.fd] = c]
              /\ pc' = "check_header" /\ cur'.fd = cur.fd
            BY <1>2, <2>3, <2>5 DEF Keep, Plain, Frame, in
        <3> HIDE DEF c
        <3> QED BY <1>3, <3>3, <3>4
    <2> QED BY <2>4, <2>5
<1>7. CASE ReadEnds
    BY <1>1, <1>7, MindedHandlerClose DEF ReadEnds
<1>8. CASE CheckHeaderLimit
    <2>1. CASE HeaderExceedsLimit(me.input_buffer, kMaxHeaderBytes)
        BY <1>1, <1>8, <2>1, MindedHandlerClose DEF CheckHeaderLimit
    <2>2. CASE ~HeaderExceedsLimit(me.input_buffer, kMaxHeaderBytes)
        <3>1. pc = "check_header" /\ pc' = "process" /\ cur'.fd = cur.fd /\ clients' = clients
            BY <1>2, <1>8, <2>2 DEF CheckHeaderLimit, conns, Frame
        <3>2. Minded(me, "process")
            BY <1>2, <3>1 DEF Minded
        <3> QED BY <1>2, <1>3, <3>1, <3>2
    <2> QED BY <2>1, <2>2
<1>9. CASE ChunkDone
    <2>1. pc = "chunk"
        BY <1>9 DEF ChunkDone
    <2>2. CASE cur.read_remaining = 0
        <3> DEFINE c == [[me EXCEPT !.ready_for_read = TRUE] EXCEPT !.in_ready_queue = TRUE]
        <3>1. clients' = [clients EXCEPT ![cur.fd] = c]
            BY <1>9, <2>2 DEF ChunkDone, Requeue, EnqueueReadyConnection
        <3>2. c.ready_for_read = TRUE
            BY <1>2 DEF ClientConnection
        <3> HIDE DEF c
        <3>3. cur.fd \in DOMAIN clients' /\ clients'[cur.fd] = c
            BY <1>2, <3>1
        <3> QED BY <3>2, <3>3 DEF AllPlain, Plain
    <2>3. CASE cur.read_remaining # 0
        <3>1. pc' = "read" /\ cur' = cur /\ clients' = [clients EXCEPT ![cur.fd] = me]
            BY <1>9, <2>3 DEF ChunkDone, Keep, Goto
        <3>2. Minded(me, "read")
            BY <1>2, <2>1 DEF Minded
        <3> QED BY <1>3, <3>1, <3>2
    <2> QED BY <2>2, <2>3
<1> QED BY <1>4, <1>5, <1>6, <1>7, <1>8, <1>9

(* ProcessBufferedHeaders and its tail: a connection with nothing left to  *)
(* do is timed again, closed, or queued.                                   *)
LEMMA ProcessMinds ==
    ASSUME MInv, AllPlain', ProcessHeader \/ TailRequeues \/ TailCloses \/ TailArms
    PROVE  MindedInv'
PROOF
<1>1. pc \in {"process", "tail"} /\ Handling
    BY DEF ProcessHeader, TailRequeues, TailCloses, TailArms, Handling, HandlerPoints
<1>2. /\ Minded(me, pc) /\ Plain(me) /\ cur \in Frame /\ cur.fd \in DOMAIN clients
      /\ me \in ClientConnection /\ me.input_buffer \in Seq(Token)
    BY <1>1, HandledIsMinded
<1>3. CASE ProcessHeader
    <2> DEFINE popped(i) == [me EXCEPT !.input_buffer = ConsumePrefix(@, i)]
    <2>1. PICK i \in HeaderEnds(me.input_buffer) :
              \/ Reject(me)
              \/ /\ Keep(BeginRequestBodyReceive(popped(i), me.input_buffer[i]))
              \/ /\ Keep(popped(i)) /\ pc' = "respond"
                 /\ cur' = [cur EXCEPT !.processed_requests = @ + 1, !.popped = @ + 1,
                                       !.request = me.input_buffer[i], !.back = "process"]
        BY <1>3 DEF ProcessHeader
    <2>2. CASE Reject(me)
        BY <1>1, <2>2, MindedHandlerClose
    <2>3. CASE Keep(BeginRequestBodyReceive(popped(i), me.input_buffer[i]))
        <3> DEFINE c == BeginRequestBodyReceive(popped(i), me.input_buffer[i])
        <3>1. c.waiting_for_request_body = TRUE
            BY <1>2 DEF BeginRequestBodyReceive, ArmBodyTimeout, ClientConnection
        <3>2. clients' = [clients EXCEPT ![cur.fd] = c]
            BY <2>3 DEF Keep
        <3> HIDE DEF c
        <3>3. cur.fd \in DOMAIN clients' /\ clients'[cur.fd] = c
            BY <1>2, <3>2
        <3> QED BY <3>1, <3>3 DEF AllPlain, Plain
    <2>4. CASE /\ Keep(popped(i)) /\ pc' = "respond"
               /\ cur' = [cur EXCEPT !.processed_requests = @ + 1, !.popped = @ + 1,
                                     !.request = me.input_buffer[i], !.back = "process"]
        <3>1. Minded(popped(i), "respond")
            BY <1>2 DEF Minded, ClientConnection
        <3>2. clients' = [clients EXCEPT ![cur.fd] = popped(i)]
            BY <2>4 DEF Keep
        <3>3. cur'.fd = cur.fd /\ cur'.back = "process"
            BY <1>2, <2>4 DEF Frame
        <3>4. "respond" \in HandlerPoints \ {"consume", "continue_parse"}
            BY DEF HandlerPoints
        <3> HIDE DEF popped
        <3> QED BY <1>1, <2>4, <3>1, <3>2, <3>3, <3>4, MindedHandler
    <2> QED BY <2>1, <2>2, <2>3, <2>4
<1>4. CASE TailRequeues
    <2> DEFINE c == [me EXCEPT !.in_ready_queue = TRUE]
    <2>1. HasCompleteHeader(me.input_buffer) /\ Return /\ clients' = [clients EXCEPT ![cur.fd] = c]
        BY <1>4 DEF TailRequeues, Requeue, EnqueueReadyConnection
    <2>2. Minded(c, "wait")
        BY <1>2, <2>1 DEF Minded, ClientConnection
    <2> HIDE DEF c
    <2> QED BY <1>1, <2>1, <2>2, MindedHandler
<1>5. CASE TailCloses
    BY <1>1, <1>5, MindedHandlerClose DEF TailCloses
<1>6. CASE TailArms
    <2> DEFINE armed == IF me.input_buffer = << >> THEN (me.armed \ {"header"}) \cup {"idle"}
                        ELSE (me.armed \ {"idle"}) \cup {"header"}
               c == [me EXCEPT !.armed = armed]
    <2>1. c = IF me.input_buffer = << >> THEN ArmIdleKeepAliveTimeout(me)
              ELSE ArmHeaderTimeout(me)
        BY DEF ArmIdleKeepAliveTimeout, ArmHeaderTimeout
    <2>2. armed # {} /\ armed \in SUBSET TimerKind
        BY <1>2 DEF ClientConnection, TimerKind
    <2>3. ~HasCompleteHeader(me.input_buffer) /\ pc' = AfterProcess /\ cur' = cur
        BY <1>6 DEF TailArms, Goto
    <2>4. clients' = [clients EXCEPT ![cur.fd] = UpdateClientPollMask(c)]
        <3> HIDE DEF c
        <3> QED BY <1>6, <2>1 DEF TailArms, Keep
    <2> HIDE DEF armed
    <2>5. c \in ClientConnection /\ Minded(c, AfterProcess)
        BY <1>2, <2>2, <2>3 DEF Minded, ClientConnection
    <2>6. AfterProcess \in HandlerPoints \ {"consume", "continue_parse", "respond"}
        BY DEF AfterProcess, HandlerPoints
    <2> HIDE DEF c
    <2>7. Minded(UpdateClientPollMask(c), AfterProcess)
        BY <2>5, MaskMinds
    <2> QED BY <1>1, <2>3, <2>4, <2>6, <2>7, MindedHandler
<1> QED BY <1>3, <1>4, <1>5, <1>6

(* StartOkResponse, and a write() that fails: the handler is not done with *)
(* the connection, which is kept alive or will be closed.                  *)
LEMMA RespondMinds ==
    ASSUME MInv, AllPlain', \/ RespondLater \/ RespondNow \/ RespondOverBudget
                            \/ WriteFails \/ BrokenPipe
    PROVE  MindedInv'
PROOF
<1>1. pc \in {"respond", "flush"} /\ Handling
    BY DEF RespondLater, RespondNow, RespondOverBudget, WriteFails, BrokenPipe, Writing,
           Handling, HandlerPoints
<1>2. /\ Minded(me, pc) /\ cur \in Frame /\ me \in ClientConnection
      /\ pc = "respond" => cur.back = "process"
      /\ me.output_buffer \in Nat /\ me.wire \in Nat /\ me.responses \in Nat
      /\ ResponseSize \in Nat
    BY <1>1, HandledIsMinded, Sizes DEF ClientConnection
<1> DEFINE a == Answered
<1>3. /\ a \in ClientConnection /\ (a.keep_alive_enabled \/ a.close_after_write)
      /\ a.output_buffer = me.output_buffer
    <2>1. KeepAlive \in BOOLEAN
        BY DEF KeepAlive, ShouldKeepAlive
    <2>2. me.responses + 1 \in Nat /\ me.close_after_write \in BOOLEAN
        BY <1>2 DEF ClientConnection
    <2>3. (me.armed \ {"header", "idle"}) \in SUBSET TimerKind
        BY <1>2 DEF ClientConnection
    <2> DEFINE stays == KeepAlive
               last  == me.close_after_write \/ ~stays
    <2>4. a = [me EXCEPT !.armed = me.armed \ {"header", "idle"},
                         !.keep_alive_enabled = stays, !.close_after_write = last,
                         !.responses = me.responses + 1]
        BY <1>2 DEF Answered, ClientConnection
    <2>5. last \in BOOLEAN /\ stays \in BOOLEAN /\ (stays \/ last)
        BY <2>1, <2>2
    <2> HIDE DEF stays, last, a
    <2> QED BY <1>2, <2>2, <2>3, <2>4, <2>5 DEF ClientConnection
<1> HIDE DEF a
(* What the response leaves the handler with. *)
<1>4. ASSUME NEW d \in ClientConnection,
             d.keep_alive_enabled \/ d.close_after_write,
             Keep(d) \/ Keep(UpdateClientPollMask(d)),
             pc = "respond", pc' = cur.back, cur'.fd = cur.fd
      PROVE  MindedInv'
    <2>1. Minded(d, "process") /\ Minded(UpdateClientPollMask(d), "process")
        BY <1>4, MaskMinds DEF Minded
    <2>2. PICK c \in {d, UpdateClientPollMask(d)} : clients' = [clients EXCEPT ![cur.fd] = c]
        BY <1>4 DEF Keep
    <2>3. "process" \in HandlerPoints \ {"consume", "continue_parse"} /\ pc' = "process"
        BY <1>2, <1>4 DEF HandlerPoints
    <2> QED BY <1>1, <1>4, <2>1, <2>2, <2>3, MindedHandler
<1>5. CASE RespondLater
    <2>1. CASE OverBudget(ResponseSize)
        BY <1>1, <1>5, <2>1, MindedHandlerClose DEF RespondLater
    <2>2. CASE ~OverBudget(ResponseSize)
        <3> DEFINE d == [a EXCEPT !.output_buffer = @ + ResponseSize]
        <3>1. /\ pc = "respond" /\ pc' = cur.back /\ cur'.fd = cur.fd
              /\ Keep(UpdateClientPollMask(d))
            BY <1>2, <1>5, <2>2 DEF RespondLater, ResumeCaller, Frame, a
        <3>2. d \in ClientConnection /\ (d.keep_alive_enabled \/ d.close_after_write)
            <4>1. a.output_buffer + ResponseSize \in Nat
                BY <1>2, <1>3
            <4> QED BY <1>3, <4>1 DEF ClientConnection
        <3> HIDE DEF d
        <3> QED BY <1>4, <3>1, <3>2
    <2> QED BY <2>1, <2>2
<1>6. CASE RespondNow
    <2>1. PICK n \in 0..ResponseSize :
              /\ \/ Keep([a EXCEPT !.wire = @ + n])
                 \/ Keep(UpdateClientPollMask([[a EXCEPT !.wire = @ + n]
                                                   EXCEPT !.output_buffer = ResponseSize - n]))
              /\ pc = "respond" /\ pc' = cur.back
              /\ cur' = [cur EXCEPT !.write_remaining = @ - n, !.request = NoRequest]
        BY <1>6 DEF RespondNow, a
    <2>2. cur'.fd = cur.fd
        BY <1>2, <2>1 DEF Frame
    <2> DEFINE sent == [a EXCEPT !.wire = @ + n]
               d == [sent EXCEPT !.output_buffer = ResponseSize - n]
    <2>3. /\ sent \in ClientConnection /\ d \in ClientConnection
          /\ sent.keep_alive_enabled \/ sent.close_after_write
          /\ d.keep_alive_enabled \/ d.close_after_write
        <3>1. a.wire + n \in Nat /\ ResponseSize - n \in Nat
            BY <1>2, <1>3 DEF ClientConnection
        <3>2. sent \in ClientConnection /\ (sent.keep_alive_enabled \/ sent.close_after_write)
            BY <1>3, <3>1 DEF ClientConnection
        <3> HIDE DEF sent
        <3> QED BY <3>1, <3>2 DEF ClientConnection
    <2>4. Keep(sent) \/ Keep(UpdateClientPollMask(d))
        BY <2>1
    <2> HIDE DEF sent, d
    <2> QED BY <1>4, <2>1, <2>2, <2>3, <2>4
<1>7. CASE RespondOverBudget
    BY <1>1, <1>7, MindedHandlerClose DEF RespondOverBudget
<1>8. CASE WriteFails
    BY <1>1, <1>8, MindedHandlerClose DEF WriteFails
<1>9. CASE BrokenPipe
    BY <1>9 DEF BrokenPipe, Exit, MindedInv
<1> QED BY <1>5, <1>6, <1>7, <1>8, <1>9

(* Every action keeps every connection minded. *)
LEMMA NextMinded == MInv /\ AllPlain' /\ [Next]_vars => MindedInv'
PROOF
<1> SUFFICES ASSUME MInv, AllPlain', [Next]_vars PROVE MindedInv'
    OBVIOUS
<1>1. CASE \/ PopReady \/ LoopStep \/ ExpireTimer \/ HandleHangUp \/ EnforceConnectionLimit
           \/ HandleClientEvent \/ RegisterAcceptedConnection
    BY <1>1, LoopMinds
<1>2. CASE HandlerMove
    BY <1>2, MovesMind
<1>3. CASE \/ FlushWrites \/ FlushPauses \/ FlushedRequeues \/ FlushedCloses \/ FlushedIdles
    BY <1>3, FlushMinds
<1>4. CASE \/ ContinueWithRead \/ EventRead \/ ReadSome \/ ReadEnds \/ CheckHeaderLimit
           \/ ChunkDone
    BY <1>4, ReadMinds
<1>5. CASE \/ ProcessHeader \/ TailRequeues \/ TailCloses \/ TailArms
    BY <1>5, ProcessMinds
<1>6. CASE ConsumePart \/ ConsumeRest
    BY <1>6 DEF ConsumePart, ConsumeRest, MInv, MindedInv
<1>7. CASE \/ RespondLater \/ RespondNow \/ RespondOverBudget \/ WriteFails \/ BrokenPipe
    BY <1>7, RespondMinds
<1>8. CASE Exited \/ UNCHANGED vars
    <2>1. UNCHANGED <<clients, pc, cur>>
        BY <1>8 DEF Exited, vars, conns
    <2> QED BY <2>1 DEF MInv, MindedInv, PointOf, Handling
<1> QED BY <1>1, <1>2, <1>3, <1>4, <1>5, <1>6, <1>7, <1>8 DEF Next, LoopStep, HandlerMove

(* As long as no body is received and no read is cut off, every connection *)
(* is queued, has output to send, or is under a timer whenever the loop    *)
(* waits: no client that falls silent keeps one for ever.                  *)
THEOREM NobodyIsForgotten == Spec => ForgetsNobody
PROOF
<1>1. Init => MindedInv
    BY DEF Init, MindedInv
<1>2. MInv /\ pc = "wait" => \A fd \in DOMAIN clients : Remembered(fd)
    <2> SUFFICES ASSUME MInv, pc = "wait", NEW fd \in DOMAIN clients PROVE Remembered(fd)
        OBVIOUS
    <2>1. PointOf(fd) = "wait"
        BY DEF PointOf, Handling, HandlerPoints
    <2>2. Minded(clients[fd], "wait")
        BY <2>1 DEF MInv, MindedInv
    <2> QED BY <2>2 DEF Minded, Remembered
<1>3. AllPlain <=> \A fd \in DOMAIN clients : Plain(clients[fd])
    BY DEF AllPlain
<1> QED BY <1>1, <1>2, <1>3, NextMinded, DataInvariance, PTL
    DEF Spec, MInv, ForgetsNobody
=============================================================================
