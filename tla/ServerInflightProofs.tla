------------------------ MODULE ServerInflightProofs ------------------------
(***************************************************************************)
(* The budget of buffered bytes: global_inflight_bytes is what the buffers *)
(* of all the connections hold.  Every step changes what one connection    *)
(* holds; the sum over the others (FoldTheorems) stays what it was, so the *)
(* counter has to move by the same amount, and ReleaseInflightBytes never  *)
(* has to stop at zero.                                                    *)
(***************************************************************************)
EXTENDS ServerProofs, FoldTheorems

HeldOf(c) == Len(c.input_buffer) + c.output_buffer

(* What the descriptor fd holds, of the connections cl. *)
HeldAt(cl, fd) == IF fd \in DOMAIN cl THEN HeldOf(cl[fd]) ELSE 0

Holdings(cl) == [fd \in DOMAIN cl |-> HeldOf(cl[fd])]

(* What the others hold. *)
HeldElsewhere(cl, fd) == Total(Holdings(cl), DOMAIN cl \ {fd})

BInv == Inv /\ InflightExact

(* From before (rest and what fd held) to after: the counter follows. *)
Follows(before, after) ==
    \A rest \in Nat : global_inflight_bytes = before + rest =>
                         /\ global_inflight_bytes' = after + rest
                         /\ global_inflight_bytes' <= kMaxInflightBytes

LEMMA HeldType ==
    ASSUME NEW c \in ClientConnection
    PROVE  /\ c.input_buffer \in Seq(Token) /\ Len(c.input_buffer) \in Nat
           /\ c.output_buffer \in Nat /\ HeldOf(c) \in Nat
PROOF
<1>1. c.input_buffer \in Seq(Token) /\ c.output_buffer \in Nat
    BY DEF ClientConnection
<1>2. Len(c.input_buffer) \in Nat
    BY <1>1
<1> QED BY <1>1, <1>2 DEF HeldOf

(* What all connections hold is what one holds and what the others hold. *)
LEMMA HeldSplits ==
    ASSUME NEW cl, IsFiniteSet(DOMAIN cl),
           \A f \in DOMAIN cl : cl[f] \in ClientConnection, NEW fd
    PROVE  /\ HeldElsewhere(cl, fd) \in Nat /\ HeldAt(cl, fd) \in Nat
           /\ SumFunction(Holdings(cl)) = HeldAt(cl, fd) + HeldElsewhere(cl, fd)
PROOF
<1> DEFINE h == Holdings(cl)
           S == DOMAIN cl
<1>1. DOMAIN h = S /\ \A f \in S : h[f] = HeldOf(cl[f]) /\ h[f] \in Nat
    BY HeldType DEF Holdings
<1>2. SumFunction(h) = Total(h, S)
    BY <1>1, SumIsTotal
<1>3. S \ {fd} \subseteq S /\ IsFiniteSet(S \ {fd})
    BY FS_Subset
<1> HIDE DEF h
<1>4. Total(h, S \ {fd}) \in Nat
    BY <1>1, <1>3, TotalNat
<1>5. CASE fd \in S
    <2>1. Total(h, S) = h[fd] + Total(h, S \ {fd})
        BY <1>1, <1>5, TotalSplit
    <2> QED BY <1>1, <1>2, <1>4, <1>5, <2>1 DEF HeldAt, HeldElsewhere, h
<1>6. CASE fd \notin S
    <2>1. S \ {fd} = S
        BY <1>6
    <2> QED BY <1>2, <1>4, <1>6, <2>1 DEF HeldAt, HeldElsewhere, h
<1> QED BY <1>5, <1>6

(* The connections whose sum is taken, now and in the next state. *)
LEMMA HeldIsExact ==
    ASSUME Inv
    PROVE  /\ IsFiniteSet(DOMAIN clients)
           /\ \A f \in DOMAIN clients : clients[f] \in ClientConnection
           /\ global_inflight_bytes \in Nat
           /\ InflightExact <=> /\ global_inflight_bytes = SumFunction(Holdings(clients))
                                /\ global_inflight_bytes <= kMaxInflightBytes
PROOF
<1>1. Holdings(clients) = [fd \in DOMAIN clients |->
                              Len(clients[fd].input_buffer) + clients[fd].output_buffer]
    BY DEF Holdings, HeldOf
<1> QED BY <1>1, OpenConnections DEF Inv, TypeOK, InflightExact

(* A step that touches one connection, and moves the counter with it. *)
LEMMA InflightStep ==
    ASSUME BInv, Inv', NEW fd,
           DOMAIN clients' \ {fd} = DOMAIN clients \ {fd},
           \A f \in DOMAIN clients \ {fd} : clients'[f] = clients[f],
           Follows(HeldAt(clients, fd), HeldAt(clients', fd))
    PROVE  BInv'
PROOF
<1> DEFINE others == DOMAIN clients \ {fd}
<1>1. /\ IsFiniteSet(DOMAIN clients) /\ \A f \in DOMAIN clients : clients[f] \in ClientConnection
      /\ global_inflight_bytes = SumFunction(Holdings(clients))
    BY HeldIsExact DEF BInv
<1>2. /\ IsFiniteSet(DOMAIN clients')
      /\ \A f \in DOMAIN clients' : clients'[f] \in ClientConnection
      /\ InflightExact' <=> /\ global_inflight_bytes' = SumFunction(Holdings(clients'))
                            /\ global_inflight_bytes' <= kMaxInflightBytes
    <2>1. Holdings(clients') = [f \in DOMAIN clients' |->
                                  Len(clients'[f].input_buffer) + clients'[f].output_buffer]
        BY DEF Holdings, HeldOf
    <2>2. InflightExact' <=> /\ global_inflight_bytes' = SumFunction(Holdings(clients'))
                             /\ global_inflight_bytes' <= kMaxInflightBytes
        BY <2>1 DEF InflightExact
    <2>3. \A f \in DOMAIN clients' : clients'[f] \in ClientConnection
        BY DEF Inv, TypeOK
    <2> QED BY <2>2, <2>3 DEF Inv
<1>3. HeldElsewhere(clients', fd) = HeldElsewhere(clients, fd)
    <2>1. IsFiniteSet(others) /\ others = DOMAIN clients' \ {fd}
        BY <1>1, FS_Subset
    <2>2. \A f \in others : /\ Holdings(clients)[f] = Holdings(clients')[f]
                            /\ Holdings(clients)[f] \in Int
        BY <1>1, <2>1, HeldType DEF Holdings
    <2>3. Total(Holdings(clients), others) = Total(Holdings(clients'), others)
        BY <2>1, <2>2, TotalSame
    <2> QED BY <2>1, <2>3 DEF HeldElsewhere
<1>4. /\ HeldElsewhere(clients, fd) \in Nat
      /\ global_inflight_bytes = HeldAt(clients, fd) + HeldElsewhere(clients, fd)
    BY <1>1, HeldSplits
<1>5. SumFunction(Holdings(clients')) = HeldAt(clients', fd) + HeldElsewhere(clients', fd)
    BY <1>2, HeldSplits
<1>6. /\ global_inflight_bytes' = HeldAt(clients', fd) + HeldElsewhere(clients, fd)
      /\ global_inflight_bytes' <= kMaxInflightBytes
    BY <1>4 DEF Follows
<1> QED BY <1>2, <1>3, <1>5, <1>6 DEF BInv

(* ReleaseInflightBytes gives back n of what a connection holds. *)
LEMMA ReleaseFollows ==
    ASSUME BInv, NEW before \in Nat, NEW n \in Nat, n <= before,
           global_inflight_bytes' = ReleaseInflightBytes(n)
    PROVE  Follows(before, before - n)
PROOF
<1>1. global_inflight_bytes \in Nat /\ global_inflight_bytes <= kMaxInflightBytes
    BY HeldIsExact DEF BInv
<1>2. kMaxInflightBytes \in Nat
    BY SizeAssumption
<1> SUFFICES ASSUME NEW rest \in Nat, global_inflight_bytes = before + rest
             PROVE  /\ global_inflight_bytes' = (before - n) + rest
                    /\ global_inflight_bytes' <= kMaxInflightBytes
    BY DEF Follows
<1>3. CASE n >= global_inflight_bytes
    BY <1>1, <1>2, <1>3 DEF ReleaseInflightBytes
<1>4. CASE ~(n >= global_inflight_bytes)
    BY <1>1, <1>2, <1>4 DEF ReleaseInflightBytes
<1> QED BY <1>3, <1>4

(* TryReserveInflightBytes lets n more in. *)
LEMMA ReserveFollows ==
    ASSUME BInv, NEW before \in Nat, NEW n \in Nat, ~OverBudget(n),
           global_inflight_bytes' = global_inflight_bytes + n
    PROVE  Follows(before, before + n)
PROOF
<1>1. global_inflight_bytes \in Nat /\ global_inflight_bytes <= kMaxInflightBytes
    BY HeldIsExact DEF BInv
<1>2. kMaxInflightBytes \in Nat
    BY SizeAssumption
<1>3. global_inflight_bytes + n <= kMaxInflightBytes
    BY <1>1, <1>2 DEF OverBudget
<1> QED BY <1>1, <1>3 DEF Follows

(* No byte moves. *)
LEMMA NothingFollows ==
    ASSUME BInv, NEW before \in Nat, UNCHANGED global_inflight_bytes
    PROVE  Follows(before, before)
PROOF
<1>1. global_inflight_bytes <= kMaxInflightBytes
    BY DEF BInv, InflightExact
<1> QED BY <1>1 DEF Follows

(* A connection that holds as much as the server knew it to is closed. *)
LEMMA CloseInflight ==
    ASSUME BInv, Inv', NEW fd \in DOMAIN clients, NEW c, NEW reason,
           HeldOf(c) = HeldOf(clients[fd]), CloseClientConnection(fd, c, reason)
    PROVE  BInv'
PROOF
<1> DEFINE held == HeldOf(clients[fd])
<1>1. held \in Nat
    BY HeldIsExact, HeldType DEF BInv
<1>2. /\ DOMAIN clients' = DOMAIN clients \ {fd}
      /\ \A f \in DOMAIN clients \ {fd} : clients'[f] = clients[f]
      /\ global_inflight_bytes' = ReleaseInflightBytes(held)
    BY DEF CloseClientConnection, Restrict, HeldOf
<1>3. HeldAt(clients, fd) = held /\ HeldAt(clients', fd) = 0
    BY <1>2 DEF HeldAt
<1> HIDE DEF held
<1>4. Follows(held, held - held)
    BY <1>1, <1>2, ReleaseFollows
<1>5. held - held = 0
    BY <1>1
<1> QED BY <1>2, <1>3, <1>4, <1>5, InflightStep

(* A handler changes its connection. *)
LEMMA HandlerInflight ==
    ASSUME BInv, Inv', cur.fd \in DOMAIN clients, NEW c,
           clients' = [clients EXCEPT ![cur.fd] = c],
           Follows(HeldOf(me), HeldOf(c))
    PROVE  BInv'
PROOF
<1>1. PICK fd : fd = cur.fd
    OBVIOUS
<1>2. /\ DOMAIN clients' = DOMAIN clients /\ clients'[fd] = c
      /\ \A f \in DOMAIN clients \ {fd} : clients'[f] = clients[f]
    BY <1>1
<1>3. HeldAt(clients, fd) = HeldOf(me) /\ HeldAt(clients', fd) = HeldOf(c)
    BY <1>1, <1>2 DEF HeldAt, me
<1> QED BY <1>2, <1>3, InflightStep

(* Where neither the connections nor the counter change. *)
LEMMA SameInflight ==
    ASSUME BInv, Inv', UNCHANGED <<clients, global_inflight_bytes>>
    PROVE  BInv'
PROOF
BY DEF BInv, InflightExact

-----------------------------------------------------------------------------
(* The loop.                                                                *)

LEMMA LoopInflight ==
    ASSUME BInv, Inv', \/ ExpireTimer \/ HandleHangUp \/ EnforceConnectionLimit
                       \/ PopReady \/ RegisterAcceptedConnection
    PROVE  BInv'
PROOF
<1>1. \A fd \in DOMAIN clients : clients[fd] \in ClientConnection
    BY HeldIsExact DEF BInv
<1>2. CASE \E fd \in DOMAIN clients : \E reason :
              CloseClientConnection(fd, clients[fd], reason)
    BY <1>2, CloseInflight
<1>3. CASE ExpireTimer
    BY <1>2, <1>3 DEF ExpireTimer
<1>4. CASE HandleHangUp
    BY <1>2, <1>4 DEF HandleHangUp
<1>5. CASE EnforceConnectionLimit
    <2>1. cur.fd \in DOMAIN clients
        BY <1>5, HandledConnection DEF BInv, EnforceConnectionLimit
    <2>2. CASE active_connection_count > kMaxConnections
        BY <1>2, <1>5, <2>1, <2>2 DEF EnforceConnectionLimit, me
    <2>3. CASE ~(active_connection_count > kMaxConnections)
        BY <1>5, <2>3, SameInflight DEF EnforceConnectionLimit, conns
    <2> QED BY <2>2, <2>3
<1>6. CASE PopReady
    <2>1. PICK fd : fd = Head(ready_queue)
        OBVIOUS
    <2>2. CASE fd \notin DOMAIN clients
        BY <1>6, <2>1, <2>2, SameInflight DEF PopReady
    <2>3. CASE fd \in DOMAIN clients
        <3>1. /\ clients' = [clients EXCEPT ![fd].in_ready_queue = FALSE]
              /\ UNCHANGED global_inflight_bytes
            BY <1>6, <2>1, <2>3 DEF PopReady
        <3>2. /\ DOMAIN clients' = DOMAIN clients
              /\ clients'[fd] = [clients[fd] EXCEPT !.in_ready_queue = FALSE]
              /\ \A f \in DOMAIN clients \ {fd} : clients'[f] = clients[f]
            BY <2>3, <3>1
        <3>3. HeldOf(clients'[fd]) = HeldOf(clients[fd]) /\ HeldOf(clients[fd]) \in Nat
            BY <1>1, <2>3, <3>2, HeldType DEF HeldOf, ClientConnection
        <3>4. Follows(HeldOf(clients[fd]), HeldOf(clients[fd]))
            BY <3>1, <3>3, NothingFollows
        <3>5. Follows(HeldAt(clients, fd), HeldAt(clients', fd))
            BY <2>3, <3>2, <3>3, <3>4 DEF HeldAt
        <3> QED BY <3>2, <3>5, InflightStep
    <2> QED BY <2>2, <2>3
<1>7. CASE RegisterAcceptedConnection
    <2> DEFINE c == ArmHeaderTimeout(NewConnection(next_connection_id))
    <2>1. PICK fd \in Fd \ DOMAIN clients :
              clients' = [f \in DOMAIN clients \cup {fd} |-> IF f = fd THEN c ELSE clients[f]]
        BY <1>7 DEF RegisterAcceptedConnection
    <2>2. c.input_buffer = << >> /\ c.output_buffer = 0
        BY DEF ArmHeaderTimeout, NewConnection
    <2>3. HeldOf(c) = 0
        BY <2>2 DEF HeldOf
    <2> HIDE DEF c
    <2>4. /\ DOMAIN clients' \ {fd} = DOMAIN clients \ {fd} /\ clients'[fd] = c
          /\ fd \in DOMAIN clients'
          /\ \A f \in DOMAIN clients \ {fd} : clients'[f] = clients[f]
        BY <2>1
    <2>5. HeldAt(clients, fd) = 0 /\ HeldAt(clients', fd) = 0
        BY <2>1, <2>3, <2>4 DEF HeldAt
    <2>6. Follows(0, 0)
        BY <1>7, NothingFollows DEF RegisterAcceptedConnection
    <2> QED BY <2>4, <2>5, <2>6, InflightStep
<1> QED BY <1>3, <1>4, <1>5, <1>6, <1>7

-----------------------------------------------------------------------------
(* The handlers.                                                            *)

(* A handler closes its connection, whatever it wrote down before. *)
LEMMA HandlerCloseInflight ==
    ASSUME BInv, Inv', Handling, NEW c, HeldOf(c) = HeldOf(me),
           \/ \E reason : Close(c, reason)
           \/ Reject(c)
    PROVE  BInv'
PROOF
<1>1. cur.fd \in DOMAIN clients
    BY HandledConnection DEF BInv
<1>2. PICK reason : CloseClientConnection(cur.fd, c, reason)
    BY DEF Close, Reject, SendErrorResponseAndClose
<1>3. PICK fd : fd = cur.fd
    OBVIOUS
<1> QED BY <1>1, <1>2, <1>3, CloseInflight DEF me

(* A handler changes something else of its connection. *)
LEMMA QuietInflight ==
    ASSUME BInv, Inv', Handling, NEW c, HeldOf(c) = HeldOf(me),
           clients' = [clients EXCEPT ![cur.fd] = c], UNCHANGED global_inflight_bytes
    PROVE  BInv'
PROOF
<1>1. cur.fd \in DOMAIN clients /\ HeldOf(me) \in Nat
    BY HandledConnection, HeldType DEF BInv
<1>2. Follows(HeldOf(me), HeldOf(c))
    BY <1>1, NothingFollows
<1> QED BY <1>1, <1>2, HandlerInflight

LEMMA QuietSteps ==
    ASSUME BInv, Inv', \/ ContinueWithRead \/ EventRead \/ FlushPauses \/ FlushedRequeues
                       \/ FlushedIdles \/ ChunkDone \/ TailRequeues \/ TailArms
    PROVE  BInv'
PROOF
<1>1. Handling
    BY DEF ContinueWithRead, EventRead, FlushPauses, FlushedRequeues, FlushedIdles, ChunkDone,
           TailRequeues, TailArms, Handling, HandlerPoints
<1>2. me \in ClientConnection
    BY <1>1, HandledConnection DEF BInv
<1>3. UNCHANGED global_inflight_bytes
    BY DEF ContinueWithRead, EventRead, FlushPauses, FlushedRequeues, FlushedIdles, ChunkDone,
           TailRequeues, TailArms
<1> DEFINE Quiet(c) == c.input_buffer = me.input_buffer /\ c.output_buffer = me.output_buffer
<1>4. /\ Quiet(me) /\ Quiet(ArmHeaderTimeout(me)) /\ Quiet(ArmIdleKeepAliveTimeout(me))
      /\ Quiet(UpdateClientPollMask(me))
      /\ Quiet(UpdateClientPollMask(ArmHeaderTimeout(me)))
      /\ Quiet(UpdateClientPollMask(ArmIdleKeepAliveTimeout(me)))
      /\ Quiet([me EXCEPT !.ready_for_read = FALSE])
      /\ Quiet([me EXCEPT !.in_ready_queue = TRUE])
      /\ Quiet([UpdateClientPollMask(me) EXCEPT !.in_ready_queue = TRUE])
      /\ Quiet([[me EXCEPT !.ready_for_read = TRUE] EXCEPT !.in_ready_queue = TRUE])
    BY <1>2 DEF ArmHeaderTimeout, ArmIdleKeepAliveTimeout, UpdateClientPollMask,
                ClientConnection
<1>5. \E c : Quiet(c) /\ clients' = [clients EXCEPT ![cur.fd] = c]
    <2> HIDE DEF Quiet
    <2>1. CASE ContinueWithRead
        BY <1>4, <2>1 DEF ContinueWithRead, Keep
    <2>2. CASE EventRead
        BY <1>4, <2>2 DEF EventRead, Keep
    <2>3. CASE FlushPauses
        BY <1>4, <2>3 DEF FlushPauses, Keep
    <2>4. CASE FlushedRequeues
        BY <1>4, <2>4 DEF FlushedRequeues, Requeue, EnqueueReadyConnection
    <2>5. CASE FlushedIdles
        BY <1>4, <2>5 DEF FlushedIdles, Keep
    <2>6. CASE ChunkDone
        BY <1>4, <2>6 DEF ChunkDone, Keep, Requeue, EnqueueReadyConnection
    <2>7. CASE TailRequeues
        BY <1>4, <2>7 DEF TailRequeues, Requeue, EnqueueReadyConnection
    <2>8. CASE TailArms
        BY <1>4, <2>8 DEF TailArms, Keep
    <2> QED BY <2>1, <2>2, <2>3, <2>4, <2>5, <2>6, <2>7, <2>8
<1>6. PICK c : Quiet(c) /\ clients' = [clients EXCEPT ![cur.fd] = c]
    BY <1>5
<1>7. HeldOf(c) = HeldOf(me)
    BY <1>6 DEF HeldOf
<1> QED BY <1>1, <1>3, <1>6, <1>7, QuietInflight

(* The steps that close their connection and do nothing else. *)
LEMMA ClosingSteps ==
    ASSUME BInv, Inv', \/ FlushedCloses \/ ReadEnds \/ TailCloses \/ WriteFails
                       \/ RespondOverBudget
    PROVE  BInv'
PROOF
<1>1. Handling
    BY DEF FlushedCloses, ReadEnds, TailCloses, WriteFails, RespondOverBudget, Writing,
           Handling, HandlerPoints
<1>2. me \in ClientConnection
    BY <1>1, HandledConnection DEF BInv
<1>3. /\ HeldOf(Answered) = HeldOf(me)
      /\ \A n \in Nat : HeldOf([Answered EXCEPT !.wire = @ + n]) = HeldOf(me)
    BY <1>2 DEF HeldOf, Answered, ClientConnection
<1>4. CASE FlushedCloses
    BY <1>1, <1>4, HandlerCloseInflight DEF FlushedCloses
<1>5. CASE ReadEnds
    BY <1>1, <1>5, HandlerCloseInflight DEF ReadEnds
<1>6. CASE TailCloses
    BY <1>1, <1>6, HandlerCloseInflight DEF TailCloses
<1>7. CASE WriteFails
    <2>1. PICK c \in {Answered, me} : Close(c, "peer")
        BY <1>7 DEF WriteFails
    <2> QED BY <1>1, <1>3, <2>1, HandlerCloseInflight
<1>8. CASE RespondOverBudget
    <2>1. PICK n \in 0..ResponseSize - 1 : Reject([Answered EXCEPT !.wire = @ + n])
        BY <1>8 DEF RespondOverBudget
    <2> DEFINE c == [Answered EXCEPT !.wire = @ + n]
    <2>2. HeldOf(c) = HeldOf(me) /\ Reject(c)
        BY <1>3, <2>1, Sizes
    <2> HIDE DEF c
    <2> QED BY <1>1, <2>2, HandlerCloseInflight
<1> QED BY <1>4, <1>5, <1>6, <1>7, <1>8

(* FlushClientOutput writes what it can. *)
LEMMA FlushInflight ==
    ASSUME BInv, Inv', FlushWrites
    PROVE  BInv'
PROOF
<1>1. Handling
    BY DEF FlushWrites, Handling, HandlerPoints
<1>2. cur.fd \in DOMAIN clients /\ me \in ClientConnection /\ HeldOf(me) \in Nat
    BY <1>1, HandledConnection, HeldType DEF BInv
<1>3. PICK n \in 1..me.output_buffer :
          /\ Keep([me EXCEPT !.output_buffer = @ - n, !.wire = @ + n])
          /\ global_inflight_bytes' = ReleaseInflightBytes(n)
    BY DEF FlushWrites
<1> DEFINE c == [me EXCEPT !.output_buffer = @ - n, !.wire = @ + n]
<1>4. c.input_buffer = me.input_buffer /\ c.output_buffer = me.output_buffer - n
    BY <1>2 DEF ClientConnection
<1>5. clients' = [clients EXCEPT ![cur.fd] = c]
    BY <1>3 DEF Keep
<1> HIDE DEF c
<1>6. me.output_buffer \in Nat /\ Len(me.input_buffer) \in Nat
    BY <1>2, HeldType
<1>7. n <= HeldOf(me) /\ HeldOf(c) = HeldOf(me) - n
    BY <1>4, <1>6 DEF HeldOf
<1>8. Follows(HeldOf(me), HeldOf(c))
    BY <1>2, <1>3, <1>7, ReleaseFollows
<1> QED BY <1>2, <1>5, <1>8, HandlerInflight

(* The n bytes one read() returns are a sequence of n bytes. *)
LEMMA BytesProperties ==
    ASSUME NEW S, NEW n \in Nat, NEW data \in [1..n -> S]
    PROVE  data \in Seq(S) /\ Len(data) = n
PROOF OBVIOUS

(* ReadFromClient takes bytes within the budget. *)
LEMMA ReadInflight ==
    ASSUME BInv, Inv', ReadSome \/ CheckHeaderLimit
    PROVE  BInv'
PROOF
<1>1. Handling
    BY DEF ReadSome, CheckHeaderLimit, Handling, HandlerPoints
<1>2. /\ cur.fd \in DOMAIN clients /\ me \in ClientConnection
      /\ HeldOf(me) \in Nat /\ Len(me.input_buffer) \in Nat /\ me.output_buffer \in Nat
    BY <1>1, HandledConnection, HeldType DEF BInv
<1>3. CASE ReadSome
    <2>1. PICK n \in 1..kReadChunkSize : \E data \in [1..n -> Token] :
              IF OverBudget(n)
              THEN Reject(me)
              ELSE /\ Keep([me EXCEPT !.input_buffer = @ \o data])
                   /\ global_inflight_bytes' = global_inflight_bytes + n
        BY <1>3 DEF ReadSome
    <2>2. PICK data \in [1..n -> Token] :
              IF OverBudget(n)
              THEN Reject(me)
              ELSE /\ Keep([me EXCEPT !.input_buffer = @ \o data])
                   /\ global_inflight_bytes' = global_inflight_bytes + n
        BY <2>1
    <2>3. CASE OverBudget(n)
        BY <1>1, <2>2, <2>3, HandlerCloseInflight
    <2>4. CASE ~OverBudget(n)
        <3> DEFINE in == me.input_buffer \o data
                   c  == [me EXCEPT !.input_buffer = in]
        <3>1. n \in Nat /\ data \in Seq(Token) /\ Len(data) = n
            <4>1. n \in Nat
                BY SizeAssumption
            <4> QED BY <4>1, BytesProperties
        <3>2. Len(in) = Len(me.input_buffer) + n
            BY <1>2, <3>1, HeldType, ConcatProperties
        <3> HIDE DEF in
        <3>3. c.input_buffer = in /\ c.output_buffer = me.output_buffer
            BY <1>2 DEF ClientConnection
        <3>4. clients' = [clients EXCEPT ![cur.fd] = c]
            BY <2>2, <2>4 DEF Keep, in
        <3> HIDE DEF c
        <3>5. HeldOf(c) = HeldOf(me) + n
            <4>1. HeldOf(c) = (Len(me.input_buffer) + n) + me.output_buffer
                BY <3>2, <3>3 DEF HeldOf
            <4>2. HeldOf(me) = Len(me.input_buffer) + me.output_buffer
                BY DEF HeldOf
            <4> QED BY <1>2, <3>1, <4>1, <4>2
        <3>6. Follows(HeldOf(me), HeldOf(c))
            BY <1>2, <2>2, <2>4, <3>1, <3>5, ReserveFollows
        <3> QED BY <1>2, <3>4, <3>6, HandlerInflight
    <2> QED BY <2>3, <2>4
<1>4. CASE CheckHeaderLimit
    <2>1. CASE HeaderExceedsLimit(me.input_buffer, kMaxHeaderBytes)
        BY <1>1, <1>4, <2>1, HandlerCloseInflight DEF CheckHeaderLimit
    <2>2. CASE ~HeaderExceedsLimit(me.input_buffer, kMaxHeaderBytes)
        BY <1>4, <2>2, SameInflight DEF CheckHeaderLimit, conns
    <2> QED BY <2>1, <2>2
<1> QED BY <1>3, <1>4

(* A handler takes n bytes off its input buffer and releases them. *)
LEMMA TakeInflight ==
    ASSUME BInv, Inv', Handling, NEW n \in Nat, n <= Len(me.input_buffer), NEW c,
           Len(c.input_buffer) = Len(me.input_buffer) - n,
           c.output_buffer = me.output_buffer,
           clients' = [clients EXCEPT ![cur.fd] = c],
           global_inflight_bytes' = ReleaseInflightBytes(n)
    PROVE  BInv'
PROOF
<1>1. /\ cur.fd \in DOMAIN clients /\ me \in ClientConnection
      /\ HeldOf(me) \in Nat /\ Len(me.input_buffer) \in Nat /\ me.output_buffer \in Nat
    BY HandledConnection, HeldType DEF BInv
<1>2. n <= HeldOf(me) /\ HeldOf(c) = HeldOf(me) - n
    BY <1>1 DEF HeldOf
<1>3. Follows(HeldOf(me), HeldOf(c))
    BY <1>1, <1>2, ReleaseFollows
<1> QED BY <1>1, <1>3, HandlerInflight

(* ProcessBufferedHeaders takes a header. *)
LEMMA ProcessInflight ==
    ASSUME BInv, Inv', ProcessHeader
    PROVE  BInv'
PROOF
<1>1. Handling
    BY DEF ProcessHeader, Handling, HandlerPoints
<1>2. me \in ClientConnection /\ me.input_buffer \in Seq(Token)
    BY <1>1, HandledConnection, HeldType DEF BInv
<1> DEFINE Popped(i) == [me EXCEPT !.input_buffer = ConsumePrefix(@, i)]
<1>3. PICK i \in HeaderEnds(me.input_buffer) :
          \/ Reject(me)
          \/ /\ global_inflight_bytes' = ReleaseInflightBytes(i)
             /\ \/ Keep(BeginRequestBodyReceive(Popped(i), me.input_buffer[i]))
                \/ Keep(Popped(i))
    BY DEF ProcessHeader
<1>4. CASE Reject(me)
    BY <1>1, <1>4, HandlerCloseInflight
<1>5. CASE /\ global_inflight_bytes' = ReleaseInflightBytes(i)
           /\ \/ Keep(BeginRequestBodyReceive(Popped(i), me.input_buffer[i]))
              \/ Keep(Popped(i))
    <2>1. i \in Nat /\ i <= Len(me.input_buffer) /\ i \in 0..Len(me.input_buffer)
        BY <1>2 DEF HeaderEnds
    <2> DEFINE rest == ConsumePrefix(me.input_buffer, i)
    <2>2. Len(rest) = Len(me.input_buffer) - i
        BY <1>2, <2>1, SubSeqProperties DEF ConsumePrefix
    <2>3. PICK c \in {BeginRequestBodyReceive(Popped(i), me.input_buffer[i]), Popped(i)} :
              Keep(c)
        BY <1>5
    <2> HIDE DEF rest
    <2>4. c.input_buffer = rest /\ c.output_buffer = me.output_buffer
        BY <1>2, <2>3 DEF BeginRequestBodyReceive, ArmBodyTimeout, ClientConnection, rest
    <2>5. clients' = [clients EXCEPT ![cur.fd] = c]
        BY <2>3 DEF Keep
    <2> QED BY <1>1, <1>5, <2>1, <2>2, <2>4, <2>5, TakeInflight
<1> QED BY <1>3, <1>4, <1>5

(* ConsumePendingRequestBody takes what is there of the body. *)
LEMMA ConsumeInflight ==
    ASSUME BInv, Inv', ConsumePart \/ ConsumeRest
    PROVE  BInv'
PROOF
<1>1. Handling
    BY DEF ConsumePart, ConsumeRest, Handling, HandlerPoints
<1>2. /\ me \in ClientConnection /\ me.input_buffer \in Seq(Token)
      /\ Len(me.input_buffer) \in Nat
    BY <1>1, HandledConnection, HeldType DEF BInv
<1>3. CASE ConsumePart
    <2> DEFINE c == [me EXCEPT !.input_buffer = << >>,
                               !.pending_body_bytes_remaining = @ - Len(me.input_buffer)]
    <2>1. /\ clients' = [clients EXCEPT ![cur.fd] = c]
          /\ global_inflight_bytes' = ReleaseInflightBytes(Len(me.input_buffer))
        BY <1>3 DEF ConsumePart, Keep
    <2>2. Len(c.input_buffer) = 0 /\ c.output_buffer = me.output_buffer
        BY <1>2 DEF ClientConnection
    <2> HIDE DEF c
    <2>3. PICK n \in Nat : n = Len(me.input_buffer)
        BY <1>2
    <2>4. n <= Len(me.input_buffer) /\ Len(c.input_buffer) = Len(me.input_buffer) - n
        BY <2>2, <2>3
    <2>5. global_inflight_bytes' = ReleaseInflightBytes(n)
        BY <2>1, <2>3
    <2> QED BY <1>1, <2>1, <2>2, <2>4, <2>5, TakeInflight
<1>4. CASE ConsumeRest
    <2> DEFINE n    == me.pending_body_bytes_remaining
               rest == ConsumePrefix(me.input_buffer, n)
               c    == DisarmBodyTimeout(
                          [me EXCEPT !.input_buffer = ConsumePrefix(@, n),
                                     !.pending_body_bytes_remaining = 0,
                                     !.waiting_for_request_body = FALSE,
                                     !.pending_request = NoRequest])
    <2>1. /\ clients' = [clients EXCEPT ![cur.fd] = c]
          /\ global_inflight_bytes' = ReleaseInflightBytes(n)
        BY <1>4 DEF ConsumeRest, Keep
    <2>2. n \in Nat /\ n <= Len(me.input_buffer)
        BY <1>2, <1>4 DEF ConsumeRest, ClientConnection
    <2>3. c.input_buffer = rest /\ c.output_buffer = me.output_buffer
        BY <1>2 DEF DisarmBodyTimeout, ClientConnection
    <2> HIDE DEF n, c
    <2>4. Len(rest) = Len(me.input_buffer) - n
        BY <1>2, <2>2, SubSeqProperties DEF ConsumePrefix
    <2> QED BY <1>1, <2>1, <2>2, <2>3, <2>4, TakeInflight
<1> QED BY <1>3, <1>4

(* StartOkResponse keeps what write() did not take, within the budget. *)
LEMMA RespondInflight ==
    ASSUME BInv, Inv', RespondLater \/ RespondNow
    PROVE  BInv'
PROOF
<1>1. Handling
    BY DEF RespondLater, RespondNow, Handling, HandlerPoints
<1>2. /\ cur.fd \in DOMAIN clients /\ me \in ClientConnection
      /\ HeldOf(me) \in Nat /\ Len(me.input_buffer) \in Nat /\ me.output_buffer \in Nat
    BY <1>1, HandledConnection, HeldType DEF BInv
<1>3. ResponseSize \in Nat
    BY Sizes
<1>4. HeldOf(Answered) = HeldOf(me)
    BY <1>2 DEF HeldOf, Answered, ClientConnection
<1>5. ASSUME NEW c, NEW n \in Nat, clients' = [clients EXCEPT ![cur.fd] = c],
             c.input_buffer = me.input_buffer, c.output_buffer = me.output_buffer + n,
             ~OverBudget(n), global_inflight_bytes' = global_inflight_bytes + n
      PROVE  BInv'
    <2>1. HeldOf(c) = HeldOf(me) + n
        BY <1>2, <1>5 DEF HeldOf
    <2>2. Follows(HeldOf(me), HeldOf(c))
        BY <1>2, <1>5, <2>1, ReserveFollows
    <2> QED BY <1>2, <1>5, <2>2, HandlerInflight
<1>6. CASE RespondLater
    <2>1. CASE OverBudget(ResponseSize)
        <3>1. Reject(Answered)
            BY <1>6, <2>1 DEF RespondLater
        <3> QED BY <1>1, <1>4, <3>1, HandlerCloseInflight
    <2>2. CASE ~OverBudget(ResponseSize)
        <3> DEFINE c == UpdateClientPollMask([Answered EXCEPT !.output_buffer = @ + ResponseSize])
        <3>1. /\ clients' = [clients EXCEPT ![cur.fd] = c]
              /\ global_inflight_bytes' = global_inflight_bytes + ResponseSize
            BY <1>6, <2>2 DEF RespondLater, Keep
        <3>2. /\ c.input_buffer = me.input_buffer
              /\ c.output_buffer = me.output_buffer + ResponseSize
            BY <1>2 DEF UpdateClientPollMask, Answered, ClientConnection
        <3> HIDE DEF c
        <3> QED BY <1>3, <1>5, <2>2, <3>1, <3>2
    <2> QED BY <2>1, <2>2
<1>7. CASE RespondNow
    <2>1. PICK n \in 0..ResponseSize :
              \/ /\ ResponseSize - n = 0
                 /\ Keep([Answered EXCEPT !.wire = @ + n])
                 /\ UNCHANGED global_inflight_bytes
              \/ /\ ResponseSize - n > 0 /\ ~OverBudget(ResponseSize - n)
                 /\ Keep(UpdateClientPollMask([[Answered EXCEPT !.wire = @ + n]
                                                  EXCEPT !.output_buffer = ResponseSize - n]))
                 /\ global_inflight_bytes' = global_inflight_bytes + (ResponseSize - n)
        BY <1>7 DEF RespondNow
    <2> DEFINE sent == [Answered EXCEPT !.wire = @ + n]
               rest == ResponseSize - n
               c    == UpdateClientPollMask([sent EXCEPT !.output_buffer = rest])
    <2>2. CASE rest = 0
        <3>1. HeldOf(sent) = HeldOf(me)
            BY <1>2 DEF HeldOf, Answered, ClientConnection
        <3>2. clients' = [clients EXCEPT ![cur.fd] = sent] /\ UNCHANGED global_inflight_bytes
            BY <2>1, <2>2 DEF Keep
        <3> HIDE DEF sent
        <3> QED BY <1>1, <3>1, <3>2, QuietInflight
    <2>3. CASE rest # 0
        <3>1. /\ clients' = [clients EXCEPT ![cur.fd] = c] /\ ~OverBudget(rest)
              /\ global_inflight_bytes' = global_inflight_bytes + rest
            BY <2>1, <2>3 DEF Keep
        <3>2. rest \in Nat
            BY <1>3, <2>1
        <3>3. me.output_buffer = 0
            BY <1>7 DEF RespondNow
        <3> HIDE DEF rest
        <3>4. c.input_buffer = me.input_buffer /\ c.output_buffer = rest
            BY <1>2 DEF UpdateClientPollMask, Answered, ClientConnection
        <3>5. c.output_buffer = me.output_buffer + rest
            BY <3>2, <3>3, <3>4
        <3> HIDE DEF c
        <3> QED BY <1>5, <3>1, <3>2, <3>4, <3>5
    <2> QED BY <2>2, <2>3
<1> QED BY <1>6, <1>7

-----------------------------------------------------------------------------
LEMMA InitBInv == Init => BInv
PROOF
<1> SUFFICES ASSUME Init PROVE BInv
    OBVIOUS
<1>1. Inv /\ clients = << >> /\ global_inflight_bytes = 0
    BY InitInv DEF Init
<1>2. DOMAIN Holdings(clients) = {}
    BY <1>1 DEF Holdings
<1>3. SumFunction(Holdings(clients)) = 0
    BY <1>2, SumIsTotal, TotalEmpty
<1>4. 0 <= kMaxInflightBytes
    BY SizeAssumption
<1> QED BY <1>1, <1>3, <1>4, HeldIsExact DEF BInv

LEMMA NextBInv == BInv /\ [Next]_vars => BInv'
PROOF
<1> SUFFICES ASSUME BInv, [Next]_vars PROVE BInv'
    OBVIOUS
<1>1. Inv'
    BY NextInv DEF BInv
<1>2. CASE \/ ExpireTimer \/ HandleHangUp \/ EnforceConnectionLimit
           \/ PopReady \/ RegisterAcceptedConnection
    BY <1>1, <1>2, LoopInflight
<1>3. CASE \/ ContinueWithRead \/ EventRead \/ FlushPauses \/ FlushedRequeues
           \/ FlushedIdles \/ ChunkDone \/ TailRequeues \/ TailArms
    BY <1>1, <1>3, QuietSteps
<1>4. CASE FlushedCloses \/ ReadEnds \/ TailCloses \/ WriteFails \/ RespondOverBudget
    BY <1>1, <1>4, ClosingSteps
<1>5. CASE FlushWrites
    BY <1>1, <1>5, FlushInflight
<1>6. CASE ReadSome \/ CheckHeaderLimit
    BY <1>1, <1>6, ReadInflight
<1>7. CASE ProcessHeader
    BY <1>1, <1>7, ProcessInflight
<1>8. CASE ConsumePart \/ ConsumeRest
    BY <1>1, <1>8, ConsumeInflight
<1>9. CASE RespondLater \/ RespondNow
    BY <1>1, <1>9, RespondInflight
<1>10. CASE UNCHANGED <<clients, global_inflight_bytes>>
    BY <1>1, <1>10, SameInflight
(* The other steps move on within a handler or the loop, or end the process. *)
<1>11. CASE LoopStep \/ HandleClientEvent \/ HandlerMove \/ BrokenPipe \/ Exited
            \/ UNCHANGED vars
    <2>1. UNCHANGED <<clients, global_inflight_bytes>>
        BY <1>11
        DEF LoopStep, HandleClientEvent, HandlerMove, BrokenPipe, Exited, vars, conns, Exit,
            ReadyQueueDone, TimersDone, Wait, BatchDone, HandleListenEvent, AcceptQueueEmpty,
            AcceptFails, FlushPendingCloseQueue, StopRequested,
            ContinueWithBody, ContinueWithHeaders, ContinueReturns, EventReturns,
            ReadWouldBlock, ProcessStops, TailReturns
    <2> QED BY <1>10, <2>1
<1> QED BY <1>2, <1>3, <1>4, <1>5, <1>6, <1>7, <1>8, <1>9, <1>11
    DEF Next, LoopStep, HandlerMove

(* global_inflight_bytes is what the input and output buffers of the open  *)
(* connections hold together, over every append, pop, flush, rejection and *)
(* close, and never more than kMaxInflightBytes: nothing is released twice *)
(* and nothing is forgotten, for any number of connections.                *)
THEOREM InflightIsExact == Spec => []InflightExact
PROOF
<1>1. BInv => InflightExact
    BY DEF BInv
<1> QED BY <1>1, InitBInv, NextBInv, PTL DEF Spec
=============================================================================
