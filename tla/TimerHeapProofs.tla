-------------------------- MODULE TimerHeapProofs --------------------------
(* Proofs about TimerHeap for every timeout, every clock and every amount  *)
(* of work the thread may do between two passes over the heap.             *)
EXTENDS TimerHeap, TLAPS

-----------------------------------------------------------------------------
LEMMA Truncation ==
    ASSUME NEW a \in Nat, NEW k \in Nat \ {0}
    PROVE  /\ a \div k \in Nat
           /\ k * (a \div k) \in Nat
           /\ k * (a \div k) <= a
           /\ a < k * (1 + (a \div k))
           /\ k <= k * (1 + (a \div k))
PROOF
<1>1. PICK q \in Nat : q = a \div k
    OBVIOUS
<1>2. /\ k * q <= a /\ a < k * q + k
    <2>1. a = k * (a \div k) + (a % k) /\ a % k \in 0..k-1
        OBVIOUS
    <2> QED
        BY <1>1, <2>1
<1>3. k * q \in Nat /\ k * (1 + q) = k + k * q
    BY <1>1
<1> QED
    BY <1>1, <1>2, <1>3

LEMMA Longer ==
    ASSUME NEW k \in Nat \ {0}, NEW a \in Nat, NEW b \in Nat, a <= b
    PROVE  k * a \in Nat /\ k * b \in Nat /\ k * a <= k * b
PROOF
<1>1. PICK d \in Nat : b = a + d
    BY b - a \in Nat
<1>2. k * b = k * a + k * d /\ k * a \in Nat /\ k * d \in Nat
    BY <1>1
<1> QED
    BY <1>2

-----------------------------------------------------------------------------
(* The inductive invariant.                                                *)

Types ==
    /\ now \in Nat /\ snapshot \in Nat /\ work \in 0..MaxWork /\ slept \in Nat
    /\ wait_timeout_ms \in 0..kMaxPollMs
    /\ pc \in Points
    /\ next_metrics_log_time \in Nat /\ lines \in Nat
    /\ stop_at \in Nat \cup {NotStopped}
    /\ next_connection_id \in Nat \ {0}
    /\ DOMAIN clients \subseteq Fd /\ clients \in [DOMAIN clients -> ClientConnection]
    /\ timer_heap \subseteq TimerEntry
    /\ expired \subseteq ArmedTimer

(* Where the time since the last pass began has gone. *)
ClockInv ==
    /\ now = snapshot + work + slept
    /\ pc \notin {"wait", "events"} => slept = 0
    /\ pc = "wait" => slept <= kMs * wait_timeout_ms
    /\ slept <= kMs * kMaxPollMs

(* Which of a connection's entries may be live.                            *)
HeapInv ==
    /\ \A fd \in DOMAIN clients : clients[fd].connection_id < next_connection_id
    /\ \A f, g \in DOMAIN clients : clients[f].connection_id = clients[g].connection_id => f = g
    /\ \A e \in timer_heap : e.connection_id < next_connection_id
    /\ \A e \in timer_heap, fd \in DOMAIN clients :
          e.connection_id = clients[fd].connection_id =>
             /\ e.fd = fd
             /\ e.generation <= clients[fd].generation[e.kind]
             /\ e.kind \notin clients[fd].armed =>
                   e.generation < clients[fd].generation[e.kind]
    /\ \A e, f \in timer_heap :
          /\ e.connection_id = f.connection_id /\ e.kind = f.kind
          /\ e.generation = f.generation
          => e = f
    /\ \A fd \in DOMAIN clients : \A k \in clients[fd].armed :
          \E e \in timer_heap : Live(e) /\ e.fd = fd /\ e.kind = k

(* No sleep lasts beyond a deadline, and what is due has just become so.    *)
DueInv ==
    /\ Passing => \A e \in timer_heap : snapshot <= e.deadline + MaxWork
    /\ ~Passing => \A e \in timer_heap :
                      snapshot < e.deadline /\ snapshot + slept <= e.deadline
    /\ pc \in {"poll_metrics", "wait"} /\ wait_timeout_ms > 0 =>
          \A e \in timer_heap : snapshot + kMs * wait_timeout_ms <= e.deadline

MetricsInv ==
    /\ kMetricsLogInterval * lines \in Nat
    /\ kMetricsLogInterval * lines < next_metrics_log_time
    /\ IF pc \in {"passing", "metrics", "passing_after", "metrics_after"}
       THEN snapshot <= next_metrics_log_time + MaxWork
       ELSE snapshot < next_metrics_log_time /\ snapshot + slept <= next_metrics_log_time
    /\ pc = "wait" /\ wait_timeout_ms > 0 =>
          snapshot + kMs * wait_timeout_ms <= next_metrics_log_time

(* How much of the round in which the signal came is over.                  *)
StopInv ==
    stop_at # NotStopped =>
        /\ pc = "ready" => snapshot <= stop_at
        /\ pc \in {"passing", "metrics", "poll", "poll_metrics", "wait", "events"} =>
              snapshot <= stop_at + MaxWork
        /\ pc \in {"passing_after", "metrics_after", "flush", "final"} =>
              snapshot <= stop_at + 2 * MaxWork + kMs * kMaxPollMs

Inv == Types /\ ClockInv /\ HeapInv /\ DueInv /\ MetricsInv /\ StopInv

LEMMA Numbers ==
    /\ kMs \in Nat \ {0} /\ kMaxPollMs \in Nat \ {0} /\ kMetricsLogInterval \in Nat \ {0}
    /\ kHeaderTimeout \in Nat \ {0} /\ kIdleKeepAliveTimeout \in Nat \ {0}
    /\ MaxWork \in Nat /\ kMs * kMaxPollMs \in Nat
PROOF
BY TimeAssumption

LEMMA InitInv == Init => Inv
PROOF
<1> SUFFICES ASSUME Init PROVE Inv
    OBVIOUS
<1> USE Numbers DEF Init
<1>1. DOMAIN clients = {} /\ clients \in [{} -> ClientConnection]
    OBVIOUS
<1>2. Types
    BY <1>1 DEF Types, Points, NotStopped
<1>3. ClockInv
    BY DEF ClockInv
<1>4. HeapInv
    BY <1>1 DEF HeapInv
<1>5. DueInv
    BY DEF DueInv, Passing
<1>6. MetricsInv
    <2>1. kMetricsLogInterval * 0 = 0
        OBVIOUS
    <2> QED
        BY <2>1 DEF MetricsInv
<1>7. StopInv
    BY DEF StopInv
<1> QED
    BY <1>2, <1>3, <1>4, <1>5, <1>6, <1>7 DEF Inv

-----------------------------------------------------------------------------
(* A connection's timers before and after it arms those in N and disarms    *)
(* some others: every entry pushed before is outdated, but for timers that  *)
(* are left as they were.                                                   *)
Supersedes(old, c, N) ==
    /\ c \in ClientConnection /\ c.connection_id = old.connection_id /\ N \subseteq c.armed
    /\ \A k \in N : c.generation[k] > old.generation[k]
    /\ \A k \in TimerKind \ N :
          \/ k \in c.armed /\ k \in old.armed /\ c.generation[k] = old.generation[k]
          \/ k \notin c.armed /\ k \in old.armed /\ c.generation[k] > old.generation[k]
          \/ k \notin c.armed /\ k \notin old.armed /\ c.generation[k] = old.generation[k]

LEMMA Bumped ==
    ASSUME NEW c \in ClientConnection, NEW kinds
    PROVE  /\ Bump(c, kinds) \in [TimerKind -> Nat]
           /\ \A k \in TimerKind :
                 Bump(c, kinds)[k] = IF k \in kinds THEN c.generation[k] + 1 ELSE c.generation[k]
PROOF
BY DEF Bump, ClientConnection

LEMMA DisarmSupersedes ==
    ASSUME NEW old \in ClientConnection, NEW kinds
    PROVE  /\ Disarm(old, kinds) \in ClientConnection
           /\ Disarm(old, kinds).connection_id = old.connection_id
           /\ Disarm(old, kinds).armed = old.armed \ kinds
           /\ \A k \in TimerKind :
                 Disarm(old, kinds).generation[k] =
                    IF k \in old.armed \cap kinds THEN old.generation[k] + 1
                    ELSE old.generation[k]
           /\ Supersedes(old, Disarm(old, kinds), {})
PROOF
<1> DEFINE c == Disarm(old, kinds)
           g == Bump(old, old.armed \cap kinds)
<1>1. /\ g \in [TimerKind -> Nat]
      /\ \A k \in TimerKind : g[k] = IF k \in old.armed \cap kinds THEN old.generation[k] + 1
                                     ELSE old.generation[k]
    BY Bumped
<1> HIDE DEF g
<1>2. /\ c \in ClientConnection /\ c.connection_id = old.connection_id
      /\ c.armed = old.armed \ kinds /\ c.generation = g
    BY <1>1 DEF Disarm, ClientConnection, g
<1>3. \A k \in TimerKind : old.generation[k] \in Nat
    BY DEF ClientConnection
<1> HIDE DEF c
<1>4. Supersedes(old, c, {})
    BY <1>1, <1>2, <1>3 DEF Supersedes
<1> QED
    BY <1>1, <1>2, <1>4 DEF c

LEMMA ArmSupersedes ==
    ASSUME NEW old \in ClientConnection, NEW kinds, NEW kind \in TimerKind
    PROVE  /\ Arm(Disarm(old, kinds), kind) \in ClientConnection
           /\ Supersedes(old, Arm(Disarm(old, kinds), kind), {kind})
PROOF
<1> DEFINE d == Disarm(old, kinds)
           c == Arm(d, kind)
           g == Bump(d, {kind})
<1>1. /\ d \in ClientConnection /\ d.connection_id = old.connection_id
      /\ d.armed = old.armed \ kinds
      /\ \A k \in TimerKind :
            d.generation[k] = IF k \in old.armed \cap kinds THEN old.generation[k] + 1
                              ELSE old.generation[k]
    BY DisarmSupersedes
<1> HIDE DEF d
<1>2. /\ g \in [TimerKind -> Nat]
      /\ \A k \in TimerKind : g[k] = IF k = kind THEN d.generation[k] + 1 ELSE d.generation[k]
    BY <1>1, Bumped
<1> HIDE DEF g
<1>3. /\ c \in ClientConnection /\ c.connection_id = old.connection_id
      /\ c.armed = d.armed \cup {kind} /\ c.generation = g
    BY <1>1, <1>2 DEF Arm, ClientConnection, g
<1>4. \A k \in TimerKind : old.generation[k] \in Nat
    BY DEF ClientConnection
<1> HIDE DEF c
<1>5. Supersedes(old, c, {kind})
    <2>1. c.generation[kind] > old.generation[kind]
        BY <1>1, <1>2, <1>3, <1>4
    <2>2. ASSUME NEW k \in TimerKind \ {kind}
          PROVE  \/ k \in c.armed /\ k \in old.armed /\ c.generation[k] = old.generation[k]
                 \/ k \notin c.armed /\ k \in old.armed /\ c.generation[k] > old.generation[k]
                 \/ k \notin c.armed /\ k \notin old.armed /\ c.generation[k] = old.generation[k]
        BY <1>1, <1>2, <1>3, <1>4
    <2> QED
        BY <1>3, <2>1, <2>2 DEF Supersedes
<1> QED
    BY <1>3, <1>5 DEF c, d

(* The same of the entries: a handler that leaves the heap as it is, or     *)
(* pushes the entry of the timer it armed.                                  *)
Pushed(fd, c, N) ==
    /\ DOMAIN clients' = DOMAIN clients
    /\ clients'[fd] = c
    /\ \A f \in DOMAIN clients : f # fd => clients'[f] = clients[f]
    /\ next_connection_id' = next_connection_id
    /\ timer_heap \subseteq timer_heap'
    /\ \A e \in timer_heap' \ timer_heap :
          /\ e.fd = fd /\ e.connection_id = c.connection_id /\ e.kind \in N
          /\ e.generation = c.generation[e.kind] /\ e \in TimerEntry
    /\ \A e, f \in timer_heap' \ timer_heap : e = f
    /\ \A k \in N : \E e \in timer_heap' \ timer_heap : e.kind = k

LEMMA PushedKeepsHeap ==
    ASSUME Types, HeapInv, NEW fd \in DOMAIN clients, NEW c, NEW N \in SUBSET TimerKind,
           Supersedes(clients[fd], c, N), Pushed(fd, c, N)
    PROVE  HeapInv' /\ \A e \in timer_heap' : Live(e)' =>
                          \/ e \in timer_heap /\ Live(e)
                          \/ e \in timer_heap' \ timer_heap
PROOF
<1> DEFINE old == clients[fd]
<1>1. /\ old \in ClientConnection /\ c \in ClientConnection
      /\ c.connection_id = old.connection_id
      /\ \A k \in TimerKind : c.generation[k] \in Nat /\ old.generation[k] \in Nat
                              /\ c.generation[k] >= old.generation[k]
    <2>1. old \in ClientConnection /\ c \in ClientConnection /\ c.connection_id = old.connection_id
        BY DEF Types, Supersedes
    <2>2. \A k \in TimerKind : c.generation[k] \in Nat /\ old.generation[k] \in Nat
        BY <2>1 DEF ClientConnection
    <2>3. \A k \in TimerKind : c.generation[k] >= old.generation[k]
        BY <2>2 DEF Supersedes
    <2> QED
        BY <2>1, <2>2, <2>3
<1>2. \A f \in DOMAIN clients : clients'[f].connection_id = clients[f].connection_id
    BY <1>1 DEF Pushed
<1>3. \A e \in timer_heap : e \in TimerEntry /\ e.kind \in TimerKind /\ e.generation \in Nat
    BY DEF Types, TimerEntry
<1>4. \A e \in timer_heap : e.connection_id = old.connection_id =>
         e.fd = fd /\ e.generation <= old.generation[e.kind]
         /\ (e.kind \notin old.armed => e.generation < old.generation[e.kind])
    BY DEF HeapInv
<1>5. \A e \in timer_heap' \ timer_heap :
         /\ e.fd = fd /\ e.connection_id = old.connection_id /\ e.kind \in N
         /\ e.generation = c.generation[e.kind] /\ e.generation > old.generation[e.kind]
    BY <1>1 DEF Pushed, Supersedes
<1>6. ASSUME NEW e \in timer_heap', NEW f \in DOMAIN clients',
             e.connection_id = clients'[f].connection_id
      PROVE  /\ e.fd = f
             /\ e.generation <= clients'[f].generation[e.kind]
             /\ e.kind \notin clients'[f].armed => e.generation < clients'[f].generation[e.kind]
    <2>1. CASE e \in timer_heap /\ f # fd
        BY <1>6, <2>1 DEF HeapInv, Pushed
    <2>2. CASE e \in timer_heap /\ f = fd
        <3>1. clients'[f] = c /\ e.connection_id = old.connection_id
            BY <1>1, <1>6, <2>2 DEF Pushed
        <3>2. /\ e.fd = fd /\ e.kind \in TimerKind /\ e.generation \in Nat
              /\ e.generation <= old.generation[e.kind]
              /\ e.kind \notin old.armed => e.generation < old.generation[e.kind]
            BY <1>3, <1>4, <2>2, <3>1
        <3>3. /\ c.generation[e.kind] \in Nat /\ old.generation[e.kind] \in Nat
              /\ c.generation[e.kind] >= old.generation[e.kind]
              /\ e.kind \notin c.armed =>
                    c.generation[e.kind] > old.generation[e.kind] \/ e.kind \notin old.armed
            BY <1>1, <3>2 DEF Supersedes
        <3> QED
            BY <2>2, <3>1, <3>2, <3>3
    <2>3. CASE e \notin timer_heap
        <3>1. e.connection_id = clients[fd].connection_id
              /\ clients'[f].connection_id = clients[f].connection_id
            BY <1>2, <1>5, <2>3 DEF Pushed
        <3>2. f = fd
            BY <1>6, <3>1 DEF HeapInv, Pushed
        <3>3. clients'[f] = c /\ e.kind \in c.armed /\ e.kind \in TimerKind
            BY <1>5, <2>3, <3>2 DEF Pushed, Supersedes
        <3> QED
            BY <1>1, <1>5, <2>3, <3>2, <3>3
    <2> QED
        BY <2>1, <2>2, <2>3
<1>7. ASSUME NEW e \in timer_heap', NEW f \in timer_heap',
             e.connection_id = f.connection_id, e.kind = f.kind, e.generation = f.generation
      PROVE  e = f
    <2>1. CASE e \in timer_heap /\ f \in timer_heap
        BY <1>7, <2>1 DEF HeapInv
    <2>2. CASE e \in timer_heap /\ f \notin timer_heap
        BY <1>1, <1>3, <1>4, <1>5, <1>7, <2>2
    <2>3. CASE e \notin timer_heap /\ f \in timer_heap
        BY <1>1, <1>3, <1>4, <1>5, <1>7, <2>3
    <2>4. CASE e \notin timer_heap /\ f \notin timer_heap
        BY <2>4 DEF Pushed
    <2> QED
        BY <2>1, <2>2, <2>3, <2>4
<1>8. ASSUME NEW f \in DOMAIN clients', NEW k \in clients'[f].armed
      PROVE  \E e \in timer_heap' : Live(e)' /\ e.fd = f /\ e.kind = k
    <2>1. CASE f # fd
        <3>1. f \in DOMAIN clients /\ clients'[f] = clients[f] /\ k \in clients[f].armed
            BY <2>1 DEF Pushed
        <3>2. PICK e \in timer_heap : Live(e) /\ e.fd = f /\ e.kind = k
            BY <3>1 DEF HeapInv
        <3>3. Live(e)'
            BY <3>1, <3>2 DEF Live, Pushed
        <3> QED
            BY <3>2, <3>3 DEF Pushed
    <2>2. CASE f = fd /\ k \in N
        <3>1. PICK e \in timer_heap' \ timer_heap : e.kind = k
            BY <2>2 DEF Pushed
        <3>2. Live(e)'
            BY <1>1, <1>5, <2>2, <3>1 DEF Live, Pushed
        <3> QED
            BY <1>5, <2>2, <3>1, <3>2
    <2>3. CASE f = fd /\ k \notin N
        <3>1. clients'[fd] = c /\ k \in c.armed /\ k \in TimerKind
            BY <1>1, <2>3 DEF Pushed, ClientConnection
        <3>2. k \in old.armed /\ c.generation[k] = old.generation[k]
            BY <2>3, <3>1 DEF Supersedes
        <3>3. PICK e \in timer_heap : Live(e) /\ e.fd = fd /\ e.kind = k
            BY <3>2 DEF HeapInv
        <3>4. Live(e)'
            BY <1>1, <3>1, <3>2, <3>3 DEF Live, Pushed
        <3> QED
            BY <2>3, <3>3, <3>4 DEF Pushed
    <2> QED
        BY <2>1, <2>2, <2>3
<1>9. ASSUME NEW e \in timer_heap', Live(e)', e \in timer_heap PROVE Live(e)
    <2>1. CASE e.fd # fd
        BY <1>9, <2>1 DEF Live, Pushed
    <2>2. CASE e.fd = fd
        <3>1. clients'[fd] = c /\ e.kind \in TimerKind /\ e.generation \in Nat
            BY <1>3, <1>9 DEF Pushed
        <3>2. /\ clients'[e.fd].connection_id = e.connection_id
               /\ e.kind \in clients'[e.fd].armed
               /\ clients'[e.fd].generation[e.kind] = e.generation
            BY <1>9 DEF Live
        <3>3. clients'[fd] = c /\ e.kind \in TimerKind /\ e.generation \in Nat
              /\ e.connection_id = old.connection_id /\ e.kind \in c.armed
              /\ c.generation[e.kind] = e.generation
            BY <1>1, <2>2, <3>1, <3>2
        <3>4. e.generation <= old.generation[e.kind]
            BY <1>4, <1>9, <3>3
        <3>5. e.kind \notin N
            BY <1>1, <3>3, <3>4 DEF Supersedes
        <3>6. e.kind \in old.armed /\ c.generation[e.kind] = old.generation[e.kind]
            BY <3>3, <3>5 DEF Supersedes
        <3> QED
            BY <2>2, <3>3, <3>6, <1>9 DEF Live
    <2> QED
        BY <2>1, <2>2
<1>10. /\ \A f \in DOMAIN clients' : clients'[f].connection_id < next_connection_id'
       /\ \A f, g \in DOMAIN clients' :
             clients'[f].connection_id = clients'[g].connection_id => f = g
       /\ \A e \in timer_heap' : e.connection_id < next_connection_id'
    BY <1>2, <1>5 DEF HeapInv, Pushed
<1>11. HeapInv'
    BY <1>6, <1>7, <1>8, <1>10 DEF HeapInv
<1> QED
    BY <1>9, <1>11

-----------------------------------------------------------------------------
(* Every handler leaves HeapInv true, pushes only deadlines in the future,  *)
(* and touches the timers of one connection.                                *)
ClientTypes ==
    /\ DOMAIN clients \subseteq Fd /\ clients \in [DOMAIN clients -> ClientConnection]
    /\ timer_heap \subseteq TimerEntry
    /\ next_connection_id \in Nat \ {0}

StillLive(e) == e \in timer_heap' /\ Live(e)'

Touches(id) ==
    /\ \A e \in timer_heap' : Live(e)' =>
          \/ e \in timer_heap /\ Live(e)
          \/ e \in timer_heap' \ timer_heap /\ e.connection_id = id
    /\ \A e \in timer_heap : Live(e) => StillLive(e) \/ e.connection_id = id

Handled ==
    /\ ClientTypes' /\ HeapInv'
    /\ \A e \in timer_heap' \ timer_heap : e.deadline > now
    /\ \E id \in Nat : Touches(id)

LEMMA EntryNumbers ==
    ASSUME Types, NEW e \in timer_heap
    PROVE  /\ e.deadline \in Nat /\ e.generation \in Nat /\ e.kind \in TimerKind
           /\ e.fd \in Fd /\ e.connection_id \in Nat \ {0}
PROOF
BY DEF Types, TimerEntry

LEMMA PushedTouches ==
    ASSUME Types, HeapInv, NEW fd \in DOMAIN clients, NEW c, NEW N \in SUBSET TimerKind,
           Supersedes(clients[fd], c, N), Pushed(fd, c, N),
           clients' \in [DOMAIN clients -> ClientConnection],
           \A e \in timer_heap' \ timer_heap : e.deadline > now
    PROVE  Handled
PROOF
<1> DEFINE id == clients[fd].connection_id
<1>1. HeapInv' /\ \A e \in timer_heap' : Live(e)' =>
                     \/ e \in timer_heap /\ Live(e)
                     \/ e \in timer_heap' \ timer_heap
    BY PushedKeepsHeap
<1>2. id \in Nat /\ c.connection_id = id
    BY DEF Types, ClientConnection, Supersedes
<1>3. \A e \in timer_heap' \ timer_heap : e.connection_id = id
    BY <1>2 DEF Pushed
<1>4. ASSUME NEW e \in timer_heap, Live(e), e.connection_id # id PROVE StillLive(e)
    <2>1. e.fd # fd /\ e.fd \in DOMAIN clients /\ clients'[e.fd] = clients[e.fd]
        BY <1>4 DEF Live, Pushed
    <2> QED
        BY <1>4, <2>1 DEF StillLive, Live, Pushed
<1>5. Touches(id)
    BY <1>1, <1>3, <1>4 DEF Touches
<1>6. ClientTypes'
    BY DEF ClientTypes, Types, Pushed
<1> QED
    BY <1>1, <1>2, <1>5, <1>6 DEF Handled

LEMMA PushIsPushed ==
    ASSUME Types, HeapInv, NEW fd \in DOMAIN clients, NEW c, NEW kind \in TimerKind,
           NEW deadline \in Nat, deadline > now,
           Supersedes(clients[fd], c, {kind}), Push(fd, c, kind, deadline),
           UNCHANGED next_connection_id
    PROVE  Handled
PROOF
<1> DEFINE old == clients[fd]
           new == [deadline |-> deadline, fd |-> fd, connection_id |-> c.connection_id,
                   generation |-> c.generation[kind], kind |-> kind]
<1>1. /\ old \in ClientConnection /\ c \in ClientConnection
      /\ c.connection_id = old.connection_id /\ c.generation[kind] > old.generation[kind]
      /\ fd \in Fd
    BY DEF Types, Supersedes
<1>2. c.generation[kind] \in Nat /\ old.generation[kind] \in Nat
    BY <1>1 DEF ClientConnection
<1>3. new \in TimerEntry
    BY <1>1, <1>2 DEF TimerEntry, ClientConnection
<1>4. /\ new.deadline = deadline /\ new.fd = fd /\ new.connection_id = old.connection_id
      /\ new.connection_id = c.connection_id
      /\ new.generation = c.generation[kind] /\ new.kind = kind
    BY <1>1
<1>5. timer_heap' = timer_heap \cup {new}
    BY DEF Push
<1>6. clients' = [f \in DOMAIN clients |-> IF f = fd THEN c ELSE clients[f]]
    BY DEF Push
<1> HIDE DEF new
<1>7. new \notin timer_heap
    <2> SUFFICES ASSUME new \in timer_heap PROVE FALSE
        OBVIOUS
    <2>1. new.generation <= old.generation[kind]
        BY <1>4 DEF HeapInv
    <2> QED
        BY <1>1, <1>2, <1>4, <2>1
<1>8. timer_heap' \ timer_heap = {new}
    BY <1>5, <1>7
<1>9. clients' \in [DOMAIN clients -> ClientConnection]
    BY <1>1, <1>6 DEF Types
<1>10. Pushed(fd, c, {kind})
    BY <1>3, <1>4, <1>5, <1>6, <1>8 DEF Pushed
<1>11. \A e \in timer_heap' \ timer_heap : e.deadline > now
    BY <1>4, <1>8
<1> QED
    BY <1>9, <1>10, <1>11, PushedTouches

LEMMA BodyDeadline ==
    ASSUME now \in Nat, NEW ticks \in BodyTicks
    PROVE  /\ CalculateBodyReceiveDeadline(ticks) \in Nat
           /\ CalculateBodyReceiveDeadline(ticks) > now
PROOF
<1>1. ticks \in Nat /\ kBodyTimeout \in Nat \ {0} /\ kBodyMinimum \in Nat \ {0}
    BY TimeAssumption
<1> QED
    BY <1>1 DEF CalculateBodyReceiveDeadline, AtMost

LEMMA ArmHandled ==
    ASSUME Types, HeapInv, NEW fd \in Fd,
           ArmHeaderTimeout(fd) \/ ArmBodyTimeout(fd) \/ ArmIdleKeepAliveTimeout(fd)
    PROVE  Handled
PROOF
<1>1. fd \in DOMAIN clients /\ clients[fd] \in ClientConnection /\ now \in Nat
    BY DEF ArmHeaderTimeout, ArmBodyTimeout, ArmIdleKeepAliveTimeout, Types
<1>2. \A kinds : \A kind \in TimerKind :
         Supersedes(clients[fd], Arm(Disarm(clients[fd], kinds), kind), {kind})
    BY <1>1, ArmSupersedes
<1>3. "header" \in TimerKind /\ "body" \in TimerKind /\ "idle" \in TimerKind
    BY DEF TimerKind
<1>4. CASE ArmHeaderTimeout(fd)
    <2>1. now + kHeaderTimeout \in Nat /\ now + kHeaderTimeout > now
        BY <1>1, Numbers
    <2> QED
        BY <1>1, <1>2, <1>3, <1>4, <2>1, PushIsPushed DEF ArmHeaderTimeout
<1>5. CASE ArmBodyTimeout(fd)
    <2>1. PICK ticks \in BodyTicks :
             Push(fd, Arm(Disarm(clients[fd], TimerKind), "body"), "body",
                  CalculateBodyReceiveDeadline(ticks))
        BY <1>5 DEF ArmBodyTimeout
    <2>2. /\ CalculateBodyReceiveDeadline(ticks) \in Nat
          /\ CalculateBodyReceiveDeadline(ticks) > now
        BY <1>1, BodyDeadline
    <2> QED
        BY <1>1, <1>2, <1>3, <1>5, <2>1, <2>2, PushIsPushed DEF ArmBodyTimeout
<1>6. CASE ArmIdleKeepAliveTimeout(fd)
    <2>1. now + kIdleKeepAliveTimeout \in Nat /\ now + kIdleKeepAliveTimeout > now
        BY <1>1, Numbers
    <2> QED
        BY <1>1, <1>2, <1>3, <1>6, <2>1, PushIsPushed DEF ArmIdleKeepAliveTimeout
<1> QED
    BY <1>4, <1>5, <1>6

LEMMA DisarmHandled ==
    ASSUME Types, HeapInv, NEW fd \in Fd, NEW kinds, DisarmTimeouts(fd, kinds)
    PROVE  Handled
PROOF
<1> DEFINE c == Disarm(clients[fd], kinds)
<1>1. fd \in DOMAIN clients /\ clients[fd] \in ClientConnection
    BY DEF DisarmTimeouts, Types
<1>2. c \in ClientConnection /\ Supersedes(clients[fd], c, {})
    BY <1>1, DisarmSupersedes
<1>3. /\ clients' = [clients EXCEPT ![fd] = c]
      /\ timer_heap' = timer_heap /\ next_connection_id' = next_connection_id
    BY DEF DisarmTimeouts
<1> HIDE DEF c
<1>4. Pushed(fd, c, {})
    BY <1>1, <1>3 DEF Pushed, Types
<1>5. clients' \in [DOMAIN clients -> ClientConnection]
    BY <1>1, <1>2, <1>3 DEF Types
<1> QED
    BY <1>1, <1>2, <1>3, <1>4, <1>5, PushedTouches

(* A connection is closed by a handler, or by its timer.                    *)
Closed(fd) ==
    /\ clients' = Restrict(clients, DOMAIN clients \ {fd})
    /\ next_connection_id' = next_connection_id
    /\ timer_heap' \subseteq timer_heap
    /\ \A e \in timer_heap : Live(e) /\ e.fd # fd => e \in timer_heap'

LEMMA ClosedKeepsHeap ==
    ASSUME Types, HeapInv, NEW fd \in DOMAIN clients, Closed(fd)
    PROVE  /\ ClientTypes' /\ HeapInv'
           /\ \A e \in timer_heap : StillLive(e) <=> Live(e) /\ e.fd # fd
PROOF
<1>1. /\ DOMAIN clients' = DOMAIN clients \ {fd}
      /\ \A f \in DOMAIN clients' : clients'[f] = clients[f]
      /\ clients' \in [DOMAIN clients' -> ClientConnection]
    BY DEF Closed, Restrict, Types
<1>2. ClientTypes'
    BY <1>1 DEF ClientTypes, Types, Closed
<1>3. ASSUME NEW e \in timer_heap
      PROVE  StillLive(e) <=> Live(e) /\ e.fd # fd
    <2>1. Live(e)' <=> Live(e) /\ e.fd # fd
        BY <1>1 DEF Live
    <2> QED
        BY <2>1 DEF StillLive, Closed
<1>4. ASSUME NEW f \in DOMAIN clients', NEW k \in clients'[f].armed
      PROVE  \E e \in timer_heap' : Live(e)' /\ e.fd = f /\ e.kind = k
    <2>1. f \in DOMAIN clients /\ f # fd /\ k \in clients[f].armed
        BY <1>1, <1>4
    <2>2. PICK e \in timer_heap : Live(e) /\ e.fd = f /\ e.kind = k
        BY <2>1 DEF HeapInv
    <2>3. StillLive(e)
        BY <1>3, <2>1, <2>2
    <2> QED
        BY <2>2, <2>3 DEF StillLive
<1>5. /\ \A f \in DOMAIN clients' : clients'[f].connection_id < next_connection_id'
      /\ \A f, g \in DOMAIN clients' :
            clients'[f].connection_id = clients'[g].connection_id => f = g
      /\ \A e \in timer_heap' : e.connection_id < next_connection_id'
    <2>1. \A f \in DOMAIN clients' : f \in DOMAIN clients /\ clients'[f] = clients[f]
        BY <1>1
    <2>2. /\ \A f \in DOMAIN clients : clients[f].connection_id < next_connection_id
          /\ \A f, g \in DOMAIN clients :
                clients[f].connection_id = clients[g].connection_id => f = g
          /\ \A e \in timer_heap : e.connection_id < next_connection_id
        BY DEF HeapInv
    <2>3. \A e \in timer_heap' : e \in timer_heap
        BY DEF Closed
    <2>4. next_connection_id' = next_connection_id
        BY DEF Closed
    <2>5. \A f \in DOMAIN clients' : clients'[f].connection_id < next_connection_id'
        BY <2>1, <2>2, <2>4
    <2>6. \A f, g \in DOMAIN clients' :
             clients'[f].connection_id = clients'[g].connection_id => f = g
        BY <2>1, <2>2
    <2> QED
        BY <2>2, <2>3, <2>4, <2>5, <2>6
<1>6. \A e \in timer_heap', f \in DOMAIN clients' :
          e.connection_id = clients'[f].connection_id =>
             /\ e.fd = f
             /\ e.generation <= clients'[f].generation[e.kind]
             /\ e.kind \notin clients'[f].armed =>
                   e.generation < clients'[f].generation[e.kind]
    <2> SUFFICES ASSUME NEW e \in timer_heap', NEW f \in DOMAIN clients',
                        e.connection_id = clients'[f].connection_id
                 PROVE  /\ e.fd = f
                        /\ e.generation <= clients'[f].generation[e.kind]
                        /\ e.kind \notin clients'[f].armed =>
                              e.generation < clients'[f].generation[e.kind]
        OBVIOUS
    <2>1. e \in timer_heap /\ f \in DOMAIN clients /\ clients'[f] = clients[f]
        BY <1>1 DEF Closed
    <2> QED
        BY <2>1 DEF HeapInv
<1>7. \A e, f \in timer_heap' :
          /\ e.connection_id = f.connection_id /\ e.kind = f.kind
          /\ e.generation = f.generation
          => e = f
    BY DEF HeapInv, Closed
<1>8. HeapInv'
    BY <1>4, <1>5, <1>6, <1>7 DEF HeapInv
<1> QED
    BY <1>2, <1>3, <1>8

LEMMA CloseHandled ==
    ASSUME Types, HeapInv, NEW fd \in Fd, Close(fd)
    PROVE  Handled
PROOF
<1> DEFINE id == clients[fd].connection_id
<1>1. fd \in DOMAIN clients /\ Closed(fd) /\ timer_heap' = timer_heap
    BY DEF Close, Closed
<1>2. /\ ClientTypes' /\ HeapInv'
      /\ \A e \in timer_heap : StillLive(e) <=> Live(e) /\ e.fd # fd
    BY <1>1, ClosedKeepsHeap
<1>3. id \in Nat
    BY <1>1 DEF Types, ClientConnection
<1>4. Touches(id)
    BY <1>1, <1>2 DEF Touches, StillLive, Live
<1> QED
    BY <1>1, <1>2, <1>3, <1>4 DEF Handled

LEMMA RegisterHandled ==
    ASSUME Types, HeapInv, NEW fd \in Fd, Register(fd)
    PROVE  Handled
PROOF
<1> DEFINE id == next_connection_id
           c0 == [connection_id |-> id, armed |-> {}, generation |-> [k \in TimerKind |-> 0]]
           g == Bump(c0, {"header"})
           c == Arm(c0, "header")
<1>1. fd \notin DOMAIN clients /\ id \in Nat \ {0} /\ now \in Nat /\ "header" \in TimerKind
    BY DEF Register, Types, TimerKind
<1>2. c0 \in ClientConnection /\ c0.connection_id = id /\ c0.armed = {}
      /\ \A k \in TimerKind : c0.generation[k] = 0
    BY <1>1 DEF ClientConnection
<1>3. c = [c0 EXCEPT !.armed = @ \cup {"header"}, !.generation = g]
    BY DEF Arm
<1>4. Push(fd, c, "header", now + kHeaderTimeout) /\ next_connection_id' = id + 1
    BY DEF Register
<1>5. clients' = [f \in DOMAIN clients \cup {fd} |-> IF f = fd THEN c ELSE clients[f]]
      /\ timer_heap' = timer_heap \cup
            {[deadline |-> now + kHeaderTimeout, fd |-> fd, connection_id |-> c.connection_id,
              generation |-> c.generation["header"], kind |-> "header"]}
    BY <1>4 DEF Push
<1> HIDE DEF c0
<1>6. g \in [TimerKind -> Nat] /\ \A k \in TimerKind : g[k] = IF k = "header" THEN 1 ELSE 0
    <2>1. /\ g \in [TimerKind -> Nat]
          /\ \A k \in TimerKind : g[k] = IF k \in {"header"} THEN c0.generation[k] + 1
                                                            ELSE c0.generation[k]
        BY <1>2, Bumped
    <2> HIDE DEF g
    <2> QED
        BY <1>2, <2>1
<1> HIDE DEF g
<1>7. /\ c \in ClientConnection /\ c.connection_id = id /\ c.armed = {"header"}
      /\ c.generation = g
    BY <1>1, <1>2, <1>6, <1>3 DEF ClientConnection
<1> HIDE DEF c
<1>8. PICK new \in TimerEntry :
         /\ timer_heap' = timer_heap \cup {new}
         /\ new.deadline = now + kHeaderTimeout /\ new.fd = fd
         /\ new.connection_id = id /\ new.generation = 1 /\ new.kind = "header"
    <2> DEFINE x == [deadline |-> now + kHeaderTimeout, fd |-> fd,
                     connection_id |-> c.connection_id,
                     generation |-> c.generation["header"], kind |-> "header"]
    <2>1. x \in TimerEntry
        BY <1>1, <1>6, <1>7, Numbers DEF TimerEntry
    <2>2. /\ x.deadline = now + kHeaderTimeout /\ x.fd = fd
          /\ x.connection_id = id /\ x.generation = 1 /\ x.kind = "header"
        BY <1>1, <1>6, <1>7
    <2>3. timer_heap' = timer_heap \cup {x}
        BY <1>5
    <2> HIDE DEF x
    <2> QED
        BY <2>1, <2>2, <2>3
<1>9. /\ DOMAIN clients' = DOMAIN clients \cup {fd} /\ clients'[fd] = c
      /\ \A f \in DOMAIN clients : clients'[f] = clients[f] /\ f # fd
    BY <1>1, <1>5, <1>8
<1>10. \A e \in timer_heap : e.connection_id < id /\ e.connection_id # id
    BY <1>1, EntryNumbers DEF HeapInv
<1>11. \A f \in DOMAIN clients : clients[f].connection_id < id /\ clients[f].connection_id # id
                                 /\ clients[f].connection_id \in Nat
    <2>1. \A f \in DOMAIN clients : clients[f].connection_id \in Nat
        BY DEF Types, ClientConnection
    <2> QED
        BY <1>1, <2>1 DEF HeapInv
<1>12. ClientTypes'
    <2>1. clients' \in [DOMAIN clients' -> ClientConnection]
        BY <1>5, <1>8, <1>7, <1>9 DEF Types
    <2>2. timer_heap' \subseteq TimerEntry
        BY <1>5, <1>8 DEF Types
    <2> QED
        BY <1>1, <1>4, <1>9, <2>1, <2>2 DEF ClientTypes, Types
<1>13. ASSUME NEW e \in timer_heap', NEW f \in DOMAIN clients',
              e.connection_id = clients'[f].connection_id
       PROVE  /\ e.fd = f
              /\ e.generation <= clients'[f].generation[e.kind]
              /\ e.kind \notin clients'[f].armed => e.generation < clients'[f].generation[e.kind]
    <2>1. CASE e = new
        <3>1. f = fd
            BY <1>7, <1>8, <1>9, <1>11, <1>13, <2>1
        <3> QED
            BY <1>1, <1>6, <1>7, <1>8, <1>9, <2>1, <3>1
    <2>2. CASE e # new
        <3>1. e \in timer_heap /\ e.connection_id # id
            BY <1>5, <1>8, <1>10, <1>13, <2>2
        <3>2. f \in DOMAIN clients /\ clients'[f] = clients[f]
            BY <1>7, <1>9, <1>13, <3>1
        <3> QED
            BY <1>13, <3>1, <3>2 DEF HeapInv
    <2> QED
        BY <2>1, <2>2
<1>14. \A e, f \in timer_heap' :
          /\ e.connection_id = f.connection_id /\ e.kind = f.kind
          /\ e.generation = f.generation
          => e = f
    BY <1>5, <1>8, <1>10 DEF HeapInv
<1>15. ASSUME NEW f \in DOMAIN clients', NEW k \in clients'[f].armed
       PROVE  \E e \in timer_heap' : Live(e)' /\ e.fd = f /\ e.kind = k
    <2>1. CASE f = fd
        <3>1. Live(new)' /\ k = "header"
            <4>1. clients'[new.fd] = c /\ new.fd \in DOMAIN clients'
                BY <1>8, <1>9
            <4>2. c.connection_id = new.connection_id /\ new.kind \in c.armed
                  /\ c.generation[new.kind] = new.generation
                BY <1>1, <1>6, <1>7, <1>8
            <4>3. k = "header"
                BY <1>7, <1>9, <1>15, <2>1
            <4> QED
                BY <4>1, <4>2, <4>3 DEF Live
        <3>2. new \in timer_heap'
            BY <1>5, <1>8
        <3> QED
            BY <1>8, <2>1, <3>1, <3>2
    <2>2. CASE f # fd
        <3>1. f \in DOMAIN clients /\ k \in clients[f].armed
            BY <1>9, <2>2
        <3>2. PICK e \in timer_heap : Live(e) /\ e.fd = f /\ e.kind = k
            BY <3>1 DEF HeapInv
        <3>3. Live(e)'
            BY <1>9, <3>1, <3>2 DEF Live
        <3> QED
            BY <1>5, <1>8, <3>2, <3>3
    <2> QED
        BY <2>1, <2>2
<1>16. /\ \A f \in DOMAIN clients' : clients'[f].connection_id < next_connection_id'
       /\ \A f, h \in DOMAIN clients' :
             clients'[f].connection_id = clients'[h].connection_id => f = h
       /\ \A e \in timer_heap' : e.connection_id < next_connection_id'
    <2>1. \A f \in DOMAIN clients' : clients'[f].connection_id < next_connection_id'
        BY <1>1, <1>4, <1>7, <1>9, <1>11
    <2>2. \A f, h \in DOMAIN clients' :
             clients'[f].connection_id = clients'[h].connection_id => f = h
        BY <1>7, <1>9, <1>11 DEF HeapInv
    <2>3. \A e \in timer_heap' : e.connection_id < next_connection_id'
        <3>1. \A e \in timer_heap : e.connection_id \in Nat
            BY EntryNumbers
        <3> QED
            BY <1>1, <1>4, <1>5, <1>8, <1>10, <3>1
    <2> QED
        BY <2>1, <2>2, <2>3
<1>17. HeapInv'
    BY <1>13, <1>14, <1>15, <1>16 DEF HeapInv
<1>18. Touches(id)
    <2>1. ASSUME NEW e \in timer_heap', Live(e)'
          PROVE  \/ e \in timer_heap /\ Live(e)
                 \/ e \in timer_heap' \ timer_heap /\ e.connection_id = id
        <3>1. CASE e = new
            BY <1>8, <1>10, <3>1, <2>1
        <3>2. CASE e # new
            <4>1. e \in timer_heap /\ e.connection_id # id
                BY <1>5, <1>8, <1>10, <2>1, <3>2
            <4>2. e.fd \in DOMAIN clients' /\ clients'[e.fd].connection_id = e.connection_id
                BY <2>1 DEF Live
            <4>3. e.fd \in DOMAIN clients /\ clients'[e.fd] = clients[e.fd]
                BY <1>7, <1>9, <4>1, <4>2
            <4> QED
                <5>1. /\ clients'[e.fd].connection_id = e.connection_id
                      /\ e.kind \in clients'[e.fd].armed
                      /\ clients'[e.fd].generation[e.kind] = e.generation
                    BY <2>1 DEF Live
                <5>2. Live(e)
                    BY <4>3, <5>1 DEF Live
                <5> QED
                    BY <4>1, <5>2
        <3> QED
            BY <3>1, <3>2
    <2>2. ASSUME NEW e \in timer_heap, Live(e) PROVE StillLive(e)
        BY <1>5, <1>8, <1>9, <2>2 DEF Live, StillLive
    <2> QED
        BY <2>1, <2>2 DEF Touches
<1>19. \A e \in timer_heap' \ timer_heap : e.deadline > now
    BY <1>1, <1>5, <1>8, Numbers
<1> QED
    BY <1>1, <1>12, <1>17, <1>18, <1>19 DEF Handled

LEMMA HandlersHandle ==
    ASSUME Types, HeapInv, NEW fd \in Fd, Handler(fd)
    PROVE  /\ Handled /\ Handling
           /\ UNCHANGED <<now, pc, timing, metrics, stop_at, expired>>
PROOF
<1>1. CASE Register(fd)
    BY <1>1, RegisterHandled DEF Register, Handling, Untimed
<1>2. CASE ArmHeaderTimeout(fd) \/ ArmBodyTimeout(fd) \/ ArmIdleKeepAliveTimeout(fd)
    <2>1. Handled
        BY <1>2, ArmHandled
    <2> QED
        BY <1>2, <2>1 DEF ArmHeaderTimeout, ArmBodyTimeout, ArmIdleKeepAliveTimeout, Untimed
<1>3. ASSUME NEW kinds \in {{"header", "idle"}, {"body"}}, DisarmTimeouts(fd, kinds)
      PROVE  /\ Handled /\ Handling
             /\ UNCHANGED <<now, pc, timing, metrics, stop_at, expired>>
    BY <1>3, DisarmHandled DEF DisarmTimeouts, Untimed
<1>4. CASE Close(fd)
    BY <1>4, CloseHandled DEF Close, Untimed
<1> QED
    BY <1>1, <1>2, <1>3, <1>4 DEF Handler

-----------------------------------------------------------------------------
(* An entry that is popped: one that is not live changes nothing, and one   *)
(* that is takes its connection away with all its timers.                   *)
LEMMA SameTimersKeepHeap ==
    ASSUME Types, HeapInv, UNCHANGED <<clients, timer_heap, next_connection_id>>
    PROVE  /\ ClientTypes' /\ HeapInv'
           /\ \A e \in timer_heap : StillLive(e) <=> Live(e)
PROOF
BY DEF ClientTypes, Types, HeapInv, Live, StillLive

LEMMA StaleKeepsHeap ==
    ASSUME Types, HeapInv, NEW e \in timer_heap, ~Live(e),
           timer_heap' = timer_heap \ {e}, UNCHANGED <<clients, next_connection_id>>
    PROVE  /\ ClientTypes' /\ HeapInv'
           /\ \A f \in timer_heap : StillLive(f) <=> Live(f)
PROOF
<1>1. \A f : Live(f)' <=> Live(f)
    BY DEF Live
<1>2. ClientTypes'
    BY DEF ClientTypes, Types
<1>3. \A f \in timer_heap : StillLive(f) <=> Live(f)
    BY <1>1 DEF StillLive
<1>4. \A fd \in DOMAIN clients' : \A k \in clients'[fd].armed :
          \E f \in timer_heap' : Live(f)' /\ f.fd = fd /\ f.kind = k
    BY <1>1 DEF HeapInv
<1>5. HeapInv'
    BY <1>4 DEF HeapInv
<1> QED
    BY <1>2, <1>3, <1>5

LEMMA ExpireKeepsHeap ==
    ASSUME Types, HeapInv, NEW e \in timer_heap, Live(e),
           clients' = Restrict(clients, DOMAIN clients \ {e.fd}),
           timer_heap' = timer_heap \ {e}, UNCHANGED next_connection_id
    PROVE  /\ ClientTypes' /\ HeapInv'
           /\ \A f \in timer_heap :
                 StillLive(f) <=> Live(f) /\ f.connection_id # e.connection_id
PROOF
<1>1. e.fd \in DOMAIN clients /\ clients[e.fd].connection_id = e.connection_id
    BY DEF Live
<1>2. Closed(e.fd)
    BY DEF Closed
<1>3. /\ ClientTypes' /\ HeapInv'
      /\ \A f \in timer_heap : StillLive(f) <=> Live(f) /\ f.fd # e.fd
    BY <1>1, <1>2, ClosedKeepsHeap
<1>4. \A f \in timer_heap : Live(f) => (f.fd = e.fd <=> f.connection_id = e.connection_id)
    BY <1>1 DEF Live, HeapInv
<1> QED
    BY <1>3, <1>4

-----------------------------------------------------------------------------
(* The inductive invariant under each kind of step.                         *)

LEMMA TypesFrom ==
    ASSUME ClientTypes, now \in Nat, snapshot \in Nat, work \in 0..MaxWork, slept \in Nat,
           wait_timeout_ms \in 0..kMaxPollMs, pc \in Points,
           next_metrics_log_time \in Nat, lines \in Nat,
           stop_at \in Nat \cup {NotStopped}, expired \subseteq ArmedTimer
    PROVE  Types
PROOF
BY DEF Types, ClientTypes

(* What the arithmetic of the steps needs. *)
LEMMA Amounts ==
    ASSUME Inv
    PROVE  /\ now \in Nat /\ snapshot \in Nat /\ slept \in Nat
           /\ work \in Nat /\ work <= MaxWork /\ MaxWork \in Nat
           /\ wait_timeout_ms \in Nat /\ wait_timeout_ms <= kMaxPollMs /\ kMaxPollMs \in Nat
           /\ kMs * wait_timeout_ms \in Nat /\ kMs * kMaxPollMs \in Nat
           /\ kMs * wait_timeout_ms <= kMs * kMaxPollMs
           /\ now = snapshot + work + slept
           /\ next_metrics_log_time \in Nat
           /\ \A e \in timer_heap : e.deadline \in Nat
           /\ stop_at # NotStopped => stop_at \in Nat
PROOF
<1>1. Types /\ ClockInv
    BY DEF Inv
<1>2. /\ wait_timeout_ms \in Nat /\ wait_timeout_ms <= kMaxPollMs
      /\ work \in Nat /\ work <= MaxWork
    BY <1>1, Numbers DEF Types
<1>3. /\ kMs * wait_timeout_ms \in Nat
      /\ kMs * wait_timeout_ms <= kMs * kMaxPollMs
    BY <1>2, Numbers, Longer
<1>4. \A e \in timer_heap : e.deadline \in Nat
    BY <1>1, EntryNumbers
<1> QED
    BY <1>1, <1>2, <1>3, <1>4, Numbers DEF Types, ClockInv, NotStopped

LEMMA HandlerInv ==
    ASSUME Inv, NEW fd \in Fd, Handler(fd)
    PROVE  Inv'
PROOF
<1>1. Types /\ ClockInv /\ HeapInv /\ DueInv /\ MetricsInv /\ StopInv
    BY DEF Inv
<1>2. /\ Handled /\ Handling
      /\ UNCHANGED <<now, pc, snapshot, wait_timeout_ms, work, slept,
                     next_metrics_log_time, lines, stop_at, expired>>
    BY <1>1, HandlersHandle DEF timing, metrics
<1>3. Types'
    BY <1>1, <1>2 DEF Handled, Types, ClientTypes
<1>4. HeapInv'
    BY <1>2 DEF Handled
<1>5. ClockInv' /\ MetricsInv' /\ StopInv'
    BY <1>1, <1>2 DEF ClockInv, MetricsInv, StopInv
<1>6. DueInv'
    <2>1. ~Passing /\ pc \notin {"poll_metrics", "wait"}
        BY <1>2 DEF Handling, Passing
    <2>2. \A e \in timer_heap' : snapshot < e.deadline /\ snapshot + slept <= e.deadline
        <3> TAKE e \in timer_heap'
        <3>1. CASE e \in timer_heap
            BY <1>1, <2>1, <3>1 DEF DueInv
        <3>2. CASE e \notin timer_heap
            <4>1. e.deadline > now /\ e.deadline \in Nat
                BY <1>2, <1>3, <3>2 DEF Handled, Types, TimerEntry
            <4> QED
                BY <4>1, Amounts
        <3> QED
            BY <3>1, <3>2
    <2> QED
        BY <1>2, <2>1, <2>2 DEF DueInv, Passing
<1> QED
    BY <1>3, <1>4, <1>5, <1>6 DEF Inv

LEMMA StartPassInv ==
    ASSUME Inv, StartPass
    PROVE  Inv'
PROOF
<1>1. Types /\ ClockInv /\ HeapInv /\ DueInv /\ MetricsInv /\ StopInv
    BY DEF Inv
<1>2. /\ pc \in {"ready", "events"}
      /\ pc' = IF pc = "ready" THEN "passing" ELSE "passing_after"
      /\ snapshot' = now /\ work' = 0 /\ slept' = 0
      /\ UNCHANGED <<now, wait_timeout_ms, next_metrics_log_time, lines, clients, timer_heap,
                     next_connection_id, expired, stop_at>>
    BY DEF StartPass, Handling, metrics, timers
<1>3. ClientTypes' /\ HeapInv'
    BY <1>1, <1>2, SameTimersKeepHeap
<1>4. Types'
    BY <1>1, <1>2, <1>3, Numbers DEF Types, Points
<1>5. ClockInv'
    BY <1>2, Amounts DEF ClockInv
<1>6. DueInv'
    <2>1. \A e \in timer_heap : snapshot + slept <= e.deadline
        BY <1>1, <1>2 DEF DueInv, Passing
    <2>2. \A e \in timer_heap : now <= e.deadline + MaxWork
        BY <2>1, Amounts
    <2> QED
        BY <1>2, <2>2 DEF DueInv, Passing
<1>7. MetricsInv'
    <2>1. snapshot + slept <= next_metrics_log_time
        BY <1>1, <1>2 DEF MetricsInv
    <2>2. now <= next_metrics_log_time + MaxWork
        BY <2>1, Amounts
    <2> QED
        BY <1>1, <1>2, <2>2 DEF MetricsInv
<1>8. StopInv'
    <2> SUFFICES ASSUME stop_at # NotStopped
                 PROVE  /\ pc = "ready" => now <= stop_at + MaxWork
                        /\ pc = "events" => now <= stop_at + 2 * MaxWork + kMs * kMaxPollMs
        BY <1>2 DEF StopInv
    <2>1. CASE pc = "ready"
        <3>1. snapshot <= stop_at /\ slept = 0
            BY <1>1, <2>1 DEF StopInv, ClockInv
        <3> QED
            BY <2>1, <3>1, Amounts
    <2>2. CASE pc = "events"
        <3>1. snapshot <= stop_at + MaxWork /\ slept <= kMs * kMaxPollMs
            BY <1>1, <2>2 DEF StopInv, ClockInv
        <3> QED
            BY <2>2, <3>1, Amounts
    <2> QED
        BY <1>2, <2>1, <2>2
<1> QED
    BY <1>3, <1>4, <1>5, <1>6, <1>7, <1>8 DEF Inv

LEMMA PopInv ==
    ASSUME Inv, PopStale \/ ExpireTimer
    PROVE  /\ Inv'
           /\ UNCHANGED now
           /\ \/ /\ \A f \in timer_heap : StillLive(f) <=> Live(f)
                 /\ timer_heap' \subseteq timer_heap /\ UNCHANGED expired
              \/ \E e \in timer_heap :
                    /\ Live(e) /\ e.deadline <= now
                    /\ timer_heap' \subseteq timer_heap
                    /\ \A f \in timer_heap :
                          StillLive(f) <=> Live(f) /\ f.connection_id # e.connection_id
                    /\ expired' = expired \cup
                          {[connection_id |-> e.connection_id, kind |-> e.kind,
                            deadline |-> e.deadline]}
PROOF
<1> DEFINE same == UNCHANGED <<now, pc, snapshot, wait_timeout_ms, work, slept,
                               next_metrics_log_time, lines, next_connection_id, stop_at>>
<1>1. Types /\ ClockInv /\ HeapInv /\ DueInv /\ MetricsInv /\ StopInv
    BY DEF Inv
<1>2. ASSUME same, timer_heap' \subseteq timer_heap, ClientTypes', HeapInv',
             expired' \subseteq ArmedTimer
      PROVE  Inv'
    <2>1. Types'
        BY <1>1, <1>2 DEF Types, ClientTypes
    <2>2. ClockInv' /\ MetricsInv' /\ StopInv'
        BY <1>1, <1>2 DEF ClockInv, MetricsInv, StopInv
    <2>3. DueInv'
        BY <1>1, <1>2 DEF DueInv, Passing
    <2> QED
        BY <1>2, <2>1, <2>2, <2>3 DEF Inv
<1>3. CASE PopStale
    <2>1. PICK e \in timer_heap :
             /\ timer_heap' = timer_heap \ {e} /\ ~Live(e)
             /\ same /\ UNCHANGED <<clients, expired>>
        BY <1>3 DEF PopStale, PopEntry, timing, metrics
    <2>2. /\ ClientTypes' /\ HeapInv'
          /\ \A f \in timer_heap : StillLive(f) <=> Live(f)
        BY <1>1, <2>1, StaleKeepsHeap
    <2>3. expired' \subseteq ArmedTimer
        BY <1>1, <2>1 DEF Types
    <2>4. Inv'
        BY <1>2, <2>1, <2>2, <2>3
    <2> QED
        BY <2>1, <2>2, <2>4
<1>4. CASE ExpireTimer
    <2>1. PICK e \in timer_heap :
             /\ timer_heap' = timer_heap \ {e} /\ Live(e) /\ e.deadline <= snapshot
             /\ clients' = Restrict(clients, DOMAIN clients \ {e.fd})
             /\ same
             /\ expired' = expired \cup
                   {[connection_id |-> e.connection_id, kind |-> e.kind, deadline |-> e.deadline]}
        BY <1>4 DEF ExpireTimer, PopEntry, timing, metrics
    <2>2. /\ ClientTypes' /\ HeapInv'
          /\ \A f \in timer_heap :
                StillLive(f) <=> Live(f) /\ f.connection_id # e.connection_id
        BY <1>1, <2>1, ExpireKeepsHeap
    <2>3. expired' \subseteq ArmedTimer
        BY <1>1, <2>1, EntryNumbers DEF Types, ArmedTimer
    <2>4. Inv'
        BY <1>2, <2>1, <2>2, <2>3
    <2>5. e.deadline <= now
        BY <2>1, Amounts
    <2> QED
        BY <2>1, <2>2, <2>4, <2>5
<1> QED
    BY <1>3, <1>4

(* Steps that leave the timers as they are. *)
LEMMA EndPassInv ==
    ASSUME Inv, EndPass
    PROVE  Inv'
PROOF
<1>1. Types /\ ClockInv /\ HeapInv /\ DueInv /\ MetricsInv /\ StopInv
    BY DEF Inv
<1>2. /\ pc \in {"passing", "passing_after"}
      /\ \A e \in timer_heap : e.deadline > snapshot
      /\ pc' = IF pc = "passing" THEN "metrics" ELSE "metrics_after"
      /\ UNCHANGED <<now, snapshot, wait_timeout_ms, work, slept, next_metrics_log_time, lines,
                     clients, timer_heap, next_connection_id, expired, stop_at>>
    BY DEF EndPass, Passing, timing, metrics, timers
<1>3. ClientTypes' /\ HeapInv'
    BY <1>1, <1>2, SameTimersKeepHeap
<1>4. Types'
    BY <1>1, <1>2, <1>3 DEF Types, Points
<1>5. slept = 0
    BY <1>1, <1>2 DEF ClockInv
<1>6. DueInv'
    <2>1. \A e \in timer_heap : snapshot < e.deadline /\ snapshot + slept <= e.deadline
        BY <1>2, <1>5, Amounts
    <2> QED
        BY <1>2, <2>1 DEF DueInv, Passing
<1>7. ClockInv' /\ MetricsInv' /\ StopInv'
    BY <1>1, <1>2 DEF ClockInv, MetricsInv, StopInv
<1> QED
    BY <1>3, <1>4, <1>6, <1>7 DEF Inv

LEMMA WriteMetricsInv ==
    ASSUME Inv, MaybeWriteMetricsLog
    PROVE  Inv'
PROOF
<1>1. Types /\ ClockInv /\ HeapInv /\ DueInv /\ MetricsInv /\ StopInv
    BY DEF Inv
<1>2. /\ \/ pc = "metrics" /\ pc' = "poll"
         \/ pc = "metrics_after" /\ pc' = "flush"
         \/ pc = "final" /\ pc' = "returned"
      /\ UNCHANGED <<now, snapshot, wait_timeout_ms, work, slept,
                     clients, timer_heap, next_connection_id, expired, stop_at>>
    BY DEF MaybeWriteMetricsLog, AfterMetrics, timing, timers
<1>3. ClientTypes' /\ HeapInv'
    BY <1>1, <1>2, SameTimersKeepHeap
<1>4. slept = 0
    BY <1>1, <1>2 DEF ClockInv
<1>5. /\ next_metrics_log_time' \in Nat /\ lines' \in Nat
      /\ kMetricsLogInterval * lines' \in Nat
      /\ kMetricsLogInterval * lines' < next_metrics_log_time'
      /\ snapshot < next_metrics_log_time'
    <2>1. CASE now < next_metrics_log_time
        <3>1. UNCHANGED <<next_metrics_log_time, lines>>
            BY <2>1 DEF MaybeWriteMetricsLog, metrics
        <3> QED
            BY <1>1, <2>1, <3>1, Amounts DEF MetricsInv, Types
    <2>2. CASE now >= next_metrics_log_time
        <3> DEFINE i == kMetricsLogInterval
                   late == now - next_metrics_log_time
                   skip == i * (1 + (late \div i))
        <3>1. i \in Nat \ {0} /\ late \in Nat /\ next_metrics_log_time + late = now
            BY <2>2, Numbers, Amounts
        <3>2. /\ lines' = lines + 1
              /\ next_metrics_log_time' = next_metrics_log_time + skip
            BY <2>2, Amounts DEF MaybeWriteMetricsLog
        <3>3. late \div i \in Nat /\ late < skip /\ i <= skip
            BY <3>1, Truncation
        <3>4. skip \in Nat
            BY <3>1, <3>3
        <3>5. lines \in Nat /\ i * lines \in Nat /\ i * lines < next_metrics_log_time
            BY <1>1 DEF MetricsInv, Types
        <3>6. i * (lines + 1) = i * lines + i
            BY <3>1, <3>5
        <3> HIDE DEF skip, late, i
        <3>7. next_metrics_log_time' \in Nat /\ snapshot < next_metrics_log_time'
            BY <3>1, <3>2, <3>3, <3>4, Amounts
        <3>8. i * lines' \in Nat /\ i * lines' < next_metrics_log_time' /\ lines' \in Nat
            BY <3>1, <3>2, <3>3, <3>4, <3>5, <3>6, Amounts
        <3> QED
            BY <3>7, <3>8 DEF i
    <2> QED
        BY <2>1, <2>2, Amounts
<1>6. Types'
    BY <1>1, <1>2, <1>3, <1>5 DEF Types, Points
<1>7. MetricsInv'
    <2>1. snapshot + slept <= next_metrics_log_time'
        BY <1>4, <1>5, Amounts
    <2> QED
        BY <1>2, <1>5, <2>1 DEF MetricsInv
<1>8. ClockInv' /\ DueInv' /\ StopInv'
    BY <1>1, <1>2 DEF ClockInv, DueInv, Passing, StopInv
<1> QED
    BY <1>3, <1>6, <1>7, <1>8 DEF Inv

(* A timeout of that many milliseconds ends by the time it was reckoned     *)
(* from.                                                                    *)
LEMMA TimeoutEnds ==
    ASSUME now \in Nat, NEW t \in Nat, NEW limit \in Nat, NEW ms,
           ms = AtMost(limit, MillisecondsUntil(t))
    PROVE  /\ ms \in Nat /\ ms <= limit /\ kMs * ms \in Nat
           /\ ms > 0 => now + kMs * ms <= t
PROOF
<1>1. CASE t <= now
    BY <1>1, Numbers DEF AtMost, MillisecondsUntil
<1>2. CASE t > now
    <2>1. t - now \in Nat /\ kMs \in Nat \ {0}
        BY <1>2, Numbers
    <2>2. PICK m \in Nat : m = MillisecondsUntil(t) /\ kMs * m \in Nat /\ kMs * m <= t - now
        BY <1>2, <2>1, Truncation DEF MillisecondsUntil
    <2>3. ms \in Nat /\ ms <= limit /\ ms <= m
        BY <2>2 DEF AtMost
    <2>4. kMs * ms \in Nat /\ kMs * ms <= kMs * m
        BY <2>1, <2>2, <2>3, Longer
    <2> QED
        BY <2>2, <2>3, <2>4
<1> QED
    BY <1>1, <1>2

LEMMA PollTimeoutInv ==
    ASSUME Inv, ComputePollTimeoutMs
    PROVE  Inv'
PROOF
<1>1. Types /\ ClockInv /\ HeapInv /\ DueInv /\ MetricsInv /\ StopInv
    BY DEF Inv
<1>2. /\ pc = "poll"
      /\ wait_timeout_ms' = 0 \/ HeapTimeout(wait_timeout_ms')
      /\ pc' = IF wait_timeout_ms' = 0 THEN "wait" ELSE "poll_metrics"
      /\ UNCHANGED <<now, snapshot, work, slept, next_metrics_log_time, lines,
                     clients, timer_heap, next_connection_id, expired, stop_at>>
    BY DEF ComputePollTimeoutMs, metrics, timers
<1>3. ClientTypes' /\ HeapInv'
    BY <1>1, <1>2, SameTimersKeepHeap
<1> DEFINE ms == wait_timeout_ms'
<1>4. /\ ms \in Nat /\ ms <= kMaxPollMs /\ kMs * ms \in Nat
      /\ ms > 0 => \A e \in timer_heap : snapshot + kMs * ms <= e.deadline
    <2>1. CASE ms = 0
        BY <2>1, Numbers
    <2>2. CASE timer_heap = {} /\ ms = kMaxPollMs
        BY <2>2, Numbers
    <2>3. ASSUME NEW top \in timer_heap, IsTop(top),
                 ms = AtMost(kMaxPollMs, MillisecondsUntil(top.deadline))
          PROVE  /\ ms \in Nat /\ ms <= kMaxPollMs /\ kMs * ms \in Nat
                 /\ ms > 0 => \A e \in timer_heap : snapshot + kMs * ms <= e.deadline
        <3>1. /\ ms \in Nat /\ ms <= kMaxPollMs /\ kMs * ms \in Nat
              /\ ms > 0 => now + kMs * ms <= top.deadline
            BY <1>1, <2>3, EntryNumbers, Numbers, TimeoutEnds DEF Types
        <3>2. \A e \in timer_heap : e.deadline \in Nat /\ top.deadline <= e.deadline
            BY <1>1, <2>3, EntryNumbers DEF IsTop
        <3>3. snapshot <= now /\ snapshot \in Nat /\ now \in Nat
            BY Amounts
        <3> HIDE DEF ms
        <3> QED
            BY <3>1, <3>2, <3>3
    <2> QED
        BY <1>2, <2>1, <2>2, <2>3 DEF HeapTimeout
<1>5. Types'
    BY <1>1, <1>2, <1>3, <1>4, Numbers DEF Types, Points
<1>6. slept = 0
    BY <1>1, <1>2 DEF ClockInv
<1>7. ClockInv'
    BY <1>1, <1>2, <1>4, <1>6 DEF ClockInv
<1>8. DueInv'
    BY <1>1, <1>2, <1>4 DEF DueInv, Passing
<1>9. MetricsInv' /\ StopInv'
    BY <1>1, <1>2, <1>4 DEF MetricsInv, StopInv
<1> QED
    BY <1>3, <1>5, <1>7, <1>8, <1>9 DEF Inv

LEMMA LimitByMetricsInv ==
    ASSUME Inv, LimitByMetrics
    PROVE  Inv'
PROOF
<1>1. Types /\ ClockInv /\ HeapInv /\ DueInv /\ MetricsInv /\ StopInv
    BY DEF Inv
<1>2. /\ pc = "poll_metrics" /\ pc' = "wait"
      /\ wait_timeout_ms' = AtMost(wait_timeout_ms, MillisecondsUntil(next_metrics_log_time))
      /\ UNCHANGED <<now, snapshot, work, slept, next_metrics_log_time, lines,
                     clients, timer_heap, next_connection_id, expired, stop_at>>
    BY DEF LimitByMetrics, metrics, timers
<1>3. ClientTypes' /\ HeapInv'
    BY <1>1, <1>2, SameTimersKeepHeap
<1> DEFINE ms == wait_timeout_ms'
<1>4. /\ ms \in Nat /\ ms <= wait_timeout_ms /\ kMs * ms \in Nat
      /\ ms > 0 => now + kMs * ms <= next_metrics_log_time
    BY <1>2, Amounts, TimeoutEnds
<1> HIDE DEF ms
<1>5. kMs * ms <= kMs * wait_timeout_ms
    BY <1>4, Amounts, Numbers, Longer
<1>6. Types'
    BY <1>1, <1>2, <1>3, <1>4, Amounts DEF Types, Points, ms
<1>7. slept = 0
    BY <1>1, <1>2 DEF ClockInv
<1>8. ClockInv'
    BY <1>1, <1>2, <1>4, <1>7 DEF ClockInv, ms
<1>9. ms > 0 => \A e \in timer_heap : snapshot + kMs * ms <= e.deadline
    <2> SUFFICES ASSUME ms > 0, NEW e \in timer_heap PROVE snapshot + kMs * ms <= e.deadline
        OBVIOUS
    <2>1. wait_timeout_ms > 0
        BY <1>4, Amounts
    <2>2. snapshot + kMs * wait_timeout_ms <= e.deadline
        BY <1>1, <1>2, <2>1 DEF DueInv
    <2>3. \A a, b, c, d \in Nat : a + c <= d /\ b <= c => a + b <= d
        OBVIOUS
    <2> QED
        BY <1>4, <1>5, <2>2, <2>3, Amounts
<1>10. DueInv'
    BY <1>1, <1>2, <1>9 DEF DueInv, Passing, ms
<1>11. ms > 0 => snapshot + kMs * ms <= next_metrics_log_time
    BY <1>4, Amounts
<1>12. MetricsInv' /\ StopInv'
    BY <1>1, <1>2, <1>11 DEF MetricsInv, StopInv, ms
<1> QED
    BY <1>3, <1>6, <1>8, <1>10, <1>12 DEF Inv

LEMMA SleepInv ==
    ASSUME Inv, Sleep
    PROVE  Inv'
PROOF
<1>1. Types /\ ClockInv /\ HeapInv /\ DueInv /\ MetricsInv /\ StopInv
    BY DEF Inv
<1>2. /\ pc = "wait" /\ slept < kMs * wait_timeout_ms
      /\ now' = now + 1 /\ slept' = slept + 1
      /\ UNCHANGED <<pc, snapshot, wait_timeout_ms, work, next_metrics_log_time, lines,
                     clients, timer_heap, next_connection_id, expired, stop_at>>
    BY DEF Sleep, metrics, timers
<1>3. ClientTypes' /\ HeapInv'
    BY <1>1, <1>2, SameTimersKeepHeap
<1>4. Types'
    BY <1>1, <1>2, <1>3 DEF Types, Points
<1>5. wait_timeout_ms > 0
    <2>1. kMs * 0 = 0
        BY Numbers
    <2>2. wait_timeout_ms # 0
        BY <1>2, <2>1, Amounts
    <2> QED
        BY <2>2, Amounts
<1> DEFINE ticks == kMs * wait_timeout_ms
<1>6. /\ ticks \in Nat /\ ticks <= kMs * kMaxPollMs /\ slept + 1 <= ticks
      /\ \A e \in timer_heap : snapshot + ticks <= e.deadline
      /\ snapshot + ticks <= next_metrics_log_time
    BY <1>1, <1>2, <1>5, Amounts DEF DueInv, MetricsInv
<1>7. ticks' = ticks
    BY <1>2
<1> HIDE DEF ticks
<1>8. ClockInv'
    <2>1. now' = snapshot' + work' + slept' /\ slept' <= kMs * kMaxPollMs /\ slept' <= ticks
        BY <1>2, <1>6, Amounts
    <2> QED
        BY <1>2, <2>1 DEF ClockInv, ticks
<1>9. DueInv'
    <2>1. \A e \in timer_heap : snapshot + (slept + 1) <= e.deadline
        BY <1>6, Amounts
    <2> QED
        BY <1>1, <1>2, <2>1 DEF DueInv, Passing
<1>10. MetricsInv'
    <2>1. snapshot + (slept + 1) <= next_metrics_log_time
        BY <1>6, Amounts
    <2> QED
        BY <1>1, <1>2, <2>1 DEF MetricsInv
<1>11. StopInv'
    BY <1>1, <1>2 DEF StopInv
<1> QED
    BY <1>3, <1>4, <1>8, <1>9, <1>10, <1>11 DEF Inv

LEMMA WakeInv ==
    ASSUME Inv, Wake
    PROVE  Inv'
PROOF
<1>1. Types /\ ClockInv /\ HeapInv /\ DueInv /\ MetricsInv /\ StopInv
    BY DEF Inv
<1>2. /\ pc = "wait" /\ pc' = "events" /\ wait_timeout_ms' = 0
      /\ UNCHANGED <<now, snapshot, work, slept, next_metrics_log_time, lines,
                     clients, timer_heap, next_connection_id, expired, stop_at>>
    BY DEF Wake, metrics, timers
<1>3. ClientTypes' /\ HeapInv'
    BY <1>1, <1>2, SameTimersKeepHeap
<1>4. Types'
    BY <1>1, <1>2, <1>3, Numbers DEF Types, Points
<1>5. ClockInv' /\ DueInv' /\ MetricsInv' /\ StopInv'
    BY <1>1, <1>2 DEF ClockInv, DueInv, Passing, MetricsInv, StopInv
<1> QED
    BY <1>3, <1>4, <1>5 DEF Inv

LEMMA EndRoundInv ==
    ASSUME Inv, EndRound
    PROVE  Inv'
PROOF
<1>1. Types /\ ClockInv /\ HeapInv /\ DueInv /\ MetricsInv /\ StopInv
    BY DEF Inv
<1>2. /\ pc = "flush" /\ pc' = IF stop_at = NotStopped THEN "ready" ELSE "final"
      /\ UNCHANGED <<now, snapshot, wait_timeout_ms, work, slept, next_metrics_log_time, lines,
                     clients, timer_heap, next_connection_id, expired, stop_at>>
    BY DEF EndRound, timing, metrics, timers
<1>3. ClientTypes' /\ HeapInv'
    BY <1>1, <1>2, SameTimersKeepHeap
<1>4. Types'
    BY <1>1, <1>2, <1>3 DEF Types, Points
<1>5. ClockInv' /\ DueInv' /\ MetricsInv'
    BY <1>1, <1>2 DEF ClockInv, DueInv, Passing, MetricsInv
<1>6. StopInv'
    BY <1>1, <1>2 DEF StopInv
<1> QED
    BY <1>3, <1>4, <1>5, <1>6 DEF Inv

LEMMA WorkInv ==
    ASSUME Inv, Work
    PROVE  Inv'
PROOF
<1>1. Types /\ ClockInv /\ HeapInv /\ DueInv /\ MetricsInv /\ StopInv
    BY DEF Inv
<1>2. /\ work < MaxWork /\ now' = now + 1 /\ work' = work + 1
      /\ UNCHANGED <<pc, snapshot, wait_timeout_ms, slept, next_metrics_log_time, lines,
                     clients, timer_heap, next_connection_id, expired, stop_at>>
    BY DEF Work, metrics, timers
<1>3. ClientTypes' /\ HeapInv'
    BY <1>1, <1>2, SameTimersKeepHeap
<1>4. Types'
    BY <1>1, <1>2, <1>3, Amounts DEF Types, Points
<1>5. ClockInv'
    <2>1. now' = snapshot' + work' + slept'
        BY <1>2, Amounts
    <2> QED
        BY <1>1, <1>2, <2>1 DEF ClockInv
<1>6. DueInv' /\ MetricsInv' /\ StopInv'
    BY <1>1, <1>2 DEF DueInv, Passing, MetricsInv, StopInv
<1> QED
    BY <1>3, <1>4, <1>5, <1>6 DEF Inv

LEMMA SignalInv ==
    ASSUME Inv, Signal
    PROVE  Inv'
PROOF
<1>1. Types /\ ClockInv /\ HeapInv /\ DueInv /\ MetricsInv /\ StopInv
    BY DEF Inv
<1>2. /\ stop_at' = now
      /\ UNCHANGED <<now, pc, snapshot, wait_timeout_ms, work, slept, next_metrics_log_time,
                     lines, clients, timer_heap, next_connection_id, expired>>
    BY DEF Signal, timing, metrics, timers
<1>3. ClientTypes' /\ HeapInv'
    BY <1>1, <1>2, SameTimersKeepHeap
<1>4. Types'
    BY <1>1, <1>2, <1>3 DEF Types, Points
<1>5. ClockInv' /\ DueInv' /\ MetricsInv'
    BY <1>1, <1>2 DEF ClockInv, DueInv, Passing, MetricsInv
<1>6. StopInv'
    <2>1. /\ snapshot <= now /\ snapshot <= now + MaxWork
          /\ snapshot <= now + 2 * MaxWork + kMs * kMaxPollMs
        BY Amounts
    <2> QED
        BY <1>2, <2>1 DEF StopInv
<1> QED
    BY <1>3, <1>4, <1>5, <1>6 DEF Inv

LEMMA NextInv == Inv /\ [Next]_vars => Inv'
PROOF
<1> SUFFICES ASSUME Inv, [Next]_vars PROVE Inv'
    OBVIOUS
<1>1. ASSUME NEW fd \in Fd, Handler(fd) PROVE Inv'
    BY <1>1, HandlerInv
<1>2. CASE StartPass
    BY <1>2, StartPassInv
<1>3. CASE PopStale \/ ExpireTimer
    BY <1>3, PopInv
<1>4. CASE EndPass
    BY <1>4, EndPassInv
<1>5. CASE MaybeWriteMetricsLog
    BY <1>5, WriteMetricsInv
<1>6. CASE ComputePollTimeoutMs
    BY <1>6, PollTimeoutInv
<1>7. CASE LimitByMetrics
    BY <1>7, LimitByMetricsInv
<1>8. CASE Sleep
    BY <1>8, SleepInv
<1>9. CASE Wake
    BY <1>9, WakeInv
<1>10. CASE EndRound
    BY <1>10, EndRoundInv
<1>11. CASE Work
    BY <1>11, WorkInv
<1>12. CASE Signal
    BY <1>12, SignalInv
<1>13. CASE UNCHANGED vars
    <2>1. UNCHANGED <<now, pc, snapshot, wait_timeout_ms, work, slept, next_metrics_log_time,
                      lines, clients, timer_heap, next_connection_id, expired, stop_at>>
        BY <1>13 DEF vars, timing, metrics, timers
    <2>2. Types /\ ClockInv /\ HeapInv /\ DueInv /\ MetricsInv /\ StopInv
        BY DEF Inv
    <2>3. ClientTypes' /\ HeapInv'
        BY <2>1, <2>2, SameTimersKeepHeap
    <2>4. Types' /\ ClockInv' /\ DueInv'
        BY <2>1, <2>2 DEF Types, ClockInv, DueInv, Passing
    <2>5. MetricsInv' /\ StopInv'
        BY <2>1, <2>2 DEF MetricsInv, StopInv
    <2> QED
        BY <2>3, <2>4, <2>5 DEF Inv
<1> QED
    BY <1>1, <1>2, <1>3, <1>4, <1>5, <1>6, <1>7, <1>8, <1>9, <1>10, <1>11, <1>12, <1>13 DEF Next

-----------------------------------------------------------------------------
(* The theorems.                                                            *)

LEMMA Invariance == Spec => []Inv
PROOF
BY InitInv, NextInv, PTL DEF Spec

THEOREM TypeCorrect == Spec => []TypeOK
PROOF
<1>1. Inv => TypeOK
    <2> SUFFICES ASSUME Inv PROVE TypeOK
        OBVIOUS
    <2>1. Types
        BY DEF Inv
    <2>2. snapshot \in 0..now
        BY Amounts
    <2>3. \E open \in SUBSET Fd : clients \in [open -> ClientConnection]
        BY <2>1 DEF Types
    <2> QED
        BY <2>1, <2>2, <2>3 DEF Types, TypeOK
<1> QED
    BY <1>1, Invariance, PTL

(* No entry but its own fires an armed timer, however often the connection  *)
(* arms and disarms it and whoever had the descriptor before.               *)
THEOREM OneEntryFires == Spec => []ArmedHaveOneEntry
PROOF
<1>1. Inv => ArmedHaveOneEntry
    <2> SUFFICES ASSUME Inv, NEW fd \in DOMAIN clients, NEW k \in clients[fd].armed
                 PROVE  \E e \in timer_heap :
                           /\ Live(e) /\ e.fd = fd /\ e.kind = k
                           /\ \A f \in timer_heap : Live(f) /\ f.fd = fd /\ f.kind = k => f = e
        BY DEF ArmedHaveOneEntry
    <2>1. HeapInv
        BY DEF Inv
    <2>2. PICK e \in timer_heap : Live(e) /\ e.fd = fd /\ e.kind = k
        BY <2>1 DEF HeapInv
    <2>3. ASSUME NEW f \in timer_heap, Live(f), f.fd = fd, f.kind = k PROVE f = e
        <3>1. f.connection_id = e.connection_id /\ f.generation = e.generation
            BY <2>2, <2>3 DEF Live
        <3> QED
            BY <2>1, <2>2, <2>3, <3>1 DEF HeapInv
    <2> QED
        BY <2>2, <2>3
<1> QED
    BY <1>1, Invariance, PTL

(* Metrics lines are late by work alone, and no interval has two of them.   *)
THEOREM MetricsOnTime == Spec => []MetricsAreTimely
PROOF
<1>1. Inv => MetricsAreTimely
    <2> SUFFICES ASSUME Inv PROVE MetricsAreTimely
        OBVIOUS
    <2>1. ClockInv /\ MetricsInv
        BY DEF Inv
    <2>2. \/ snapshot <= next_metrics_log_time + MaxWork /\ slept = 0
          \/ snapshot + slept <= next_metrics_log_time
        BY <2>1 DEF ClockInv, MetricsInv
    <2>3. now <= next_metrics_log_time + 2 * MaxWork
        BY <2>2, Amounts
    <2> QED
        BY <2>1, <2>3 DEF MetricsInv, MetricsAreTimely
<1> QED
    BY <1>1, Invariance, PTL

(* Run returns within a poll timeout and the work of its last round of a    *)
(* stop request, wherever the signal finds it.                              *)
THEOREM StopsInTime == Spec => []StopsPromptly
PROOF
<1>1. Inv => StopsPromptly
    <2> SUFFICES ASSUME Inv, stop_at # NotStopped, pc # "returned"
                 PROVE  now <= stop_at + kMs * kMaxPollMs + 3 * MaxWork
        BY DEF StopsPromptly
    <2>1. Types /\ ClockInv /\ StopInv
        BY DEF Inv
    <2>2. CASE pc = "ready"
        <3>1. snapshot <= stop_at /\ slept = 0
            BY <2>1, <2>2 DEF ClockInv, StopInv
        <3> QED
            BY <3>1, Amounts
    <2>3. CASE pc \in {"passing", "metrics", "poll", "poll_metrics", "wait", "events"}
        <3>1. snapshot <= stop_at + MaxWork /\ slept <= kMs * kMaxPollMs
            BY <2>1, <2>3 DEF ClockInv, StopInv
        <3> QED
            BY <3>1, Amounts
    <2>4. CASE pc \in {"passing_after", "metrics_after", "flush", "final"}
        <3>1. snapshot <= stop_at + 2 * MaxWork + kMs * kMaxPollMs /\ slept = 0
            BY <2>1, <2>4 DEF ClockInv, StopInv
        <3> QED
            BY <3>1, Amounts
    <2> QED
        BY <2>1, <2>2, <2>3, <2>4 DEF Types, Points
<1> QED
    BY <1>1, Invariance, PTL

(* No deadline is further behind than two rounds' work.                     *)
NoneLate == \A e \in timer_heap : now <= e.deadline + 2 * MaxWork

LEMMA NoneIsLate == Inv => NoneLate
PROOF
<1> SUFFICES ASSUME Inv, NEW e \in timer_heap PROVE now <= e.deadline + 2 * MaxWork
    BY DEF NoneLate
<1>1. ClockInv /\ DueInv
    BY DEF Inv
<1>2. \/ snapshot <= e.deadline + MaxWork /\ slept = 0
      \/ snapshot + slept <= e.deadline
    BY <1>1 DEF ClockInv, DueInv, Passing
<1> QED
    BY <1>2, Amounts

LEMMA NoneWillBeLate == Inv' => NoneLate'
PROOF
BY NoneIsLate, PTL

(* What ArmedTimers knows of an entry. *)
TimerOf(e) == [connection_id |-> e.connection_id, kind |-> e.kind, deadline |-> e.deadline]

LEMMA ArmedNowIs ==
    /\ \A t : t \in ArmedNow <=> \E e \in timer_heap : Live(e) /\ t = TimerOf(e)
    /\ \A t : t \in ArmedNow' <=> \E e \in timer_heap' : Live(e)' /\ t = TimerOf(e)
PROOF
BY DEF ArmedNow, TimerOf

(* The heap implements ArmedTimers, for any timeouts and amount of work: no *)
(* armed timer is lost, fires early, fires after it was disarmed or armed   *)
(* anew, or stays armed for more than two rounds' work after it is due.     *)
THEOREM Implements == Spec => FiresAsArmed
PROOF
<1>1. Init => Promised!Init
    BY DEF Init, Promised!Init, ArmedNow
<1>2. Inv /\ Inv' /\ [Next]_vars => [Promised!Next]_<<now, ArmedNow, expired>>
    <2> SUFFICES ASSUME Inv, Inv', [Next]_vars
                 PROVE  [Promised!Next]_<<now, ArmedNow, expired>>
        OBVIOUS
    <2> USE DEF StillLive
    <2>1. Types /\ HeapInv /\ HeapInv'
        BY DEF Inv
    <2>2. ASSUME \A e \in timer_heap : StillLive(e) <=> Live(e),
                 \A e \in timer_heap' : Live(e)' => e \in timer_heap
          PROVE  ArmedNow' = ArmedNow
        BY <2>2, ArmedNowIs
    <2>3. ASSUME UNCHANGED <<clients, timer_heap>> PROVE ArmedNow' = ArmedNow
        BY <2>3 DEF ArmedNow, Live
    <2>4. ASSUME NEW fd \in Fd, Handler(fd) PROVE Promised!Rearm
        <3>1. /\ Handled /\ UNCHANGED <<now, expired>>
            BY <2>1, <2>4, HandlersHandle
        <3>2. PICK id \in Nat : Touches(id)
            BY <3>1 DEF Handled
        <3>3. \A t \in ArmedNow' \ ArmedNow : \E e \in timer_heap' \ timer_heap :
                 t = TimerOf(e) /\ e.connection_id = id
            BY <3>2, ArmedNowIs DEF Touches
        <3>4. \A t \in ArmedNow \ ArmedNow' : t.connection_id = id
            BY <3>2, ArmedNowIs DEF Touches, TimerOf
        <3>5. \A t \in ArmedNow' \ ArmedNow :
                 t.kind \in TimerKind /\ t.deadline > now /\ t.connection_id = id
            <4>1. \A e \in timer_heap' \ timer_heap : e.deadline > now /\ e.kind \in TimerKind
                BY <3>1 DEF Handled, ClientTypes, TimerEntry
            <4> QED
                BY <3>3, <4>1 DEF TimerOf
        <3>6. ASSUME NEW t \in ArmedNow', NEW u \in ArmedNow',
                     t.connection_id = u.connection_id, t.kind = u.kind
              PROVE  t = u
            <4>1. PICK e \in timer_heap' : Live(e)' /\ t = TimerOf(e)
                BY ArmedNowIs
            <4>2. PICK f \in timer_heap' : Live(f)' /\ u = TimerOf(f)
                BY ArmedNowIs
            <4>3. e.connection_id = f.connection_id /\ e.kind = f.kind
                BY <3>6, <4>1, <4>2 DEF TimerOf
            <4>4. e.fd = f.fd
                BY <2>1, <4>1, <4>2, <4>3 DEF HeapInv, Live
            <4>5. e.generation = f.generation
                BY <4>1, <4>2, <4>3, <4>4 DEF Live
            <4> QED
                BY <2>1, <4>1, <4>2, <4>3, <4>5 DEF HeapInv
        <3> QED
            BY <3>1, <3>4, <3>5, <3>6 DEF Promised!Rearm, Promised!OneOfEachKind
    <2>5. CASE PopStale \/ ExpireTimer
        <3>1. CASE /\ \A f \in timer_heap : StillLive(f) <=> Live(f)
                   /\ timer_heap' \subseteq timer_heap /\ UNCHANGED <<now, expired>>
            BY <2>2, <3>1
        <3>2. ASSUME NEW e \in timer_heap, Live(e), e.deadline <= now, UNCHANGED now,
                     timer_heap' \subseteq timer_heap,
                     \A f \in timer_heap :
                        StillLive(f) <=> Live(f) /\ f.connection_id # e.connection_id,
                     expired' = expired \cup {TimerOf(e)}
              PROVE  Promised!Expire
            <4>1. TimerOf(e) \in ArmedNow /\ TimerOf(e).deadline <= now
                  /\ TimerOf(e).connection_id = e.connection_id
                BY <3>2, ArmedNowIs DEF TimerOf
            <4>2. ASSUME NEW t
                  PROVE  t \in ArmedNow' <=>
                            t \in ArmedNow /\ t.connection_id # e.connection_id
                BY <3>2, ArmedNowIs DEF TimerOf
            <4>3. ArmedNow' = ArmedNow \ Promised!Of(e.connection_id)
                BY <4>2 DEF Promised!Of
            <4> QED
                BY <3>2, <4>1, <4>3 DEF Promised!Expire
        <3> QED
            BY <2>5, <3>1, <3>2, PopInv DEF Promised!Next, TimerOf
    <2>6. CASE Sleep \/ Work
        <3>1. now' = now + 1 /\ UNCHANGED <<clients, timer_heap, expired>>
            BY <2>6 DEF Sleep, Work, timers
        <3>2. ArmedNow' = ArmedNow
            BY <2>3, <3>1
        <3>3. \A e \in timer_heap' : now' <= e.deadline + 2 * MaxWork
            BY NoneWillBeLate DEF NoneLate
        <3>4. \A t \in ArmedNow : now' <= t.deadline + 2 * MaxWork
            BY <3>1, <3>3, ArmedNowIs DEF TimerOf
        <3>5. Promised!Tick
            BY <3>1, <3>2, <3>4, Amounts DEF Promised!Tick
        <3> QED
            BY <3>5 DEF Promised!Next
    <2>7. CASE StartPass \/ EndPass \/ MaybeWriteMetricsLog \/ ComputePollTimeoutMs
               \/ LimitByMetrics \/ Wake \/ EndRound \/ Signal \/ UNCHANGED vars
        <3>1. UNCHANGED <<now, clients, timer_heap, expired>>
            BY <2>7 DEF StartPass, EndPass, MaybeWriteMetricsLog, ComputePollTimeoutMs,
                        LimitByMetrics, Wake, EndRound, Signal, vars, timers
        <3> QED
            BY <2>3, <3>1
    <2> QED
        BY <2>4, <2>5, <2>6, <2>7 DEF Next, Promised!Next
<1> QED
    BY <1>1, <1>2, Invariance, PTL DEF Spec, Promised!Spec, FiresAsArmed
=============================================================================
