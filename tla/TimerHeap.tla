----------------------------- MODULE TimerHeap -----------------------------
(***************************************************************************)
(* Time in core::Server: the timer heap, whose entries are never taken out *)
(* before their deadline but outdated by generation and connection id; the *)
(* two passes over it in each round; and the poll timeout, by which the    *)
(* one thread may sleep and still fire its timers, write its metrics and   *)
(* notice a stop request.                                                  *)
(*                                                                         *)
(* The clock is read where the code reads it.  It advances in epoll_wait,  *)
(* up to the timeout, and while the thread works: by at most MaxWork       *)
(* between the starts of two passes over the heap.  What the handlers do   *)
(* besides arming and disarming timers is in module Server; here they call *)
(* the timer helpers in any order, so what holds here holds for that order.*)
(***************************************************************************)
EXTENDS Integers, FiniteSets, Functions

CONSTANTS
    Fd,                         \* descriptors the kernel may give to clients
    kMs,                        \* clock ticks in a millisecond
    kHeaderTimeout, kIdleKeepAliveTimeout,
    kBodyTimeout, kBodyMinimum, \* ticks: the 120 s and 30 s of the body deadline
    BodyTicks,                  \* ticks that bodies take at 65536 bytes per second
    kMaxPollMs,                 \* the poll timeout when nothing is armed
    kMetricsLogInterval,
    MaxWork, MaxTime, MaxAccepts, MaxGeneration    \* bounds

ASSUME TimeAssumption ==
    /\ kMs \in Nat \ {0} /\ kMaxPollMs \in Nat \ {0} /\ kMetricsLogInterval \in Nat \ {0}
    /\ kHeaderTimeout \in Nat \ {0} /\ kIdleKeepAliveTimeout \in Nat \ {0}
    /\ kBodyMinimum \in Nat \ {0} /\ kBodyTimeout \in Nat \ {0}
    /\ BodyTicks \subseteq Nat
    /\ MaxWork \in Nat /\ MaxTime \in Nat /\ MaxAccepts \in Nat /\ MaxGeneration \in Nat

TimerKind == {"header", "body", "idle"}

(* The timer fields of a ClientConnection: `armed' is the three flags. *)
ClientConnection == [connection_id : Nat \ {0}, armed : SUBSET TimerKind,
                     generation : [TimerKind -> Nat]]

TimerEntry == [deadline : Nat, fd : Fd, connection_id : Nat \ {0},
               generation : Nat, kind : TimerKind]

(* Where the thread is in RunEventLoopOnce; "passing" is in a pass over the *)
(* heap, "metrics" after it, "poll" before epoll_wait.                      *)
Points == {"ready", "passing", "metrics", "poll", "poll_metrics", "wait", "events",
           "passing_after", "metrics_after", "flush", "final", "returned"}

VARIABLES
    now, clients, timer_heap, next_connection_id, pc,
    snapshot,                   \* the time ProcessExpiredTimers took at its start
    wait_timeout_ms,            \* the poll timeout
    work, slept,                \* ticks worked and asleep since the snapshot
    next_metrics_log_time, lines,       \* `lines': history, metrics lines written
    stop_at,                    \* when the stop flag was set, or NotStopped
    expired                     \* history, as in ArmedTimers

timing == <<snapshot, wait_timeout_ms, work, slept>>
metrics == <<next_metrics_log_time, lines>>
timers == <<clients, timer_heap, next_connection_id, expired>>
vars == <<now, pc, timing, metrics, timers, stop_at>>

NotStopped == -1

ArmedTimer == [connection_id : Nat \ {0}, kind : TimerKind, deadline : Nat]

TypeOK ==
    /\ now \in Nat
    /\ \E open \in SUBSET Fd : clients \in [open -> ClientConnection]
    /\ timer_heap \in SUBSET TimerEntry
    /\ next_connection_id \in Nat \ {0}
    /\ pc \in Points
    /\ snapshot \in 0..now
    /\ wait_timeout_ms \in 0..kMaxPollMs
    /\ slept \in Nat
    /\ next_metrics_log_time \in Nat /\ lines \in Nat
    /\ work \in 0..MaxWork
    /\ stop_at \in Nat \cup {NotStopped}
    /\ expired \in SUBSET ArmedTimer

(* InitializeMetricsLogging, then the first round. *)
Init ==
    /\ now = 0
    /\ clients = << >>
    /\ timer_heap = {}
    /\ next_connection_id = 1
    /\ pc = "ready"
    /\ snapshot = 0 /\ wait_timeout_ms = 0 /\ work = 0 /\ slept = 0
    /\ next_metrics_log_time = kMetricsLogInterval /\ lines = 0
    /\ stop_at = NotStopped
    /\ expired = {}

-----------------------------------------------------------------------------
(* The helpers that arm and disarm.  As in module Server, a definition      *)
(* named Faulty... is the one after it with a plausible bug.                *)

FaultyAtMost(limit, x) == x
AtMost(limit, x) == IF x > limit THEN limit ELSE x

Bump(c, kinds) == [k \in TimerKind |-> c.generation[k] + (IF k \in kinds THEN 1 ELSE 0)]

(* DisarmHeaderTimeout and its like, for each of the kinds that is armed.   *)
Disarm(c, kinds) == [c EXCEPT !.armed = @ \ kinds,
                              !.generation = Bump(c, c.armed \cap kinds)]

FaultyArm(c, kind) == [c EXCEPT !.armed = @ \cup {kind}]

Arm(c, kind) == [c EXCEPT !.armed = @ \cup {kind}, !.generation = Bump(c, {kind})]

Push(fd, c, kind, deadline) ==
    /\ clients' = [f \in DOMAIN clients \cup {fd} |-> IF f = fd THEN c ELSE clients[f]]
    /\ timer_heap' = timer_heap \cup
          {[deadline |-> deadline, fd |-> fd, connection_id |-> c.connection_id,
            generation |-> c.generation[kind], kind |-> kind]}

CalculateBodyReceiveDeadline(ticks) ==
    now + AtMost(kBodyTimeout, IF ticks < kBodyMinimum THEN kBodyMinimum ELSE ticks)

-----------------------------------------------------------------------------
(* The handlers, as far as they touch a timer.                              *)

Handling == pc \in {"ready", "events"}

Untimed == UNCHANGED <<now, pc, timing, metrics, stop_at, expired>>

MayArm(fd) == \A k \in TimerKind : clients[fd].generation[k] < MaxGeneration

(* RegisterAcceptedConnection *)
Register(fd) ==
    /\ pc = "events"
    /\ fd \notin DOMAIN clients /\ next_connection_id <= MaxAccepts
    /\ LET c == [connection_id |-> next_connection_id, armed |-> {},
                 generation |-> [k \in TimerKind |-> 0]]
       IN  Push(fd, Arm(c, "header"), "header", now + kHeaderTimeout)
    /\ next_connection_id' = next_connection_id + 1
    /\ Untimed

ArmHeaderTimeout(fd) ==
    /\ Handling /\ fd \in DOMAIN clients /\ MayArm(fd)
    /\ Push(fd, Arm(Disarm(clients[fd], {"idle"}), "header"), "header", now + kHeaderTimeout)
    /\ Untimed /\ UNCHANGED next_connection_id

ArmBodyTimeout(fd) ==
    /\ Handling /\ fd \in DOMAIN clients /\ MayArm(fd)
    /\ \E ticks \in BodyTicks :
          Push(fd, Arm(Disarm(clients[fd], TimerKind), "body"), "body",
               CalculateBodyReceiveDeadline(ticks))
    /\ Untimed /\ UNCHANGED next_connection_id

ArmIdleKeepAliveTimeout(fd) ==
    /\ Handling /\ fd \in DOMAIN clients /\ MayArm(fd)
    /\ Push(fd, Arm(Disarm(clients[fd], {"header"}), "idle"), "idle",
            now + kIdleKeepAliveTimeout)
    /\ Untimed /\ UNCHANGED next_connection_id

(* StartOkResponse, and the end of a body in ConsumePendingRequestBody. *)
DisarmTimeouts(fd, kinds) ==
    /\ Handling /\ fd \in DOMAIN clients
    /\ clients' = [clients EXCEPT ![fd] = Disarm(@, kinds)]
    /\ Untimed /\ UNCHANGED <<timer_heap, next_connection_id>>

(* CloseClientConnection, from a handler: the heap is left as it is. *)
Close(fd) ==
    /\ Handling /\ fd \in DOMAIN clients
    /\ clients' = Restrict(clients, DOMAIN clients \ {fd})
    /\ Untimed /\ UNCHANGED <<timer_heap, next_connection_id>>

(* The end of ProcessReadyQueue, or of the events: ProcessExpiredTimers     *)
(* takes the time.                                                          *)
StartPass ==
    /\ Handling
    /\ pc' = IF pc = "ready" THEN "passing" ELSE "passing_after"
    /\ snapshot' = now /\ work' = 0 /\ slept' = 0
    /\ UNCHANGED <<now, wait_timeout_ms, metrics, timers, stop_at>>

-----------------------------------------------------------------------------
(* ProcessExpiredTimers: one entry of its loop.                             *)

Passing == pc \in {"passing", "passing_after"}

IsTop(e) == e \in timer_heap /\ \A f \in timer_heap : e.deadline <= f.deadline

FaultyLive(e) ==
    /\ e.fd \in DOMAIN clients
    /\ clients[e.fd].connection_id = e.connection_id
    /\ e.kind \in clients[e.fd].armed

(* The entry is the one of a timer that is armed now. *)
Live(e) ==
    /\ e.fd \in DOMAIN clients
    /\ clients[e.fd].connection_id = e.connection_id
    /\ e.kind \in clients[e.fd].armed
    /\ clients[e.fd].generation[e.kind] = e.generation

PopEntry(e) ==
    /\ Passing /\ IsTop(e) /\ e.deadline <= snapshot
    /\ timer_heap' = timer_heap \ {e}
    /\ UNCHANGED <<now, pc, timing, metrics, next_connection_id, stop_at>>

PopStale ==
    \E e \in timer_heap :
        PopEntry(e) /\ ~Live(e) /\ UNCHANGED <<clients, expired>>

(* The flag and the generation it changes go with the connection. *)
ExpireTimer ==
    \E e \in timer_heap :
        /\ PopEntry(e) /\ Live(e)
        /\ clients' = Restrict(clients, DOMAIN clients \ {e.fd})
        /\ expired' = expired \cup
              {[connection_id |-> e.connection_id, kind |-> e.kind, deadline |-> e.deadline]}

EndPass ==
    /\ Passing
    /\ \A e \in timer_heap : e.deadline > snapshot
    /\ pc' = IF pc = "passing" THEN "metrics" ELSE "metrics_after"
    /\ UNCHANGED <<now, timing, metrics, timers, stop_at>>

-----------------------------------------------------------------------------

AfterMetrics == CASE pc = "metrics"       -> "poll"
                  [] pc = "metrics_after" -> "flush"
                  [] pc = "final"         -> "returned"

(* A line is written when it is due, and the next due in the first interval *)
(* that is not over: the do-while loop, in one step.                        *)
MaybeWriteMetricsLog ==
    /\ pc \in {"metrics", "metrics_after", "final"}
    /\ pc' = AfterMetrics
    /\ IF now < next_metrics_log_time THEN UNCHANGED metrics
       ELSE /\ lines' = lines + 1
            /\ next_metrics_log_time' = next_metrics_log_time +
                  kMetricsLogInterval * (1 + (now - next_metrics_log_time) \div kMetricsLogInterval)
    /\ UNCHANGED <<now, timing, timers, stop_at>>

(* duration_cast<milliseconds> truncates. *)
MillisecondsUntil(t) == IF t <= now THEN 0 ELSE (t - now) \div kMs

(* An outdated entry counts like any other. *)
HeapTimeout(ms) ==
    \/ timer_heap = {} /\ ms = kMaxPollMs
    \/ \E top \in timer_heap :
          IsTop(top) /\ ms = AtMost(kMaxPollMs, MillisecondsUntil(top.deadline))

(* ComputePollTimeoutMs, first half: ready_queue_, of which this module     *)
(* knows nothing, and the heap.                                             *)
ComputePollTimeoutMs ==
    /\ pc = "poll"
    /\ wait_timeout_ms' = 0 \/ HeapTimeout(wait_timeout_ms')
    /\ pc' = IF wait_timeout_ms' = 0 THEN "wait" ELSE "poll_metrics"
    /\ UNCHANGED <<now, snapshot, work, slept, metrics, timers, stop_at>>

FaultyLimitByMetrics ==
    /\ pc = "poll_metrics"
    /\ pc' = "wait"
    /\ UNCHANGED <<now, timing, metrics, timers, stop_at>>

(* Its second half, which reads the clock again. *)
LimitByMetrics ==
    /\ pc = "poll_metrics"
    /\ wait_timeout_ms' = AtMost(wait_timeout_ms, MillisecondsUntil(next_metrics_log_time))
    /\ pc' = "wait"
    /\ UNCHANGED <<now, snapshot, work, slept, metrics, timers, stop_at>>

(* epoll_wait sleeps no longer than its timeout. *)
Sleep ==
    /\ pc = "wait" /\ slept < kMs * wait_timeout_ms /\ now < MaxTime
    /\ now' = now + 1 /\ slept' = slept + 1
    /\ UNCHANGED <<pc, snapshot, wait_timeout_ms, work, metrics, timers, stop_at>>

(* It returns with events, at its timeout, or interrupted by a signal.  A   *)
(* signal that comes just before the call does not interrupt it.            *)
Wake ==
    /\ pc = "wait"
    /\ pc' = "events" /\ wait_timeout_ms' = 0
    /\ UNCHANGED <<now, snapshot, work, slept, metrics, timers, stop_at>>

FaultyEndRound ==
    /\ pc = "flush"
    /\ pc' = IF stop_at = NotStopped \/ clients # << >> THEN "ready" ELSE "final"
    /\ UNCHANGED <<now, timing, metrics, timers, stop_at>>

(* FlushPendingCloseQueue, and Run's test of the stop flag. *)
EndRound ==
    /\ pc = "flush"
    /\ pc' = IF stop_at = NotStopped THEN "ready" ELSE "final"
    /\ UNCHANGED <<now, timing, metrics, timers, stop_at>>

(* Time the thread itself takes, wherever it is. *)
Work ==
    /\ work < MaxWork /\ now < MaxTime /\ pc # "returned"
    /\ now' = now + 1 /\ work' = work + 1
    /\ UNCHANGED <<pc, snapshot, wait_timeout_ms, slept, metrics, timers, stop_at>>

(* HandleSignal in main.cpp: the thread may be anywhere. *)
Signal ==
    /\ stop_at = NotStopped /\ pc # "returned"
    /\ stop_at' = now
    /\ UNCHANGED <<now, pc, timing, metrics, timers>>

Handler(fd) ==
    \/ Register(fd)
    \/ ArmHeaderTimeout(fd) \/ ArmBodyTimeout(fd) \/ ArmIdleKeepAliveTimeout(fd)
    \/ \E kinds \in {{"header", "idle"}, {"body"}} : DisarmTimeouts(fd, kinds)
    \/ Close(fd)

Next ==
    \/ \E fd \in Fd : Handler(fd)
    \/ StartPass \/ PopStale \/ ExpireTimer \/ EndPass
    \/ MaybeWriteMetricsLog
    \/ ComputePollTimeoutMs \/ LimitByMetrics \/ Sleep \/ Wake
    \/ EndRound \/ Work \/ Signal

Spec == Init /\ [][Next]_vars

-----------------------------------------------------------------------------
(* A timer that is armed has its entry in the heap, and no other timer      *)
(* passes for it: of all the entries a connection pushed, or a closed       *)
(* connection that had its descriptor, just one fires it.                   *)
ArmedHaveOneEntry ==
    \A fd \in DOMAIN clients : \A k \in clients[fd].armed :
        \E e \in timer_heap :
            /\ Live(e) /\ e.fd = fd /\ e.kind = k
            /\ \A f \in timer_heap : Live(f) /\ f.fd = fd /\ f.kind = k => f = e

(* Sleeping never makes a metrics line late: only work does, and an         *)
(* interval has no more than one line.                                      *)
MetricsAreTimely ==
    /\ now <= next_metrics_log_time + 2 * MaxWork
    /\ kMetricsLogInterval * lines < next_metrics_log_time

(* A stop request is noticed in time even if the signal comes between the   *)
(* test of the flag and epoll_wait, where it interrupts nothing.            *)
StopsPromptly ==
    stop_at # NotStopped /\ pc # "returned" =>
        now <= stop_at + kMs * kMaxPollMs + 3 * MaxWork

(* The heap implements ArmedTimers: outdated entries are not noticed, and   *)
(* no armed timer fires before its deadline, or later than work makes it.   *)
ArmedNow == {[connection_id |-> e.connection_id, kind |-> e.kind, deadline |-> e.deadline] :
                e \in {f \in timer_heap : Live(f)}}

Promised == INSTANCE ArmedTimers WITH timers <- ArmedNow, Lateness <- 2 * MaxWork

FiresAsArmed == Promised!Spec
=============================================================================
