---------------------------- MODULE ArmedTimers ----------------------------
(***************************************************************************)
(* What the timers of core::Server promise, with no heap and no            *)
(* generations: a connection has at most one timer of each kind, may arm   *)
(* and disarm them as it likes, and is closed by one only when that timer  *)
(* is armed and due, with all its timers.  Time does not pass more than    *)
(* Lateness beyond the deadline of a timer that stays armed.  Module       *)
(* Server keeps of all this the set of kinds each connection has armed.    *)
(***************************************************************************)
EXTENDS Integers

CONSTANTS TimerKind, Lateness

VARIABLES
    now,
    timers,     \* the armed timers: connection_id, kind and deadline
    expired     \* those that have closed their connection

Of(id) == {t \in timers : t.connection_id = id}

OneOfEachKind ==
    \A t, u \in timers : t.connection_id = u.connection_id /\ t.kind = u.kind => t = u

Init == timers = {} /\ expired = {}

(* A connection arms timers, in the future, and disarms others.             *)
Rearm ==
    /\ OneOfEachKind'
    /\ \A t \in timers' \ timers : t.kind \in TimerKind /\ t.deadline > now
    /\ \A t, u \in (timers' \ timers) \cup (timers \ timers') :
          t.connection_id = u.connection_id
    /\ UNCHANGED <<now, expired>>

Expire ==
    \E t \in timers :
        /\ t.deadline <= now
        /\ timers' = timers \ Of(t.connection_id)
        /\ expired' = expired \cup {t}
        /\ UNCHANGED now

Tick ==
    /\ now' > now
    /\ \A t \in timers : now' <= t.deadline + Lateness
    /\ UNCHANGED <<timers, expired>>

Next == Rearm \/ Expire \/ Tick

Spec == Init /\ [][Next]_<<now, timers, expired>>
=============================================================================
