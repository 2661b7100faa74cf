---------------------------- MODULE TokenBucket ----------------------------
(***************************************************************************)
(* What per-source admission promises (src/src/core/server.cpp,            *)
(* CheckIpRateLimitBeforeRegister), with no table, no list and no stored   *)
(* times: every source owns a bucket that fills by one unit each tick up   *)
(* to Burst, and an attempt is admitted exactly if the bucket holds Cost   *)
(* units, which it then loses.  A source may be forgotten, and start again *)
(* with a full bucket, but only once a crowd of others has tried since it  *)
(* last did.                                                               *)
(***************************************************************************)
EXTENDS Integers

CONSTANTS
    Ip, Burst, Cost,
    Crowds      \* the sets of sources that are enough to have one forgotten

VARIABLES
    level,      \* what each source's bucket holds now
    others,     \* the sources that have tried since this one last did
    spent       \* units each source was given since it was last forgotten

Init ==
    /\ level  = [ip \in Ip |-> Burst]
    /\ others = [ip \in Ip |-> {}]
    /\ spent  = [ip \in Ip |-> 0]

Tick ==
    /\ level' = [ip \in Ip |-> IF level[ip] < Burst THEN level[ip] + 1 ELSE Burst]
    /\ UNCHANGED <<others, spent>>

Seen(ip) == [i \in Ip |-> IF i = ip THEN {} ELSE others[i] \cup {ip}]

MayForget(ip) == {i \in Ip \ {ip} : others[i] \cup {ip} \in Crowds}

Attempt(ip) ==
    \E forgotten \in SUBSET MayForget(ip) :
        /\ others' = Seen(ip)
        /\ level' = [i \in Ip |->
              IF i = ip /\ level[ip] >= Cost THEN level[ip] - Cost
              ELSE IF i \in forgotten THEN Burst ELSE level[i]]
        /\ spent' = [i \in Ip |->
              IF i = ip /\ level[ip] >= Cost THEN spent[ip] + Cost
              ELSE IF i \in forgotten THEN 0 ELSE spent[i]]

Next == Tick \/ \E ip \in Ip : Attempt(ip)

Spec == Init /\ [][Next]_<<level, others, spent>>
=============================================================================
