--------------------------- MODULE IpRateLimiter ---------------------------
(***************************************************************************)
(* Admission by source address in core::Server: the token buckets that     *)
(* CheckIpRateLimitBeforeRegister keeps for the addresses it has seen, in  *)
(* a map beside a list ordered by last use.                                *)
(*                                                                         *)
(* Time is counted in ticks and tokens in units, the unit being what a     *)
(* bucket gains in a tick: kIpBucketRefillPerSecond is the choice of the   *)
(* tick.  A token is Cost units, so that a bucket may hold a fraction of   *)
(* one, as the doubles of the code do (their rounding is left out).  One   *)
(* action is one accepted socket, whose check runs without interruption.   *)
(***************************************************************************)
EXTENDS Integers, Sequences, FiniteSets, Functions

CONSTANTS
    Ip,                     \* peer addresses
    kIpBucketBurst,         \* units in a full bucket
    Cost,                   \* units in one token
    kIpBucketTtl,           \* ticks after which an unused bucket is dropped
    kIpBucketMaxEntries,
    MaxTime                 \* bound: ticks in a behaviour

ASSUME IpAssumption == IsFiniteSet(Ip)
ASSUME BucketAssumption ==
    /\ kIpBucketBurst \in Nat /\ Cost \in Nat \ {0} /\ Cost <= kIpBucketBurst
    /\ kIpBucketMaxEntries \in Nat \ {0}
    /\ MaxTime \in Nat
(* An unused bucket has filled up again by the time it is dropped: 10       *)
(* minutes at 50 tokens per second against 200 tokens.                      *)
ASSUME TtlAssumption == kIpBucketTtl \in Nat /\ kIpBucketTtl >= kIpBucketBurst

IpTokenBucketEntry == [tokens : 0..kIpBucketBurst, last_refill : Nat, last_seen : Nat]

(* The last three variables are history.  `granted' has, for every         *)
(* connection admitted, when, and what its source had spent before.        *)
VARIABLES
    now,
    ip_token_buckets,       \* ip_token_buckets_
    ip_bucket_lru,          \* ip_bucket_lru_: least recently seen first
    others, spent,          \* as in TokenBucket
    granted

vars == <<now, ip_token_buckets, ip_bucket_lru, others, spent, granted>>

TypeOK ==
    /\ now \in Nat
    /\ \E known \in SUBSET Ip : ip_token_buckets \in [known -> IpTokenBucketEntry]
    /\ ip_bucket_lru \in Seq(Ip)
    /\ others \in [Ip -> SUBSET Ip]
    /\ spent \in [Ip -> Nat]
    /\ granted \in SUBSET [ip : Ip, at : Nat, before : Nat]

Init ==
    /\ now = 0
    /\ ip_token_buckets = << >>
    /\ ip_bucket_lru = << >>
    /\ others = [ip \in Ip |-> {}]
    /\ spent = [ip \in Ip |-> 0]
    /\ granted = {}

-----------------------------------------------------------------------------
(* As in module Server, a definition named Faulty... or Unchecked... is the *)
(* one after it with a plausible bug, and no part of the limiter.           *)

(* What is left when the n front entries of the list are dropped.           *)
Kept(n) == SubSeq(ip_bucket_lru, n + 1, Len(ip_bucket_lru))
Gone(n) == {ip_bucket_lru[i] : i \in 1..n}
Held(n) == Restrict(ip_token_buckets, DOMAIN ip_token_buckets \ Gone(n))

Expired(ip) == now - ip_token_buckets[ip].last_seen > kIpBucketTtl

(* CleanupExpiredIpBuckets drops the front entries, up to the first one     *)
(* that is not expired.                                                     *)
CleanupDrops(n) ==
    /\ n \in 0..Len(ip_bucket_lru)
    /\ \A i \in 1..n : Expired(ip_bucket_lru[i])
    /\ n < Len(ip_bucket_lru) => ~Expired(ip_bucket_lru[n + 1])

FaultyRefillIpBucket(b) ==
    IF now - b.last_refill <= 0 THEN b
    ELSE LET refilled == b.tokens + (now - b.last_refill) IN
         [b EXCEPT !.tokens = IF refilled < kIpBucketBurst THEN refilled ELSE kIpBucketBurst]

RefillIpBucket(b) ==
    IF now - b.last_refill <= 0 THEN b
    ELSE LET refilled == b.tokens + (now - b.last_refill) IN
         [b EXCEPT !.tokens = IF refilled < kIpBucketBurst THEN refilled ELSE kIpBucketBurst,
                   !.last_refill = now]

FaultyMoveToBack(lru, place) == lru

(* TouchIpBucket on the list: the entry its iterator points to goes last.   *)
MoveToBack(lru, place) ==
    [i \in 1..Len(lru) |-> IF i < place THEN lru[i]
                           ELSE IF i < Len(lru) THEN lru[i + 1] ELSE lru[place]]

NewBucket == [tokens |-> kIpBucketBurst, last_refill |-> now, last_seen |-> now]

Admits(b) == b.tokens >= Cost
UncheckedCharged(b) == [b EXCEPT !.tokens = @ - Cost]
FaultyCharged(b) == [b EXCEPT !.tokens = IF Admits(b) THEN @ - Cost ELSE 0]
Charged(b) == IF Admits(b) THEN [b EXCEPT !.tokens = @ - Cost] ELSE b

(* What the check leaves of a source's history, with those it forgot.       *)
Record(ip, admitted, forgotten) ==
    /\ others' = [i \in Ip |-> IF i = ip THEN {} ELSE others[i] \cup {ip}]
    /\ spent' = [i \in Ip |-> IF i = ip /\ admitted THEN spent[ip] + Cost
                              ELSE IF i \in forgotten THEN 0 ELSE spent[i]]
    /\ granted' = {g \in granted : g.ip \notin forgotten} \cup
                     (IF admitted THEN {[ip |-> ip, at |-> now, before |-> spent[ip]]} ELSE {})

-----------------------------------------------------------------------------
(* CheckIpRateLimitBeforeRegister, for a socket whose peer is ip.           *)

AcceptFromKnownIp(ip) ==
    \E n \in 0..Len(ip_bucket_lru) :
        /\ CleanupDrops(n)
        /\ ip \in DOMAIN Held(n)
        /\ LET seen == [RefillIpBucket(Held(n)[ip]) EXCEPT !.last_seen = now]
           IN  /\ \E place \in 1..Len(Kept(n)) :
                     /\ Kept(n)[place] = ip
                     /\ ip_bucket_lru' = MoveToBack(Kept(n), place)
               /\ ip_token_buckets' = [Held(n) EXCEPT ![ip] = Charged(seen)]
               /\ Record(ip, Admits(seen), {})
        /\ UNCHANGED now

(* Room for a new entry: at capacity the oldest one goes.  The map never    *)
(* holds more than kIpBucketMaxEntries (LruExact), so the loop of           *)
(* EvictOldestIpBucket runs once.                                           *)
EvictOldestIpBucket(n) ==
    IF Cardinality(DOMAIN Held(n)) >= kIpBucketMaxEntries /\ n < Len(ip_bucket_lru)
    THEN n + 1 ELSE n

AcceptFromNewIp(ip) ==
    \E n \in 0..Len(ip_bucket_lru) :
        /\ CleanupDrops(n)
        /\ ip \notin DOMAIN Held(n)
        /\ LET m == EvictOldestIpBucket(n)
           IN  /\ ip_bucket_lru' = Append(Kept(m), ip)
               /\ ip_token_buckets' =
                     [i \in DOMAIN Held(m) \cup {ip} |->
                         IF i = ip THEN Charged(NewBucket) ELSE Held(m)[i]]
               /\ Record(ip, Admits(NewBucket), Gone(m) \ Gone(n))
        /\ UNCHANGED now

Tick ==
    /\ now < MaxTime
    /\ now' = now + 1
    /\ UNCHANGED <<ip_token_buckets, ip_bucket_lru, others, spent, granted>>

Next == Tick \/ \E ip \in Ip : AcceptFromKnownIp(ip) \/ AcceptFromNewIp(ip)

Spec == Init /\ [][Next]_vars

-----------------------------------------------------------------------------
(* The list has each address of the map once, never more than the limit, in *)
(* the order they were last seen: cleaning up from the front until the      *)
(* first fresh bucket, and evicting the front, are right only so.           *)
LruExact ==
    /\ IsInjective(ip_bucket_lru)
    /\ Range(ip_bucket_lru) = DOMAIN ip_token_buckets
    /\ Cardinality(DOMAIN ip_token_buckets) <= kIpBucketMaxEntries
    /\ \A i, j \in 1..Len(ip_bucket_lru) : i < j =>
          ip_token_buckets[ip_bucket_lru[i]].last_seen
             <= ip_token_buckets[ip_bucket_lru[j]].last_seen

(* What an address could spend now. *)
Level(ip) ==
    IF ip \in DOMAIN ip_token_buckets
    THEN RefillIpBucket(ip_token_buckets[ip]).tokens ELSE kIpBucketBurst

(* Over any stretch of time that starts with an admission, a source is      *)
(* given no more than a burst and what the stretch refills, whether it is   *)
(* refused in between, unused for longer than the TTL or dropped by it: the *)
(* bound starts afresh only when its bucket was evicted at capacity.        *)
BurstsBounded ==
    \A g \in granted : spent[g.ip] - g.before + Level(g.ip) <= kIpBucketBurst + (now - g.at)

(* The limiter implements TokenBucket: dropping what the TTL ends and lazy  *)
(* refilling are not to be noticed, and only eviction forgets a source.     *)
Ideal == INSTANCE TokenBucket
           WITH level <- [ip \in Ip |-> Level(ip)],
                Burst <- kIpBucketBurst,
                Crowds <- {S \in SUBSET Ip : Cardinality(S) >= kIpBucketMaxEntries}

LimitsEachSource == Ideal!Spec
=============================================================================
