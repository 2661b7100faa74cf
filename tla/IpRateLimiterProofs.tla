------------------------ MODULE IpRateLimiterProofs ------------------------
(* Proofs about IpRateLimiter for every set of addresses, every burst,     *)
(* every capacity and every TTL in which a bucket fills up again.          *)
EXTENDS IpRateLimiter, SequenceTheorems, FiniteSetTheorems, TLAPS

-----------------------------------------------------------------------------
(* The map b and the list q belong together at time t, when o tells who    *)
(* tried since whom.                                                       *)
Consistent(b, q, o, t) ==
    /\ DOMAIN b \subseteq Ip /\ b \in [DOMAIN b -> IpTokenBucketEntry]
    /\ q \in Seq(Ip)
    /\ o \in [Ip -> SUBSET Ip]
    /\ \A i, j \in 1..Len(q) : q[i] = q[j] => i = j
    /\ \A i \in 1..Len(q) : q[i] \in DOMAIN b
    /\ \A ip \in DOMAIN b : \E i \in 1..Len(q) : q[i] = ip
    /\ Cardinality(DOMAIN b) <= kIpBucketMaxEntries
    /\ \A i, j \in 1..Len(q) : i < j =>
          /\ b[q[i]].last_seen <= b[q[j]].last_seen
          /\ q[j] \in o[q[i]]
    /\ \A ip \in DOMAIN b : b[ip].last_refill = b[ip].last_seen /\ b[ip].last_seen <= t

(* What is granted is on record. *)
GrantsRecorded ==
    /\ \A g \in granted : g.before <= spent[g.ip] /\ g.at <= now
    /\ spent \in [Ip -> Nat]
    /\ granted \in SUBSET [ip : Ip, at : Nat, before : Nat]

Inv == /\ now \in Nat
       /\ Consistent(ip_token_buckets, ip_bucket_lru, others, now)
       /\ GrantsRecorded
       /\ BurstsBounded

(* The fields of an IpTokenBucketEntry.                                     *)
LEMMA EntryFields ==
    ASSUME NEW x \in IpTokenBucketEntry
    PROVE  x.tokens \in 0..kIpBucketBurst /\ x.last_refill \in Nat /\ x.last_seen \in Nat
PROOF
BY DEF IpTokenBucketEntry

(* Who stands where in the list, and what its entry says.                   *)
LEMMA Ordered ==
    ASSUME NEW b, NEW q, NEW o, NEW t, Consistent(b, q, o, t),
           NEW k \in 1..Len(q), NEW l \in 1..Len(q)
    PROVE  /\ q[k] \in DOMAIN b /\ q[k] \in Ip
           /\ b[q[k]] \in IpTokenBucketEntry /\ b[q[k]].last_seen <= t
           /\ q[k] = q[l] => k = l
           /\ k < l => b[q[k]].last_seen <= b[q[l]].last_seen /\ q[l] \in o[q[k]]
PROOF
<1>1. q[k] \in DOMAIN b /\ DOMAIN b \subseteq Ip /\ b \in [DOMAIN b -> IpTokenBucketEntry]
    BY DEF Consistent
<1>2. b[q[k]].last_seen <= t
    BY <1>1 DEF Consistent
<1>3. q[k] = q[l] => k = l
    BY DEF Consistent
<1>4. k < l => b[q[k]].last_seen <= b[q[l]].last_seen /\ q[l] \in o[q[k]]
    BY DEF Consistent
<1> QED
    BY <1>1, <1>2, <1>3, <1>4

SeenBy(o, ip) == [i \in Ip |-> IF i = ip THEN {} ELSE o[i] \cup {ip}]

-----------------------------------------------------------------------------
(* CleanupExpiredIpBuckets and EvictOldestIpBucket: dropping from the front *)
(* keeps map and list together.                                             *)
LEMMA DropFront ==
    ASSUME Consistent(ip_token_buckets, ip_bucket_lru, others, now),
           NEW n \in 0..Len(ip_bucket_lru)
    PROVE  /\ Consistent(Held(n), Kept(n), others, now)
           /\ Len(Kept(n)) = Len(ip_bucket_lru) - n
           /\ \A i \in 1..Len(Kept(n)) : Kept(n)[i] = ip_bucket_lru[i + n]
           /\ DOMAIN Held(n) = DOMAIN ip_token_buckets \ Gone(n)
           /\ \A ip \in DOMAIN Held(n) : Held(n)[ip] = ip_token_buckets[ip]
           /\ IsFiniteSet(DOMAIN Held(n))
PROOF
<1> DEFINE q == ip_bucket_lru
           b == ip_token_buckets
           D == DOMAIN b \ Gone(n)
<1>1. /\ Kept(n) \in Seq(Ip)
      /\ Len(Kept(n)) = Len(q) - n
      /\ \A i \in 1..Len(Kept(n)) : Kept(n)[i] = q[i + n]
    <2>1. Len(q) \in Nat /\ q \in Seq(Ip) /\ n \in Nat /\ n <= Len(q)
        BY LenProperties DEF Consistent
    <2>2. \A i \in n + 1..Len(q) : q[i] \in Ip
        BY <2>1, ElementOfSeq
    <2>3. /\ Kept(n) \in Seq(Ip)
          /\ Len(Kept(n)) = IF n + 1 <= Len(q) THEN Len(q) - (n + 1) + 1 ELSE 0
          /\ \A i \in 1..Len(q) - (n + 1) + 1 : Kept(n)[i] = q[(n + 1) + i - 1]
        BY <2>1, <2>2, SubSeqProperties DEF Kept
    <2>4. Len(q) - (n + 1) + 1 = Len(q) - n /\ \A i \in Nat : (n + 1) + i - 1 = i + n
        BY <2>1
    <2>5. Len(Kept(n)) = Len(q) - n
        BY <2>1, <2>3
    <2>6. ASSUME NEW i \in 1..Len(Kept(n)) PROVE Kept(n)[i] = q[i + n]
        <3>1. Kept(n)[i] = q[(n + 1) + i - 1]
            BY <2>3, <2>4, <2>5
        <3>2. (n + 1) + i - 1 = i + n
            BY <2>4
        <3> QED
            BY <3>1, <3>2
    <2> QED
        BY <2>3, <2>5, <2>6
<1>2. /\ Held(n) = [x \in D |-> b[x]]
      /\ DOMAIN Held(n) = D
      /\ \A ip \in DOMAIN Held(n) : Held(n)[ip] = b[ip]
    BY DEF Held, Restrict
<1>3. IsFiniteSet(DOMAIN b) /\ IsFiniteSet(D) /\ Cardinality(D) <= Cardinality(DOMAIN b)
      /\ Cardinality(D) \in Nat /\ Cardinality(DOMAIN b) \in Nat
    <2>1. IsFiniteSet(DOMAIN b)
        BY IpAssumption, FS_Subset DEF Consistent
    <2> QED
        BY <2>1, FS_Subset, FS_CardinalityType
<1>4. \A i \in 1..Len(Kept(n)) : Kept(n)[i] \in D
    <2> SUFFICES ASSUME NEW i \in 1..Len(Kept(n)) PROVE q[i + n] \in D
        BY <1>1
    <2>1. i + n \in 1..Len(q) /\ \A j \in 1..n : j \in 1..Len(q) /\ j # i + n
        BY <1>1 DEF Consistent
    <2>2. /\ q[i + n] \in DOMAIN b
          /\ \A j, k \in 1..Len(q) : q[j] = q[k] => j = k
        BY <2>1 DEF Consistent
    <2>3. q[i + n] \notin Gone(n)
        BY <2>1, <2>2 DEF Gone
    <2> QED
        BY <2>2, <2>3
<1>5. \A ip \in D : \E i \in 1..Len(Kept(n)) : Kept(n)[i] = ip
    <2> SUFFICES ASSUME NEW ip \in D PROVE \E i \in 1..Len(Kept(n)) : Kept(n)[i] = ip
        OBVIOUS
    <2>1. PICK j \in 1..Len(q) : q[j] = ip
        BY DEF Consistent
    <2>2. j > n
        BY <2>1 DEF Gone
    <2>3. j - n \in 1..Len(Kept(n)) /\ Kept(n)[j - n] = q[j]
        <3>1. Len(q) \in Nat
            BY DEF Consistent
        <3>2. j - n \in 1..Len(Kept(n)) /\ (j - n) + n = j
            BY <1>1, <2>2, <3>1
        <3> QED
            BY <1>1, <3>2
    <2> QED
        BY <2>1, <2>3
<1>6. \A i, j \in 1..Len(Kept(n)) :
         /\ i + n \in 1..Len(q) /\ j + n \in 1..Len(q)
         /\ i < j => i + n < j + n
         /\ i + n = j + n => i = j
    <2>1. Len(q) \in Nat
        BY LenProperties DEF Consistent
    <2> QED
        BY <1>1, <2>1
<1>7. Held(n) \in [D -> IpTokenBucketEntry]
    BY <1>2 DEF Consistent
<1>8. Cardinality(D) <= kIpBucketMaxEntries
    BY <1>3, BucketAssumption DEF Consistent
<1>9. \A i, j \in 1..Len(Kept(n)) :
         /\ Kept(n)[i] = Kept(n)[j] => i = j
         /\ i < j => /\ Held(n)[Kept(n)[i]].last_seen <= Held(n)[Kept(n)[j]].last_seen
                     /\ Kept(n)[j] \in others[Kept(n)[i]]
    <2> SUFFICES ASSUME NEW i \in 1..Len(Kept(n)), NEW j \in 1..Len(Kept(n))
                 PROVE  /\ Kept(n)[i] = Kept(n)[j] => i = j
                        /\ i < j =>
                             /\ Held(n)[Kept(n)[i]].last_seen <= Held(n)[Kept(n)[j]].last_seen
                             /\ Kept(n)[j] \in others[Kept(n)[i]]
        OBVIOUS
    <2>1. Kept(n)[i] = q[i + n] /\ Kept(n)[j] = q[j + n]
        BY <1>1
    <2>2. Held(n)[Kept(n)[i]] = b[q[i + n]] /\ Held(n)[Kept(n)[j]] = b[q[j + n]]
        BY <1>2, <1>4, <2>1
    <2>3. /\ q[i + n] = q[j + n] => i = j
          /\ i < j => /\ b[q[i + n]].last_seen <= b[q[j + n]].last_seen
                      /\ q[j + n] \in others[q[i + n]]
        <3> DEFINE k == i + n
                   l == j + n
        <3>1. k \in 1..Len(q) /\ l \in 1..Len(q) /\ (i < j => k < l) /\ (k = l => i = j)
            BY <1>6
        <3> HIDE DEF k, l
        <3>2. /\ q[k] = q[l] => k = l
              /\ k < l => b[q[k]].last_seen <= b[q[l]].last_seen /\ q[l] \in others[q[k]]
            BY <3>1, Ordered
        <3>3. /\ q[k] = q[l] => i = j
              /\ i < j => b[q[k]].last_seen <= b[q[l]].last_seen /\ q[l] \in others[q[k]]
            BY <3>1, <3>2
        <3> QED
            BY <3>3 DEF k, l
    <2> QED
        BY <2>1, <2>2, <2>3
<1> QED
    BY <1>1, <1>2, <1>3, <1>4, <1>5, <1>7, <1>8, <1>9 DEF Consistent

(* TouchIpBucket: the entry that was used becomes the last of the list.     *)
LEMMA TouchBack ==
    ASSUME NEW b, NEW q, NEW o, NEW t \in Nat, Consistent(b, q, o, t),
           NEW place \in 1..Len(q), NEW e \in IpTokenBucketEntry,
           e.last_refill = t, e.last_seen = t
    PROVE  Consistent([b EXCEPT ![q[place]] = e], MoveToBack(q, place),
                      SeenBy(o, q[place]), t)
PROOF
<1> DEFINE ip == q[place]
           r == MoveToBack(q, place)
           c == [b EXCEPT ![ip] = e]
           s == SeenBy(o, ip)
           from(i) == IF i < place THEN i ELSE IF i < Len(q) THEN i + 1 ELSE place
<1>1. /\ Len(q) \in Nat /\ q \in [1..Len(q) -> Ip] /\ ip \in Ip /\ ip \in DOMAIN b
    BY LenProperties DEF Consistent
<1>2. /\ r \in Seq(Ip) /\ Len(r) = Len(q)
      /\ \A i \in 1..Len(q) : from(i) \in 1..Len(q) /\ r[i] = q[from(i)]
    <2>1. \A i \in 1..Len(q) : from(i) \in 1..Len(q) /\ r[i] = q[from(i)]
        BY <1>1 DEF MoveToBack
    <2>2. r = [i \in 1..Len(q) |-> q[from(i)]]
        BY <1>1 DEF MoveToBack
    <2>3. r \in [1..Len(q) -> Ip]
        BY <1>1, <2>1, <2>2
    <2> QED
        BY <1>1, <2>1, <2>3
<1>3. /\ \A i, j \in 1..Len(q) : from(i) = from(j) => i = j
      /\ \A i, j \in 1..Len(q) : i < j => from(i) # place
                                          /\ (from(j) = place \/ from(i) < from(j))
      /\ \A j \in 1..Len(q) : \E i \in 1..Len(q) : from(i) = j
    <2>1. \A j \in 1..Len(q) : \E i \in 1..Len(q) : from(i) = j
        <3> SUFFICES ASSUME NEW j \in 1..Len(q) PROVE \E i \in 1..Len(q) : from(i) = j
            OBVIOUS
        <3>1. CASE j < place
            BY <3>1, <1>1
        <3>2. CASE j > place
            <4>1. from(j - 1) = j /\ j - 1 \in 1..Len(q)
                BY <3>2, <1>1
            <4> QED
                BY <4>1
        <3>3. CASE j = place
            <4>1. from(Len(q)) = j /\ Len(q) \in 1..Len(q)
                BY <3>3, <1>1
            <4> QED
                BY <4>1
        <3> QED
            BY <3>1, <3>2, <3>3, <1>1
    <2>2. \A i, j \in 1..Len(q) : from(i) = from(j) => i = j
        BY <1>1
    <2>3. \A i, j \in 1..Len(q) : i < j => from(i) # place
                                          /\ (from(j) = place \/ from(i) < from(j))
        BY <1>1
    <2> QED
        BY <2>1, <2>2, <2>3
<1> HIDE DEF from
<1>4. /\ DOMAIN c = DOMAIN b /\ c \in [DOMAIN b -> IpTokenBucketEntry]
      /\ c[ip] = e /\ \A x \in DOMAIN b : x # ip => c[x] = b[x]
    BY <1>1 DEF Consistent
<1>5. /\ s \in [Ip -> SUBSET Ip]
      /\ \A x \in Ip : x # ip => s[x] = o[x] \cup {ip}
    BY <1>1 DEF SeenBy, Consistent
<1> HIDE DEF r, c, s
<1>6. \A i, j \in 1..Len(q) : r[i] = r[j] => i = j
    BY <1>2, <1>3 DEF Consistent
<1>7. \A i \in 1..Len(q) : r[i] \in DOMAIN c
    BY <1>2, <1>4 DEF Consistent
<1>8. \A x \in DOMAIN c : \E i \in 1..Len(q) : r[i] = x
    <2> SUFFICES ASSUME NEW x \in DOMAIN c PROVE \E i \in 1..Len(q) : r[i] = x
        OBVIOUS
    <2>1. PICK j \in 1..Len(q) : q[j] = x
        BY <1>4 DEF Consistent
    <2>2. PICK i \in 1..Len(q) : from(i) = j
        BY <1>3
    <2> QED
        BY <1>2, <2>1, <2>2
<1>9. \A i, j \in 1..Len(q) : i < j =>
         c[r[i]].last_seen <= c[r[j]].last_seen /\ r[j] \in s[r[i]]
    <2> SUFFICES ASSUME NEW i \in 1..Len(q), NEW j \in 1..Len(q), i < j
                 PROVE  c[r[i]].last_seen <= c[r[j]].last_seen /\ r[j] \in s[r[i]]
        OBVIOUS
    <2>1. r[i] = q[from(i)] /\ r[i] # ip /\ r[i] \in DOMAIN b /\ r[i] \in Ip
        <3>1. r[i] = q[from(i)] /\ from(i) \in 1..Len(q) /\ from(i) # place
            BY <1>2, <1>3
        <3> QED
            BY <3>1, Ordered
    <2>2. c[r[i]] = b[r[i]] /\ s[r[i]] = o[r[i]] \cup {ip}
        BY <2>1, <1>4, <1>5
    <2>3. CASE from(j) = place
        <3>1. r[j] = ip /\ c[r[j]].last_seen = t
            BY <2>3, <1>2, <1>4
        <3>2. b[r[i]].last_seen <= t
            BY <2>1 DEF Consistent
        <3> QED
            BY <2>2, <3>1, <3>2
    <2>4. CASE from(j) # place
        <3>1. r[j] = q[from(j)] /\ r[j] # ip /\ r[j] \in DOMAIN b
            <4>1. r[j] = q[from(j)] /\ from(j) \in 1..Len(q)
                BY <1>2
            <4> QED
                BY <4>1, <2>4, Ordered
        <3>2. c[r[j]] = b[r[j]] /\ from(i) < from(j)
            BY <2>4, <3>1, <1>3, <1>4
        <3>3. from(i) \in 1..Len(q) /\ from(j) \in 1..Len(q)
            BY <1>2
        <3>4. /\ b[q[from(i)]].last_seen <= b[q[from(j)]].last_seen
              /\ q[from(j)] \in o[q[from(i)]]
            BY <3>2, <3>3, Ordered
        <3> QED
            BY <2>1, <2>2, <3>1, <3>2, <3>4
    <2> QED
        BY <2>3, <2>4
<1>10. \A x \in DOMAIN c : c[x].last_refill = c[x].last_seen /\ c[x].last_seen <= t
    BY <1>4 DEF Consistent
<1>11. Cardinality(DOMAIN c) <= kIpBucketMaxEntries /\ DOMAIN c \subseteq Ip
    BY <1>4 DEF Consistent
<1>12. Consistent(c, r, s, t)
    BY <1>2, <1>4, <1>5, <1>6, <1>7, <1>8, <1>9, <1>10, <1>11 DEF Consistent
<1> QED
    BY <1>12 DEF c, r, s

(* A new address: it goes last, and there must be room for it.              *)
LEMMA AddBack ==
    ASSUME NEW b, NEW q, NEW o, NEW t \in Nat, Consistent(b, q, o, t),
           IsFiniteSet(DOMAIN b), Cardinality(DOMAIN b) < kIpBucketMaxEntries,
           NEW ip \in Ip \ DOMAIN b, NEW e \in IpTokenBucketEntry,
           e.last_refill = t, e.last_seen = t,
           NEW c, c = [i \in DOMAIN b \cup {ip} |-> IF i = ip THEN e ELSE b[i]]
    PROVE  Consistent(c, Append(q, ip), SeenBy(o, ip), t)
PROOF
<1> DEFINE r == Append(q, ip)
           s == SeenBy(o, ip)
<1>1. /\ Len(q) \in Nat /\ r \in Seq(Ip) /\ Len(r) = Len(q) + 1 /\ r[Len(r)] = ip
      /\ \A i \in 1..Len(q) : r[i] = q[i] /\ q[i] # ip /\ q[i] \in DOMAIN b /\ q[i] \in Ip
    BY DEF Consistent
<1>2. /\ DOMAIN c = DOMAIN b \cup {ip} /\ c \in [DOMAIN c -> IpTokenBucketEntry]
      /\ c[ip] = e /\ \A x \in DOMAIN b : c[x] = b[x]
      /\ DOMAIN c \subseteq Ip
    BY DEF Consistent
<1>3. /\ s \in [Ip -> SUBSET Ip]
      /\ \A x \in Ip : x # ip => s[x] = o[x] \cup {ip}
    BY DEF SeenBy, Consistent
<1>4. Cardinality(DOMAIN c) <= kIpBucketMaxEntries
    <2>1. Cardinality(DOMAIN b \cup {ip}) = Cardinality(DOMAIN b) + 1
          /\ Cardinality(DOMAIN b) \in Nat
        BY FS_AddElement, FS_CardinalityType
    <2> QED
        BY <1>2, <2>1, BucketAssumption
<1> HIDE DEF r, s
<1>5. \A i \in 1..Len(r) : i \in 1..Len(q) \/ i = Len(r)
    BY <1>1
<1>6. \A i, j \in 1..Len(r) : r[i] = r[j] => i = j
    <2>1. \A i, j \in 1..Len(q) : q[i] = q[j] => i = j
        BY DEF Consistent
    <2>2. \A i, j \in 1..Len(q) : r[i] = r[j] => i = j
        BY <1>1, <2>1
    <2>3. \A i \in 1..Len(q) : r[i] # r[Len(r)]
        BY <1>1
    <2> QED
        BY <1>5, <2>2, <2>3
<1>7. \A x \in DOMAIN c : \E i \in 1..Len(r) : r[i] = x
    <2> SUFFICES ASSUME NEW x \in DOMAIN c PROVE \E i \in 1..Len(r) : r[i] = x
        OBVIOUS
    <2>1. CASE x = ip
        BY <2>1, <1>1
    <2>2. CASE x \in DOMAIN b
        BY <2>2, <1>1 DEF Consistent
    <2> QED
        BY <2>1, <2>2, <1>2
<1>8. \A i, j \in 1..Len(r) : i < j =>
         c[r[i]].last_seen <= c[r[j]].last_seen /\ r[j] \in s[r[i]]
    <2> SUFFICES ASSUME NEW i \in 1..Len(r), NEW j \in 1..Len(r), i < j
                 PROVE  c[r[i]].last_seen <= c[r[j]].last_seen /\ r[j] \in s[r[i]]
        OBVIOUS
    <2>1. i \in 1..Len(q)
        BY <1>1, <1>5
    <2>2. r[i] = q[i] /\ q[i] \in DOMAIN b /\ q[i] \in Ip /\ c[r[i]] = b[q[i]]
          /\ s[r[i]] = o[q[i]] \cup {ip}
        BY <2>1, <1>1, <1>2, <1>3
    <2>3. CASE j = Len(r)
        <3>1. r[j] = ip /\ c[r[j]].last_seen = t
            BY <2>3, <1>1, <1>2
        <3> QED
            BY <2>2, <3>1 DEF Consistent
    <2>4. CASE j \in 1..Len(q)
        <3>1. r[j] = q[j] /\ c[r[j]] = b[q[j]]
            BY <2>4, <1>1, <1>2
        <3> QED
            BY <2>1, <2>2, <2>4, <3>1 DEF Consistent
    <2> QED
        BY <1>5, <2>3, <2>4
<1>9. \A x \in DOMAIN c : c[x].last_refill = c[x].last_seen /\ c[x].last_seen <= t
    BY <1>2 DEF Consistent
<1>10. \A i \in 1..Len(r) : r[i] \in DOMAIN c
    BY <1>1, <1>2, <1>5
<1>11. Consistent(c, r, s, t)
    BY <1>1, <1>2, <1>3, <1>4, <1>6, <1>7, <1>8, <1>9, <1>10 DEF Consistent
<1> QED
    BY <1>11 DEF r, s

-----------------------------------------------------------------------------
(* What an address could spend at time t, by the map b.                     *)
Capped(x) == IF x < kIpBucketBurst THEN x ELSE kIpBucketBurst
LevelIn(b, ip, t) ==
    IF ip \in DOMAIN b THEN Capped(b[ip].tokens + (t - b[ip].last_refill)) ELSE kIpBucketBurst

(* Reading a level is refilling the bucket, whatever was refilled before.   *)
LEMMA LevelIs ==
    ASSUME now \in Nat, Consistent(ip_token_buckets, ip_bucket_lru, others, now), NEW ip \in Ip
    PROVE  /\ Level(ip) = LevelIn(ip_token_buckets, ip, now)
           /\ Level(ip) \in 0..kIpBucketBurst
PROOF
<1>1. CASE ip \in DOMAIN ip_token_buckets
    <2> DEFINE b == ip_token_buckets[ip]
    <2>1. b \in IpTokenBucketEntry /\ b.last_refill <= now
        BY <1>1 DEF Consistent
    <2>2. RefillIpBucket(b).tokens = Capped(b.tokens + (now - b.last_refill))
        BY <2>1, BucketAssumption DEF RefillIpBucket, Capped, IpTokenBucketEntry
    <2>3. Capped(b.tokens + (now - b.last_refill)) \in 0..kIpBucketBurst
        BY <2>1, BucketAssumption DEF Capped, IpTokenBucketEntry
    <2> QED
        BY <1>1, <2>2, <2>3 DEF Level, LevelIn
<1>2. CASE ip \notin DOMAIN ip_token_buckets
    BY <1>2, BucketAssumption DEF Level, LevelIn
<1> QED
    BY <1>1, <1>2

(* RefillIpBucket brings an entry up to date and leaves it an entry.        *)
LEMMA RefillEntry ==
    ASSUME now \in Nat, NEW x \in IpTokenBucketEntry, x.last_refill <= now
    PROVE  /\ RefillIpBucket(x) \in IpTokenBucketEntry
           /\ RefillIpBucket(x).last_refill = now
PROOF
<1>1. CASE now - x.last_refill <= 0
    BY <1>1, EntryFields DEF RefillIpBucket, IpTokenBucketEntry
<1>2. CASE now - x.last_refill > 0
    <2> DEFINE refilled == x.tokens + (now - x.last_refill)
               tokens == IF refilled < kIpBucketBurst THEN refilled ELSE kIpBucketBurst
    <2>1. tokens \in 0..kIpBucketBurst
        <3>1. x.tokens \in Nat /\ x.last_refill \in Nat /\ now \in Nat
            BY EntryFields, BucketAssumption
        <3>2. refilled \in Nat
            BY <1>2, <3>1
        <3> HIDE DEF refilled
        <3> QED
            BY <3>2, BucketAssumption
    <2>2. RefillIpBucket(x) = [x EXCEPT !.tokens = tokens, !.last_refill = now]
        BY <1>2 DEF RefillIpBucket, IpTokenBucketEntry
    <2> HIDE DEF tokens
    <2> QED
        BY <2>1, <2>2 DEF IpTokenBucketEntry
<1> QED
    BY <1>1, <1>2, EntryFields

LevelsKnown == \A ip \in Ip : Level(ip) = LevelIn(ip_token_buckets, ip, now)
MapKept == now \in Nat /\ Consistent(ip_token_buckets, ip_bucket_lru, others, now)

LEMMA LevelsAfterStep == MapKept' => LevelsKnown'
PROOF
<1>1. MapKept => LevelsKnown
    BY LevelIs DEF MapKept, LevelsKnown
<1> QED
    BY <1>1, PTL

(* A bucket the TTL ends is full: dropping it changes nobody's level.       *)
LEMMA CleanupKeepsLevels ==
    ASSUME now \in Nat, Consistent(ip_token_buckets, ip_bucket_lru, others, now),
           NEW n, CleanupDrops(n), NEW ip \in Ip
    PROVE  LevelIn(Held(n), ip, now) = LevelIn(ip_token_buckets, ip, now)
PROOF
<1> USE DEF CleanupDrops
<1>1. CASE ip \in DOMAIN Held(n)
    BY <1>1, DropFront DEF LevelIn
<1>2. CASE ip \notin DOMAIN ip_token_buckets
    BY <1>2, DropFront DEF LevelIn
<1>3. CASE ip \in DOMAIN ip_token_buckets /\ ip \notin DOMAIN Held(n)
    <2> DEFINE b == ip_token_buckets[ip]
    <2>1. Expired(ip)
        <3>1. ip \in Gone(n)
            BY <1>3, DropFront
        <3> QED
            BY <3>1 DEF Gone
    <2>2. b \in IpTokenBucketEntry /\ b.last_refill = b.last_seen
        BY <1>3 DEF Consistent
    <2>3. b.tokens + (now - b.last_refill) >= kIpBucketBurst
        BY <2>1, <2>2, TtlAssumption, BucketAssumption DEF Expired, IpTokenBucketEntry
    <2>4. Capped(b.tokens + (now - b.last_refill)) = kIpBucketBurst
        BY <2>2, <2>3, BucketAssumption DEF Capped, IpTokenBucketEntry
    <2> QED
        BY <1>3, <2>4 DEF LevelIn
<1> QED
    BY <1>1, <1>2, <1>3

(* The level of every address after one of them is charged.                 *)
LevelsAfter(ip, forgotten) ==
    [i \in Ip |->
        IF i = ip /\ Level(ip) >= Cost THEN Level(ip) - Cost
        ELSE IF i \in forgotten THEN kIpBucketBurst ELSE Level(i)]

MayForget(ip) ==
    {i \in Ip \ {ip} : Cardinality(others[i] \cup {ip}) >= kIpBucketMaxEntries}

(* One accepted socket, seen from outside.                                  *)
Outcome(ip, forgotten) ==
    /\ now' = now
    /\ Consistent(ip_token_buckets, ip_bucket_lru, others, now)'
    /\ \A i \in Ip : LevelIn(ip_token_buckets', i, now) = LevelsAfter(ip, forgotten)[i]
    /\ Record(ip, Level(ip) >= Cost, forgotten)

LEMMA KnownOutcome ==
    ASSUME now \in Nat, Consistent(ip_token_buckets, ip_bucket_lru, others, now),
           NEW ip \in Ip, AcceptFromKnownIp(ip)
    PROVE  Outcome(ip, {})
PROOF
<1>1. PICK n \in 0..Len(ip_bucket_lru) :
        /\ CleanupDrops(n)
        /\ ip \in DOMAIN Held(n)
        /\ LET seen == [RefillIpBucket(Held(n)[ip]) EXCEPT !.last_seen = now]
           IN  /\ \E place \in 1..Len(Kept(n)) :
                     /\ Kept(n)[place] = ip
                     /\ ip_bucket_lru' = MoveToBack(Kept(n), place)
               /\ ip_token_buckets' = [Held(n) EXCEPT ![ip] = Charged(seen)]
               /\ Record(ip, Admits(seen), {})
        /\ UNCHANGED now
    BY DEF AcceptFromKnownIp
<1> DEFINE b == Held(n)
           seen == [RefillIpBucket(b[ip]) EXCEPT !.last_seen = now]
           e == Charged(seen)
<1>2. PICK place \in 1..Len(Kept(n)) :
        Kept(n)[place] = ip /\ ip_bucket_lru' = MoveToBack(Kept(n), place)
    BY <1>1
<1>3. /\ Consistent(b, Kept(n), others, now)
      /\ DOMAIN b = DOMAIN ip_token_buckets \ Gone(n)
      /\ b[ip] = ip_token_buckets[ip]
    BY <1>1, DropFront
<1>4. b[ip] \in IpTokenBucketEntry /\ b[ip].last_refill <= now
    BY <1>1, <1>3 DEF Consistent
<1>5. Level(ip) = RefillIpBucket(b[ip]).tokens /\ Level(ip) \in 0..kIpBucketBurst
    BY <1>1, <1>3, LevelIs DEF Level
<1>6. RefillIpBucket(b[ip]) \in IpTokenBucketEntry /\ RefillIpBucket(b[ip]).last_refill = now
    BY <1>4, RefillEntry
<1>7. /\ seen \in IpTokenBucketEntry /\ seen.tokens = Level(ip)
      /\ seen.last_refill = now /\ seen.last_seen = now
    BY <1>5, <1>6 DEF IpTokenBucketEntry
<1> HIDE DEF seen
<1>8. /\ e \in IpTokenBucketEntry /\ e.last_refill = now /\ e.last_seen = now
      /\ e.tokens = IF Level(ip) >= Cost THEN Level(ip) - Cost ELSE Level(ip)
    <2>1. CASE Level(ip) >= Cost
        <3>1. e = [seen EXCEPT !.tokens = Level(ip) - Cost]
            BY <1>7, <2>1 DEF Charged, Admits, IpTokenBucketEntry
        <3>2. Level(ip) - Cost \in 0..kIpBucketBurst
            BY <1>5, <2>1, BucketAssumption
        <3> HIDE DEF e
        <3> QED
            BY <3>1, <3>2, <1>7, <2>1 DEF IpTokenBucketEntry
    <2>2. CASE ~(Level(ip) >= Cost)
        <3>1. e = seen
            BY <1>7, <2>2 DEF Charged, Admits
        <3> HIDE DEF e
        <3> QED
            BY <3>1, <1>7, <2>2
    <2> QED
        BY <2>1, <2>2
<1> HIDE DEF e
<1>9. ip_token_buckets' = [b EXCEPT ![ip] = e] /\ Record(ip, Admits(seen), {}) /\ now' = now
    BY <1>1 DEF e, seen
<1>10. others' = SeenBy(others, ip)
    BY <1>9 DEF Record, SeenBy
<1>11. Consistent(ip_token_buckets, ip_bucket_lru, others, now)'
    BY <1>2, <1>3, <1>8, <1>9, <1>10, TouchBack
<1>12. ASSUME NEW i \in Ip
       PROVE  LevelIn(ip_token_buckets', i, now) = LevelsAfter(ip, {})[i]
    <2>1. CASE i = ip
        <3>1. LevelIn(ip_token_buckets', i, now) = Capped(e.tokens + (now - now))
            BY <1>1, <1>8, <1>9, <2>1 DEF LevelIn
        <3> QED
            BY <3>1, <2>1, <1>5, <1>8, BucketAssumption DEF Capped, LevelsAfter
    <2>2. CASE i # ip
        <3>1. LevelIn(ip_token_buckets', i, now) = LevelIn(b, i, now)
            BY <1>9, <2>2 DEF LevelIn
        <3>2. LevelIn(b, i, now) = Level(i)
            BY <1>1, LevelIs, CleanupKeepsLevels
        <3> QED
            BY <3>1, <3>2, <2>2 DEF LevelsAfter
    <2> QED
        BY <2>1, <2>2
<1>13. Record(ip, Level(ip) >= Cost, {})
    BY <1>7, <1>9 DEF Admits
<1> QED
    BY <1>9, <1>11, <1>12, <1>13 DEF Outcome

LEMMA NewOutcome ==
    ASSUME now \in Nat, Consistent(ip_token_buckets, ip_bucket_lru, others, now),
           NEW ip \in Ip, AcceptFromNewIp(ip)
    PROVE  \E forgotten \in SUBSET MayForget(ip) : Outcome(ip, forgotten)
PROOF
<1>1. PICK n \in 0..Len(ip_bucket_lru) :
        /\ CleanupDrops(n)
        /\ ip \notin DOMAIN Held(n)
        /\ LET m == EvictOldestIpBucket(n)
           IN  /\ ip_bucket_lru' = Append(Kept(m), ip)
               /\ ip_token_buckets' =
                     [i \in DOMAIN Held(m) \cup {ip} |->
                         IF i = ip THEN Charged(NewBucket) ELSE Held(m)[i]]
               /\ Record(ip, Admits(NewBucket), Gone(m) \ Gone(n))
        /\ UNCHANGED now
    BY DEF AcceptFromNewIp
<1> DEFINE q == ip_bucket_lru
           m == EvictOldestIpBucket(n)
           forgotten == Gone(m) \ Gone(n)
           e == Charged(NewBucket)
<1>2. m \in 0..Len(q) /\ (m = n \/ m = n + 1)
    BY DEF EvictOldestIpBucket, Consistent
<1>3. /\ Consistent(Held(n), Kept(n), others, now) /\ Consistent(Held(m), Kept(m), others, now)
      /\ Len(Kept(n)) = Len(q) - n
      /\ \A i \in 1..Len(Kept(n)) : Kept(n)[i] = q[i + n]
      /\ DOMAIN Held(n) = DOMAIN ip_token_buckets \ Gone(n)
      /\ DOMAIN Held(m) = DOMAIN ip_token_buckets \ Gone(m)
      /\ \A x \in DOMAIN Held(n) : Held(n)[x] = ip_token_buckets[x]
      /\ \A x \in DOMAIN Held(m) : Held(m)[x] = ip_token_buckets[x]
      /\ IsFiniteSet(DOMAIN Held(n)) /\ IsFiniteSet(DOMAIN Held(m))
    BY <1>2, DropFront
<1>4. DOMAIN Held(m) = DOMAIN Held(n) \ forgotten
    BY <1>2, <1>3 DEF Gone
<1>5. /\ Cardinality(DOMAIN Held(m)) < kIpBucketMaxEntries
      /\ forgotten \subseteq MayForget(ip)
    <2>1. CASE Cardinality(DOMAIN Held(n)) < kIpBucketMaxEntries
        <3>1. m = n
            BY <2>1, <1>3, FS_CardinalityType, BucketAssumption DEF EvictOldestIpBucket
        <3> QED
            BY <2>1, <3>1
    <2>2. CASE Cardinality(DOMAIN Held(n)) >= kIpBucketMaxEntries
        <3>1. Cardinality(DOMAIN Held(n)) = kIpBucketMaxEntries
              /\ Cardinality(DOMAIN Held(n)) \in Nat
            BY <2>2, <1>3, FS_CardinalityType, BucketAssumption DEF Consistent
        <3>2. DOMAIN Held(n) # {}
            BY <3>1, FS_EmptySet, BucketAssumption
        <3>3. Len(Kept(n)) > 0
            BY <3>2, <1>3 DEF Consistent
        <3>4. n < Len(q) /\ m = n + 1
            BY <2>2, <3>3, <1>3 DEF EvictOldestIpBucket, Consistent
        <3> DEFINE victim == q[n + 1]
        <3>5. Kept(n)[1] = victim /\ victim \in DOMAIN Held(n) /\ victim \in Ip
            <4>1. 1 \in 1..Len(Kept(n)) /\ 1 + n = n + 1
                BY <3>3, <1>3 DEF Consistent
            <4> QED
                BY <4>1, <1>3 DEF Consistent
        <3>6. Gone(m) = Gone(n) \cup {victim}
            <4>1. 1..m = 1..n \cup {n + 1}
                BY <3>4
            <4> QED
                BY <4>1 DEF Gone
        <3>7. forgotten = {victim} /\ DOMAIN Held(m) = DOMAIN Held(n) \ {victim}
            <4>1. victim \notin Gone(n)
                BY <3>5, <1>3
            <4> HIDE DEF m, victim
            <4>2. forgotten = {victim}
                BY <4>1, <3>6
            <4> QED
                BY <4>2, <1>4
        <3>8. Cardinality(DOMAIN Held(m)) = kIpBucketMaxEntries - 1
            <4> HIDE DEF m, victim
            <4>1. Cardinality(DOMAIN Held(n) \ {victim}) = Cardinality(DOMAIN Held(n)) - 1
                <5>1. IsFiniteSet(DOMAIN Held(n)) /\ victim \in DOMAIN Held(n)
                    BY <3>5, <1>3
                <5> QED
                    BY <5>1, FS_RemoveElement
            <4> QED
                BY <4>1, <3>1, <3>7
        <3>9. DOMAIN Held(m) \subseteq others[victim]
            <4> SUFFICES ASSUME NEW x \in DOMAIN Held(n), x # victim PROVE x \in others[victim]
                BY <3>7
            <4>1. PICK j \in 1..Len(Kept(n)) : Kept(n)[j] = x
                BY <1>3 DEF Consistent
            <4>2. 1 < j /\ 1 \in 1..Len(Kept(n))
                BY <4>1, <3>5, <3>3
            <4> QED
                BY <4>1, <4>2, <3>5, <1>3 DEF Consistent
        <3>10. ip \notin DOMAIN Held(m) /\ ip # victim
            BY <1>1, <3>5, <3>7
        <3>11. Cardinality(DOMAIN Held(m) \cup {ip}) = kIpBucketMaxEntries
            <4> HIDE DEF m, victim
            <4>1. Cardinality(DOMAIN Held(m) \cup {ip}) = Cardinality(DOMAIN Held(m)) + 1
                BY <3>10, <1>3, FS_AddElement
            <4> QED
                BY <4>1, <3>8, BucketAssumption
        <3>12. Cardinality(others[victim] \cup {ip}) >= kIpBucketMaxEntries
            <4> DEFINE T == DOMAIN Held(m) \cup {ip}
                       S == others[victim] \cup {ip}
            <4>1. T \subseteq S /\ S \subseteq Ip
                BY <3>9, <3>5 DEF Consistent
            <4>2. IsFiniteSet(S)
                BY <4>1, IpAssumption, FS_Subset
            <4>3. Cardinality(T) <= Cardinality(S)
                BY <4>1, <4>2, FS_Subset
            <4> QED
                BY <4>2, <4>3, <3>11, FS_CardinalityType, BucketAssumption
        <3>13. Cardinality(DOMAIN Held(m)) < kIpBucketMaxEntries
            BY <3>8, BucketAssumption
        <3> QED
            BY <3>5, <3>7, <3>10, <3>12, <3>13 DEF MayForget
    <2> QED
        BY <2>1, <2>2, <1>3, FS_CardinalityType, BucketAssumption
<1>6. Level(ip) = kIpBucketBurst
    BY <1>1, LevelIs, CleanupKeepsLevels DEF LevelIn
<1>7. /\ NewBucket \in IpTokenBucketEntry /\ NewBucket.tokens = Level(ip)
      /\ NewBucket.last_refill = now /\ NewBucket.last_seen = now
    BY <1>6, BucketAssumption DEF NewBucket, IpTokenBucketEntry
<1>8. /\ e \in IpTokenBucketEntry /\ e.last_refill = now /\ e.last_seen = now
      /\ e.tokens = Level(ip) - Cost /\ Level(ip) >= Cost
    BY <1>6, <1>7, BucketAssumption DEF Charged, Admits, IpTokenBucketEntry
<1>9. ip \notin DOMAIN Held(m)
    BY <1>1, <1>4
<1>10. /\ ip_bucket_lru' = Append(Kept(m), ip)
       /\ ip_token_buckets' = [i \in DOMAIN Held(m) \cup {ip} |-> IF i = ip THEN e ELSE Held(m)[i]]
       /\ Record(ip, Admits(NewBucket), forgotten)
       /\ now' = now
    BY <1>1
<1>11. others' = SeenBy(others, ip)
    BY <1>10 DEF Record, SeenBy
<1> HIDE DEF e, m, forgotten
<1>12. Consistent(ip_token_buckets, ip_bucket_lru, others, now)'
    <2> DEFINE b == Held(m)
               k == Kept(m)
    <2>1. Consistent(b, k, others, now) /\ IsFiniteSet(DOMAIN b)
          /\ Cardinality(DOMAIN b) < kIpBucketMaxEntries /\ ip \in Ip \ DOMAIN b
        BY <1>3, <1>5, <1>9
    <2>2. ip_token_buckets' = [i \in DOMAIN b \cup {ip} |-> IF i = ip THEN e ELSE b[i]]
          /\ ip_bucket_lru' = Append(k, ip)
        BY <1>10
    <2> HIDE DEF b, k
    <2>3. Consistent(ip_token_buckets', Append(k, ip), SeenBy(others, ip), now)
        <3>1. /\ now \in Nat /\ e \in IpTokenBucketEntry
              /\ e.last_refill = now /\ e.last_seen = now
            BY <1>8
        <3> QED
            BY <2>1, <2>2, <3>1, AddBack
    <2> QED
        BY <2>2, <2>3, <1>10, <1>11
<1>13. ASSUME NEW i \in Ip
       PROVE  LevelIn(ip_token_buckets', i, now) = LevelsAfter(ip, forgotten)[i]
    <2>1. CASE i = ip
        <3>1. LevelIn(ip_token_buckets', i, now) = Capped(e.tokens + (now - now))
            BY <1>8, <1>10, <2>1 DEF LevelIn
        <3> QED
            BY <3>1, <2>1, <1>6, <1>8, BucketAssumption DEF Capped, LevelsAfter
    <2>2. CASE i # ip /\ i \in forgotten
        <3>1. i \notin DOMAIN ip_token_buckets'
            BY <1>4, <1>10, <2>2
        <3> QED
            BY <3>1, <2>2 DEF LevelIn, LevelsAfter
    <2>3. CASE i # ip /\ i \notin forgotten
        <3>1. LevelIn(ip_token_buckets', i, now) = LevelIn(Held(n), i, now)
            BY <1>3, <1>4, <1>10, <2>3 DEF LevelIn
        <3>2. LevelIn(Held(n), i, now) = Level(i)
            BY <1>1, LevelIs, CleanupKeepsLevels
        <3> QED
            BY <3>1, <3>2, <2>3 DEF LevelsAfter
    <2> QED
        BY <2>1, <2>2, <2>3
<1>14. Record(ip, Level(ip) >= Cost, forgotten)
    BY <1>7, <1>10 DEF Admits
<1>15. Outcome(ip, forgotten)
    BY <1>10, <1>12, <1>13, <1>14 DEF Outcome
<1> QED
    BY <1>5, <1>15

-----------------------------------------------------------------------------
LEMMA OutcomeKeepsInv ==
    ASSUME Inv, NEW ip \in Ip, NEW forgotten \in SUBSET MayForget(ip), Outcome(ip, forgotten)
    PROVE  Inv'
PROOF
<1>1. \A i \in Ip : /\ Level(i) \in 0..kIpBucketBurst
                    /\ Level(i)' = LevelsAfter(ip, forgotten)[i]
    <2>1. \A i \in Ip : Level(i) \in 0..kIpBucketBurst
        BY LevelIs DEF Inv
    <2>2. ASSUME NEW i \in Ip PROVE Level(i)' = LevelIn(ip_token_buckets', i, now')
        <3>1. MapKept'
            BY DEF Inv, Outcome, MapKept
        <3> QED
            BY <3>1, LevelsAfterStep DEF LevelsKnown
    <2> QED
        BY <2>1, <2>2 DEF Outcome
<1>2. ip \notin forgotten
    BY DEF MayForget
<1>3. spent' \in [Ip -> Nat]
    BY BucketAssumption DEF Inv, GrantsRecorded, Outcome, Record
<1>4. granted' \in SUBSET [ip : Ip, at : Nat, before : Nat]
    BY DEF Inv, GrantsRecorded, Outcome, Record
<1>5. ASSUME NEW g \in granted'
      PROVE  /\ g.before <= spent'[g.ip] /\ g.at <= now'
             /\ spent'[g.ip] - g.before + Level(g.ip)' <= kIpBucketBurst + (now' - g.at)
    <2>1. now' = now /\ now \in Nat /\ spent \in [Ip -> Nat]
        BY DEF Inv, Outcome, GrantsRecorded
    <2>2. CASE g \in granted /\ g.ip \notin forgotten
        <3>1. /\ g.ip \in Ip /\ g.at \in Nat /\ g.before \in Nat
              /\ g.before <= spent[g.ip] /\ g.at <= now
              /\ spent[g.ip] - g.before + Level(g.ip) <= kIpBucketBurst + (now - g.at)
            BY <2>2 DEF Inv, GrantsRecorded, BurstsBounded
        <3>2. \/ spent'[g.ip] = spent[g.ip] /\ Level(g.ip)' = Level(g.ip)
              \/ spent'[g.ip] = spent[g.ip] + Cost /\ Level(g.ip)' = Level(g.ip) - Cost
            BY <1>1, <2>2, <3>1 DEF Outcome, Record, LevelsAfter
        <3>3. Level(g.ip) \in 0..kIpBucketBurst /\ spent[g.ip] \in Nat
            BY <1>1, <2>1, <3>1
        <3> QED
            BY <2>1, <3>1, <3>2, <3>3, BucketAssumption
    <2>3. CASE Level(ip) >= Cost /\ g = [ip |-> ip, at |-> now, before |-> spent[ip]]
        <3>1. g.ip = ip /\ g.at = now /\ g.before = spent[ip]
            BY <2>3
        <3>2. spent'[ip] = spent[ip] + Cost /\ Level(ip)' = Level(ip) - Cost
            BY <1>1, <2>3 DEF Outcome, Record, LevelsAfter
        <3>3. Level(ip) \in 0..kIpBucketBurst /\ spent[ip] \in Nat
            BY <1>1, <2>1
        <3> QED
            BY <2>1, <3>1, <3>2, <3>3, BucketAssumption
    <2> QED
        BY <2>2, <2>3 DEF Outcome, Record
<1> QED
    BY <1>3, <1>4, <1>5 DEF Inv, Outcome, GrantsRecorded, BurstsBounded

(* Every full bucket at the start, and a tick that only fills.              *)
LEMMA TickKeepsInv ==
    ASSUME Inv, Tick
    PROVE  /\ Inv'
           /\ \A i \in Ip : Level(i)' = IF Level(i) < kIpBucketBurst THEN Level(i) + 1
                                        ELSE kIpBucketBurst
PROOF
<1>1. /\ now \in Nat /\ now' = now + 1 /\ ip_token_buckets' = ip_token_buckets
      /\ ip_bucket_lru' = ip_bucket_lru /\ others' = others /\ spent' = spent
      /\ granted' = granted
    BY DEF Tick, Inv
<1>2. Consistent(ip_token_buckets, ip_bucket_lru, others, now)'
    <2>1. ASSUME NEW ip \in DOMAIN ip_token_buckets
          PROVE  ip_token_buckets[ip].last_seen <= now + 1
        BY <1>1 DEF Inv, Consistent, IpTokenBucketEntry
    <2> QED
        BY <1>1, <2>1 DEF Inv, Consistent
<1>3. ASSUME NEW i \in Ip
      PROVE  /\ Level(i) \in 0..kIpBucketBurst
             /\ Level(i)' = IF Level(i) < kIpBucketBurst THEN Level(i) + 1 ELSE kIpBucketBurst
    <2>1. Level(i) = LevelIn(ip_token_buckets, i, now) /\ Level(i) \in 0..kIpBucketBurst
        BY LevelIs DEF Inv
    <2>2. Level(i)' = LevelIn(ip_token_buckets, i, now + 1)
        <3>1. MapKept'
            BY <1>1, <1>2 DEF MapKept
        <3>2. Level(i)' = LevelIn(ip_token_buckets', i, now')
            BY <3>1, LevelsAfterStep DEF LevelsKnown
        <3> QED
            BY <1>1, <3>2
    <2>3. CASE i \in DOMAIN ip_token_buckets
        <3>1. ip_token_buckets[i] \in IpTokenBucketEntry
              /\ ip_token_buckets[i].last_refill <= now
            BY <2>3 DEF Inv, Consistent
        <3> QED
            BY <1>1, <2>1, <2>2, <2>3, <3>1, BucketAssumption
            DEF LevelIn, Capped, IpTokenBucketEntry
    <2>4. CASE i \notin DOMAIN ip_token_buckets
        BY <2>1, <2>2, <2>4, BucketAssumption DEF LevelIn
    <2> QED
        BY <2>1, <2>3, <2>4
<1>4. GrantsRecorded'
    BY <1>1 DEF Inv, GrantsRecorded
<1>5. BurstsBounded'
    <2> SUFFICES ASSUME NEW g \in granted'
                 PROVE  spent'[g.ip] - g.before + Level(g.ip)' <= kIpBucketBurst + (now' - g.at)
        BY DEF BurstsBounded
    <2>1. /\ spent'[g.ip] = spent[g.ip]
          /\ g.ip \in Ip /\ g.at \in Nat /\ g.before \in Nat /\ spent[g.ip] \in Nat
          /\ spent[g.ip] - g.before + Level(g.ip) <= kIpBucketBurst + (now - g.at)
        BY <1>1 DEF Inv, GrantsRecorded, BurstsBounded
    <2>2. /\ Level(g.ip) \in 0..kIpBucketBurst
          /\ Level(g.ip)' = IF Level(g.ip) < kIpBucketBurst THEN Level(g.ip) + 1
                            ELSE kIpBucketBurst
        BY <1>3, <2>1
    <2> QED
        BY <1>1, <2>1, <2>2, BucketAssumption
<1> QED
    BY <1>1, <1>2, <1>3, <1>4, <1>5 DEF Inv

LEMMA InitInv == Init => Inv
PROOF
<1> SUFFICES ASSUME Init PROVE Inv
    OBVIOUS
<1>1. DOMAIN ip_token_buckets = {} /\ Len(ip_bucket_lru) = 0 /\ ip_bucket_lru \in Seq(Ip)
    BY DEF Init
<1>2. Cardinality(DOMAIN ip_token_buckets) <= kIpBucketMaxEntries
    BY <1>1, FS_EmptySet, BucketAssumption
<1>3. Consistent(ip_token_buckets, ip_bucket_lru, others, now)
    <2>1. ip_token_buckets \in [{} -> IpTokenBucketEntry]
        BY DEF Init
    <2> QED
        BY <1>1, <1>2, <2>1 DEF Init, Consistent
<1> QED
    BY <1>3 DEF Init, Inv, GrantsRecorded, BurstsBounded

LEMMA NextInv == Inv /\ [Next]_vars => Inv'
PROOF
<1> SUFFICES ASSUME Inv, [Next]_vars PROVE Inv'
    OBVIOUS
<1>1. CASE Tick
    BY <1>1, TickKeepsInv
<1>2. ASSUME NEW ip \in Ip, AcceptFromKnownIp(ip) PROVE Inv'
    BY <1>2, KnownOutcome, OutcomeKeepsInv DEF Inv
<1>3. ASSUME NEW ip \in Ip, AcceptFromNewIp(ip) PROVE Inv'
    BY <1>3, NewOutcome, OutcomeKeepsInv DEF Inv
<1>4. CASE UNCHANGED vars
    <2>1. \A i \in Ip : Level(i)' = Level(i)
        BY <1>4 DEF vars, Level, RefillIpBucket
    <2>2. \A g \in granted : g.ip \in Ip
        BY DEF Inv, GrantsRecorded
    <2> QED
        BY <1>4, <2>1, <2>2 DEF vars, Inv, Consistent, GrantsRecorded, BurstsBounded
<1> QED
    BY <1>1, <1>2, <1>3, <1>4 DEF Next

LEMMA Invariance == Spec => []Inv
PROOF
BY InitInv, NextInv, PTL DEF Spec

(* The map, the list and the times in the buckets have their types: tokens  *)
(* stay within a burst however long a bucket was unused.                    *)
THEOREM TypeCorrect == Spec => []TypeOK
PROOF
<1>1. Inv => TypeOK
    BY DEF Inv, Consistent, GrantsRecorded, TypeOK
<1> QED
    BY <1>1, Invariance, PTL

(* Map and list agree, within the capacity and in the order of last use.    *)
THEOREM LruIsExact == Spec => []LruExact
PROOF
<1>1. Inv => LruExact
    <2> SUFFICES ASSUME Inv PROVE LruExact
        OBVIOUS
    <2>1. DOMAIN ip_bucket_lru = 1..Len(ip_bucket_lru)
        BY DEF Inv, Consistent
    <2>2. IsInjective(ip_bucket_lru)
        BY <2>1 DEF Inv, Consistent, IsInjective
    <2>3. Range(ip_bucket_lru) = DOMAIN ip_token_buckets
        <3>1. ASSUME NEW x \in DOMAIN ip_token_buckets PROVE x \in Range(ip_bucket_lru)
            <4>1. PICK i \in 1..Len(ip_bucket_lru) : ip_bucket_lru[i] = x
                BY DEF Inv, Consistent
            <4> QED
                BY <2>1, <4>1 DEF Range
        <3>2. ASSUME NEW x \in Range(ip_bucket_lru) PROVE x \in DOMAIN ip_token_buckets
            <4>1. PICK i \in 1..Len(ip_bucket_lru) : ip_bucket_lru[i] = x
                BY <2>1 DEF Range
            <4> QED
                BY <4>1 DEF Inv, Consistent
        <3> QED
            BY <3>1, <3>2
    <2> QED
        BY <2>2, <2>3 DEF Inv, Consistent, LruExact
<1> QED
    BY <1>1, Invariance, PTL

(* No source is given more than a burst and the refill over any stretch of  *)
(* time, but after its bucket was evicted at capacity.                      *)
THEOREM BurstsAreBounded == Spec => []BurstsBounded
PROOF
<1>1. Inv => BurstsBounded
    BY DEF Inv
<1> QED
    BY <1>1, Invariance, PTL

(* The limiter implements TokenBucket: every accepted socket gets the       *)
(* verdict of a bucket that nobody drops and that fills as time goes by,    *)
(* unless kIpBucketMaxEntries others came since its source was last seen.   *)
THEOREM Implements == Spec => LimitsEachSource
PROOF
<1>1. Init => Ideal!Init
    <2> SUFFICES ASSUME Init PROVE Ideal!Init
        OBVIOUS
    <2>1. \A ip \in Ip : Level(ip) = kIpBucketBurst
        BY DEF Init, Level
    <2> QED
        BY <2>1 DEF Init, Ideal!Init
<1>2. Inv /\ Inv' /\ [Next]_vars
        => [Ideal!Next]_<<[ip \in Ip |-> Level(ip)], others, spent>>
    <2> SUFFICES ASSUME Inv, Inv', [Next]_vars
                 PROVE  [Ideal!Next]_<<[ip \in Ip |-> Level(ip)], others, spent>>
        OBVIOUS
    <2>1. CASE Tick
        <3>1. Ideal!Tick
            BY <2>1, TickKeepsInv DEF Ideal!Tick, Tick
        <3> QED
            BY <3>1 DEF Ideal!Next
    <2>2. ASSUME NEW ip \in Ip, NEW forgotten \in SUBSET MayForget(ip),
                 Outcome(ip, forgotten)
          PROVE  Ideal!Next
        <3>1. ASSUME NEW i \in Ip
              PROVE  Level(i)' = LevelsAfter(ip, forgotten)[i]
            <4>1. MapKept'
                BY DEF Inv, MapKept
            <4>2. Level(i)' = LevelIn(ip_token_buckets', i, now')
                BY <4>1, LevelsAfterStep DEF LevelsKnown
            <4> QED
                BY <4>2, <2>2 DEF Outcome
        <3>2. forgotten \in SUBSET Ideal!MayForget(ip)
            BY DEF MayForget, Ideal!MayForget, Inv, Consistent
        <3>3. others' = Ideal!Seen(ip)
            BY <2>2 DEF Outcome, Record, Ideal!Seen
        <3>4. Ideal!Attempt(ip)
            <4>1. \A i \in Ip : Level(i)' =
                     IF i = ip /\ Level(ip) >= Cost THEN Level(ip) - Cost
                     ELSE IF i \in forgotten THEN kIpBucketBurst ELSE Level(i)
                BY <3>1 DEF LevelsAfter
            <4>2. spent' = [i \in Ip |->
                     IF i = ip /\ Level(ip) >= Cost THEN spent[ip] + Cost
                     ELSE IF i \in forgotten THEN 0 ELSE spent[i]]
                BY <2>2 DEF Outcome, Record
            <4> QED
                BY <3>2, <3>3, <4>1, <4>2 DEF Ideal!Attempt
        <3> QED
            BY <3>4 DEF Ideal!Next
    <2>3. ASSUME NEW ip \in Ip, AcceptFromKnownIp(ip) PROVE Ideal!Next
        BY <2>2, <2>3, KnownOutcome DEF Inv
    <2>4. ASSUME NEW ip \in Ip, AcceptFromNewIp(ip) PROVE Ideal!Next
        BY <2>2, <2>4, NewOutcome DEF Inv
    <2>5. CASE UNCHANGED vars
        <3>1. \A i \in Ip : Level(i)' = Level(i)
            BY <2>5 DEF vars, Level, RefillIpBucket
        <3> QED
            BY <2>5, <3>1 DEF vars
    <2> QED
        BY <2>1, <2>3, <2>4, <2>5 DEF Next
<1> QED
    BY <1>1, <1>2, Invariance, PTL DEF Spec, Ideal!Spec, LimitsEachSource
=============================================================================
