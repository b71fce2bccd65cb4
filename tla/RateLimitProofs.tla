--------------------------- MODULE RateLimitProofs ---------------------------
(***************************************************************************)
(* The table of buckets is bounded, the rate holds for every address, only *)
(* a crowd costs a bucket, and patience is enough, for any sizes.          *)
(***************************************************************************)
EXTENDS RateLimit, FiniteSetTheorems, TLAPS

-----------------------------------------------------------------------------
(* The key.                                                                  *)

\* Whatever stands before it, the entry our proxy appended is the key: the
\* client cannot choose its bucket (client_key_with).
LEMMA KeyIsTheAddress ==
  ASSUME NEW a \in Addresses, NEW forged \in Forged
  PROVE  KeyOf(a, forged) = a
<1> DEFINE list == Append(forged, a)
<1>1. forged \in Seq(Addresses \cup {Blank})
  BY AddressesAssumption
<1>2. list # <<>> /\ list[Len(list)] = a
  BY <1>1
<1>3. a # Blank
  BY AddressesAssumption
<1>4. client_key_with(Proxy, list, TRUE) = a
  BY <1>2, <1>3 DEF client_key_with
<1>5. client_key_with(a, forged, FALSE) = a
  BY DEF client_key_with
<1> QED
  BY <1>4, <1>5 DEF KeyOf

\* A step is a tick, or a request under its own address, for some evicted keys.
LEMMA Steps ==
  ASSUME Next
  PROVE  \/ Tick
         \/ \E a \in Addresses, gone \in SUBSET Fresh :
              Evicted(gone) /\ Take(a, a, gone) /\ forgiven' = gone /\ UNCHANGED now
<1>1. CASE Tick
  BY <1>1
<1>2. CASE \E a \in Addresses : Request(a)
  <2>1. PICK a \in Addresses, forged \in Forged : allow_for(a, KeyOf(a, forged))
    BY <1>2 DEF Request
  <2>2. allow_for(a, a)
    BY <2>1, KeyIsTheAddress
  <2> QED
    BY <2>2 DEF allow_for
<1> QED
  BY <1>1, <1>2 DEF Next

-----------------------------------------------------------------------------
(* Types.                                                                    *)

LEMMA TypeInit == Init => TypeOK
  BY SizesAssumption DEF Init, TypeOK

\* A bucket that was filled holds at most CAP, and paying leaves it a natural.
LEMMA FilledBounded ==
  ASSUME TypeOK, NEW k \in Keys
  PROVE  /\ Filled(k) \in 0..CAP
         /\ Filled(k) <= tokens[k] + (now - last[k]) * RATE
<1> DEFINE gain == (now - last[k]) * RATE
<1>1. now - last[k] \in Nat /\ tokens[k] \in 0..CAP
  BY DEF TypeOK
<1>2. gain \in Nat
  BY <1>1, SizesAssumption
<1> HIDE DEF gain
<1>3. Filled(k) = IF tokens[k] + gain < CAP THEN tokens[k] + gain ELSE CAP
  BY DEF Filled, gain
<1>4. Filled(k) \in 0..CAP /\ Filled(k) <= tokens[k] + gain
  BY <1>1, <1>2, <1>3, SizesAssumption
<1> QED
  BY <1>4 DEF gain

LEMMA PaidBounded ==
  ASSUME NEW level \in 0..CAP
  PROVE  Paid(level) \in 0..CAP
  BY SizesAssumption DEF Paid

LEMMA LevelBounded ==
  ASSUME TypeOK, NEW k \in Keys, NEW gone
  PROVE  Level(k, gone) \in 0..CAP
  BY FilledBounded, SizesAssumption DEF Level

LEMMA TypeStep == TypeOK /\ [Next]_vars => TypeOK'
<1> SUFFICES ASSUME TypeOK, [Next]_vars
             PROVE  TypeOK'
  OBVIOUS
<1>1. CASE Tick
  <2>1. now' \in Nat /\ now' = now + 1
    BY <1>1 DEF Tick, TypeOK
  <2>2. 0..now \subseteq 0..now'
    BY <2>1 DEF TypeOK
  <2>3. last' \in [Keys -> 0..now'] /\ since' \in [Watched -> 0..now']
    BY <1>1, <2>2 DEF Tick, buckets, TypeOK
  <2> QED
    BY <1>1, <2>1, <2>3 DEF Tick, buckets, TypeOK
<1>2. CASE \E a \in Addresses, gone \in SUBSET Fresh :
             Evicted(gone) /\ Take(a, a, gone) /\ forgiven' = gone /\ UNCHANGED now
  <2>1. PICK a \in Addresses, gone \in SUBSET Fresh :
          Take(a, a, gone) /\ forgiven' = gone /\ UNCHANGED now
    BY <1>2
  <2>2. a \in Keys /\ Fresh \subseteq known /\ known \subseteq Keys
    BY DEF Keys, Fresh, TypeOK
  <2>3. Paid(Level(a, gone)) \in 0..CAP
    BY <2>2, LevelBounded, PaidBounded
  <2>4. known' \in SUBSET Keys
    BY <2>1, <2>2 DEF Take, Kept
  <2>5. tokens' \in [Keys -> 0..CAP]
    BY <2>1, <2>2, <2>3, SizesAssumption DEF Take, TypeOK
  <2>6. last' \in [Keys -> 0..now'] /\ since' \in [Watched -> 0..now']
    BY <2>1, <2>2 DEF Take, TypeOK
  <2>7. granted' \in [Watched -> Nat]
    BY <2>1 DEF Take, TypeOK
  <2>8. forgiven' \in SUBSET Keys /\ refused' \in SUBSET Keys /\ now' \in Nat
    BY <2>1, <2>2 DEF Take, TypeOK
  <2> QED
    BY <2>4, <2>5, <2>6, <2>7, <2>8 DEF TypeOK
<1>3. CASE UNCHANGED vars
  BY <1>3 DEF vars, buckets, history, TypeOK
<1> QED
  BY <1>1, <1>2, <1>3, Steps

\* Every variable keeps its type; the tokens of a bucket stay between none
\* and CAP and no bucket is dated after now.
THEOREM RateTypeCorrect == Spec => []TypeOK
  BY TypeInit, TypeStep, PTL DEF Spec

-----------------------------------------------------------------------------
(* The table.                                                                *)

LEMMA KeysFinite ==
  ASSUME NEW S \in SUBSET Keys
  PROVE  IsFiniteSet(S) /\ Cardinality(S) \in Nat
<1>1. IsFiniteSet({Proxy})
  BY FS_Singleton
<1>2. IsFiniteSet(Keys)
  BY <1>1, FS_Union, AddressesAssumption DEF Keys
<1>3. IsFiniteSet(S)
  BY <1>2, FS_Subset
<1> QED
  BY <1>3, FS_CardinalityType

LEMMA QuarterPositive == Quarter \in Nat /\ Quarter >= 1
  BY SizesAssumption DEF Quarter

\* The clean-up leaves room for one bucket more.
LEMMA RoomForOne ==
  ASSUME TypeOK, TableBounded, NEW gone \in SUBSET Fresh, Evicted(gone)
  PROVE  Cardinality(Kept(gone)) + 1 <= MAX_KEYS
<1>0. Fresh \subseteq known /\ known \subseteq Keys
  BY DEF Fresh, TypeOK
<1>1. /\ Cardinality(known) \in Nat /\ Cardinality(Fresh) \in Nat
      /\ IsFiniteSet(known) /\ IsFiniteSet(Fresh) /\ IsFiniteSet(gone)
  BY <1>0, KeysFinite
<1>2. Cardinality(Fresh) <= Cardinality(known)
  BY <1>0, <1>1, FS_Subset
<1>3. CASE ~Full
  BY <1>1, <1>3, SizesAssumption DEF Full, Kept
<1>4. CASE Full /\ ~Crowded
  <2>1. gone = {} /\ Kept(gone) = Fresh
    BY <1>4 DEF Evicted, Kept
  <2> QED
    BY <1>1, <1>4, <2>1, SizesAssumption DEF Crowded
<1>5. CASE Crowded
  <2>1. Cardinality(gone) = Quarter /\ Kept(gone) = Fresh \ gone
    BY <1>5 DEF Evicted, OldestQuarter, Kept, Crowded
  <2>2. Fresh \cap gone = gone
    OBVIOUS
  <2>3. Cardinality(Fresh \ gone) = Cardinality(Fresh) - Cardinality(gone)
    BY <1>1, <2>2, FS_Difference
  <2> QED
    BY <1>1, <1>2, <2>1, <2>3, QuarterPositive, SizesAssumption DEF TableBounded
<1> QED
  BY <1>3, <1>4, <1>5 DEF Crowded

LEMMA TableStep == TypeOK /\ TableBounded /\ [Next]_vars => TableBounded'
<1> SUFFICES ASSUME TypeOK, TableBounded, [Next]_vars
             PROVE  TableBounded'
  OBVIOUS
<1>1. CASE Tick
  BY <1>1 DEF Tick, buckets, TableBounded
<1>2. CASE \E a \in Addresses, gone \in SUBSET Fresh :
             Evicted(gone) /\ Take(a, a, gone) /\ forgiven' = gone /\ UNCHANGED now
  <2>1. PICK a \in Addresses, gone \in SUBSET Fresh : Evicted(gone) /\ Take(a, a, gone)
    BY <1>2
  <2>2. known' = Kept(gone) \cup {a}
    BY <2>1 DEF Take
  <2>3. Kept(gone) \subseteq Keys
    BY DEF Kept, Fresh, TypeOK
  <2>4. IsFiniteSet(Kept(gone)) /\ Cardinality(Kept(gone)) \in Nat
    BY <2>3, KeysFinite
  <2>5. Cardinality(known') <= Cardinality(Kept(gone)) + 1
    BY <2>2, <2>4, FS_AddElement
  <2>6. Cardinality(known') \in Nat
    <3>1. known' \subseteq Keys
      BY <2>2, <2>3 DEF Keys
    <3> QED
      BY <3>1, KeysFinite
  <2> QED
    BY <2>1, <2>4, <2>5, <2>6, RoomForOne, SizesAssumption DEF TableBounded
<1>3. CASE UNCHANGED vars
  BY <1>3 DEF vars, buckets, TableBounded
<1> QED
  BY <1>1, <1>2, <1>3, Steps

\* However many addresses send requests, the table stays within MAX_KEYS.
THEOREM TableAlwaysBounded == Spec => []TableBounded
<1>1. Init => TableBounded
  BY FS_EmptySet, SizesAssumption DEF Init, TableBounded
<1> QED
  BY <1>1, TableStep, RateTypeCorrect, PTL DEF Spec

-----------------------------------------------------------------------------
(* The rate.                                                                 *)

\* What an address was granted and its bucket still holds is what a full
\* bucket and the clock have given it; an address without a bucket could be
\* given a full one without exceeding that.
Ledger ==
  \A a \in Watched :
    IF a \in known
    THEN tokens[a] + granted[a] * COST <= CAP + RATE * (last[a] - since[a])
    ELSE granted[a] * COST <= RATE * (now - since[a])

LEMMA WatchedTypes ==
  ASSUME TypeOK, NEW a \in Watched
  PROVE  /\ a \in Keys /\ a \in Addresses
         /\ tokens[a] \in 0..CAP /\ last[a] \in 0..now /\ since[a] \in 0..now
         /\ granted[a] \in Nat /\ now \in Nat
  BY AddressesAssumption DEF TypeOK, Keys

LEMMA Distributes ==
  ASSUME NEW x \in Int, NEW y \in Int
  PROVE  RATE * (x + y) = RATE * x + RATE * y
  BY SizesAssumption

LEMMA Monotone ==
  ASSUME NEW x \in Int, NEW y \in Int, x <= y
  PROVE  RATE * x <= RATE * y
  BY SizesAssumption

\* An address that has no bucket after the clean-up, and was not crowded out,
\* may be given a full one: a bucket that was dropped as idle was full again.
LEMMA DroppedIsPaid ==
  ASSUME TypeOK, Ledger, NEW gone \in SUBSET Fresh, Evicted(gone),
         NEW a \in Watched, a \notin gone, a \notin Kept(gone)
  PROVE  granted[a] * COST <= RATE * (now - since[a])
<1>1. CASE a \notin known
  BY <1>1 DEF Ledger
<1>2. CASE a \in known
  <2> DEFINE g == granted[a] * COST
             x == now - last[a]
             y == last[a] - since[a]
  <2>1. now - last[a] >= IDLE_SECS
    BY <1>2 DEF Kept, Fresh, Idle
  <2>2. x \in Int /\ y \in Int /\ x >= IDLE_SECS /\ now - since[a] = x + y
    BY <2>1, WatchedTypes
  <2>3. RATE * x >= CAP
    <3>1. RATE * IDLE_SECS <= RATE * x
      BY <2>2, Monotone, SizesAssumption
    <3> QED
      BY <3>1, <2>2, IdleRefills, SizesAssumption
  <2>4. tokens[a] + g <= CAP + RATE * y
    BY <1>2 DEF Ledger
  <2>5. RATE * (now - since[a]) = RATE * x + RATE * y
    BY <2>2, Distributes
  <2>6. g \in Int /\ tokens[a] \in Nat /\ RATE * x \in Int /\ RATE * y \in Int
    BY <2>2, WatchedTypes, SizesAssumption
  <2> HIDE DEF g, x, y
  <2>7. g <= RATE * x + RATE * y
    BY <2>3, <2>4, <2>6, SizesAssumption
  <2>8. granted[a] * COST <= RATE * (x + y)
    BY <2>5, <2>7, <2>2 DEF g
  <2> QED
    BY <2>8, <2>2
<1> QED
  BY <1>1, <1>2

\* The keys that were crowded out keep no bucket.
LEMMA GoneNotKept ==
  ASSUME NEW gone \in SUBSET Fresh, Evicted(gone)
  PROVE  gone \cap Kept(gone) = {}
  BY DEF Evicted, Kept, Crowded

\* What the caller finds in its bucket is covered by the ledger.
LEMMA LevelCovered ==
  ASSUME TypeOK, Ledger, NEW gone \in SUBSET Fresh, Evicted(gone),
         NEW a \in Watched, a \notin gone
  PROVE  Level(a, gone) + granted[a] * COST <= CAP + RATE * (now - since[a])
<1> DEFINE g == granted[a] * COST
           x == now - last[a]
           y == last[a] - since[a]
           z == now - since[a]
<1>1. x \in Int /\ y \in Int /\ z \in Int /\ z = x + y /\ g \in Int /\ tokens[a] \in Nat
  BY WatchedTypes, SizesAssumption
<1>0. RATE * (x + y) = RATE * x + RATE * y
  <2> HIDE DEF x, y
  <2> QED
    BY <1>1, Distributes
<1>2. RATE * z = RATE * x + RATE * y /\ RATE * x \in Int /\ RATE * y \in Int /\ RATE * z \in Int
  <2> HIDE DEF x, y, z
  <2> QED
    BY <1>0, <1>1, SizesAssumption
<1>3. CASE a \in Kept(gone)
  <2>1. a \in known
    BY <1>3 DEF Kept, Fresh
  <2>2. tokens[a] + g <= CAP + RATE * y
    BY <2>1 DEF Ledger
  <2>3. Level(a, gone) = Filled(a) /\ Filled(a) \in 0..CAP /\ Filled(a) <= tokens[a] + x * RATE
    BY <1>3, WatchedTypes, FilledBounded DEF Level
  <2>4. x * RATE = RATE * x
    BY <1>1, SizesAssumption
  <2> HIDE DEF g, x, y, z
  <2>5. Filled(a) + g <= CAP + RATE * z
    BY <1>1, <1>2, <2>2, <2>3, <2>4, SizesAssumption
  <2> QED
    BY <2>3, <2>5 DEF g, z
<1>4. CASE a \notin Kept(gone)
  <2>1. g <= RATE * z /\ Level(a, gone) = CAP
    BY <1>4, DroppedIsPaid DEF Level
  <2> HIDE DEF g, x, y, z
  <2>2. CAP + g <= CAP + RATE * z
    BY <1>1, <1>2, <2>1, SizesAssumption
  <2> QED
    BY <2>1, <2>2 DEF g, z
<1> QED
  BY <1>3, <1>4

\* What a request pays is what it is granted.
LEMMA PaidIsGranted ==
  ASSUME NEW level \in 0..CAP, NEW n \in Nat, NEW bound \in Int,
         level + n * COST <= bound
  PROVE  Paid(level) + (n + (IF level >= COST THEN 1 ELSE 0)) * COST <= bound
<1>1. (n + 1) * COST = n * COST + COST /\ n * COST \in Nat /\ (n + 0) * COST = n * COST
  BY SizesAssumption
<1> QED
  BY <1>1, SizesAssumption DEF Paid

LEMMA LedgerTick ==
  ASSUME TypeOK, Ledger, Tick
  PROVE  Ledger'
<1> SUFFICES ASSUME NEW a \in Watched
             PROVE  IF a \in known'
                    THEN tokens'[a] + granted'[a] * COST <= CAP + RATE * (last'[a] - since'[a])
                    ELSE granted'[a] * COST <= RATE * (now' - since'[a])
  BY DEF Ledger
<1>0. /\ known' = known /\ tokens' = tokens /\ last' = last /\ now' = now + 1
      /\ granted' = granted /\ since' = since
  BY DEF Tick, buckets
<1>1. CASE a \in known
  BY <1>0, <1>1 DEF Ledger
<1>2. CASE a \notin known
  <2> DEFINE g == granted[a] * COST
             before == RATE * (now - since[a])
             after == RATE * (now' - since'[a])
  <2>1. a \notin known' /\ granted'[a] = granted[a] /\ since'[a] = since[a] /\ now' \in Nat
    BY <1>0, <1>2, WatchedTypes
  <2>2. before <= after
    BY <1>0, <2>1, WatchedTypes, Monotone
  <2>3. g <= before
    BY <1>2 DEF Ledger
  <2>4. g \in Int /\ before \in Int /\ after \in Int
    BY <2>1, WatchedTypes, SizesAssumption
  <2>5. granted'[a] * COST = g
    BY <2>1
  <2> HIDE DEF g, before, after
  <2>6. g <= after
    BY <2>2, <2>3, <2>4
  <2> QED
    BY <2>1, <2>5, <2>6 DEF after
<1> QED
  BY <1>1, <1>2

LEMMA LedgerTake ==
  ASSUME TypeOK, Ledger, NEW a \in Addresses, NEW gone \in SUBSET Fresh, Evicted(gone),
         Take(a, a, gone), UNCHANGED now
  PROVE  Ledger'
<1> SUFFICES ASSUME NEW b \in Watched
             PROVE  IF b \in known'
                    THEN tokens'[b] + granted'[b] * COST <= CAP + RATE * (last'[b] - since'[b])
                    ELSE granted'[b] * COST <= RATE * (now - since'[b])
  BY DEF Ledger
<1>1. b \in Keys
  BY WatchedTypes
<1>2. known' = Kept(gone) \cup {a} /\ gone \cap Kept(gone) = {} /\ Kept(gone) \subseteq known
  BY GoneNotKept DEF Take, Kept, Fresh
<1>3. CASE b = a
  <2> DEFINE level == Level(a, gone)
             n == IF a \in gone THEN 0 ELSE granted[a]
             s == IF a \in gone THEN now ELSE since[a]
  <2>1. level \in 0..CAP
    BY <1>1, <1>3, LevelBounded
  <2>2. n \in Nat /\ s \in 0..now /\ now \in Nat /\ RATE * (now - s) \in Int
    BY <1>3, WatchedTypes, SizesAssumption
  <2>3. level + n * COST <= CAP + RATE * (now - s)
    <3>1. CASE a \in gone
      <4>1. level = CAP /\ n * COST = 0 /\ RATE * (now - s) = 0
        BY <1>2, <3>1, <2>2, SizesAssumption DEF Level
      <4> QED
        BY <4>1, SizesAssumption
    <3>2. CASE a \notin gone
      BY <1>3, <3>2, LevelCovered
    <3> QED
      BY <3>1, <3>2
  <2>4. /\ tokens'[b] = Paid(level) /\ last'[b] = now /\ since'[b] = s /\ b \in known'
        /\ granted'[b] = n + (IF level >= COST THEN 1 ELSE 0)
    BY <1>1, <1>2, <1>3 DEF Take
  <2> HIDE DEF level, n, s
  <2>5. CAP + RATE * (now - s) \in Int
    BY <2>2, SizesAssumption
  <2>6. Paid(level) + (n + (IF level >= COST THEN 1 ELSE 0)) * COST <= CAP + RATE * (now - s)
    BY <2>1, <2>2, <2>3, <2>5, PaidIsGranted
  <2> QED
    BY <2>4, <2>6
<1>4. CASE b # a
  <2>1. granted'[b] = IF b \in gone THEN 0 ELSE granted[b]
    BY <1>4, WatchedTypes DEF Take
  <2>2. since'[b] = IF b \in gone THEN now ELSE since[b]
    BY DEF Take
  <2>3. CASE b \in gone
    <3>1. b \notin known' /\ granted'[b] = 0 /\ since'[b] = now
      BY <1>2, <1>4, <2>1, <2>2, <2>3
    <3>2. 0 * COST = 0 /\ RATE * (now - now) = 0
      BY WatchedTypes, SizesAssumption
    <3> QED
      BY <3>1, <3>2
  <2>4. CASE b \notin gone /\ b \in Kept(gone)
    <3>1. tokens'[b] = tokens[b] /\ last'[b] = last[b] /\ b \in known /\ b \in known'
      BY <1>1, <1>2, <1>4, <2>4 DEF Take
    <3> QED
      BY <2>1, <2>2, <2>4, <3>1 DEF Ledger
  <2>5. CASE b \notin gone /\ b \notin Kept(gone)
    <3>1. granted[b] * COST <= RATE * (now - since[b])
      BY <2>5, DroppedIsPaid
    <3> QED
      BY <1>2, <1>4, <2>1, <2>2, <2>5, <3>1
  <2> QED
    BY <2>3, <2>4, <2>5
<1> QED
  BY <1>3, <1>4

LEMMA LedgerStep == TypeOK /\ Ledger /\ [Next]_vars => Ledger'
<1> SUFFICES ASSUME TypeOK, Ledger, [Next]_vars
             PROVE  Ledger'
  OBVIOUS
<1>1. CASE Tick
  BY <1>1, LedgerTick
<1>2. CASE \E a \in Addresses, gone \in SUBSET Fresh :
             Evicted(gone) /\ Take(a, a, gone) /\ forgiven' = gone /\ UNCHANGED now
  BY <1>2, LedgerTake
<1>3. CASE UNCHANGED vars
  BY <1>3 DEF vars, buckets, history, Ledger
<1> QED
  BY <1>1, <1>2, <1>3, Steps

\* No address is granted more than a full bucket and what the clock has added
\* since it was last crowded out, whatever it claims to be in its headers.
THEOREM RateAlwaysHolds == Spec => []RateHolds
<1>1. Init => Ledger
  <2> SUFFICES ASSUME Init, NEW a \in Watched
               PROVE  a \notin known /\ granted[a] * COST <= RATE * (now - since[a])
    BY DEF Ledger
  <2>1. a \notin known /\ granted[a] = 0 /\ since[a] = 0 /\ now = 0
    BY DEF Init
  <2> QED
    BY <2>1, SizesAssumption
<1>2. TypeOK /\ Ledger => RateHolds
  <2> SUFFICES ASSUME TypeOK, Ledger, NEW a \in Watched
               PROVE  granted[a] * COST <= CAP + RATE * (now - since[a])
    BY DEF RateHolds
  <2>1. granted[a] * COST \in Int /\ RATE * (now - since[a]) \in Int /\ RATE * (last[a] - since[a]) \in Int
    BY WatchedTypes, SizesAssumption
  <2>2. RATE * (last[a] - since[a]) <= RATE * (now - since[a])
    BY WatchedTypes, Monotone
  <2> QED
    BY <2>1, <2>2, WatchedTypes, SizesAssumption DEF Ledger
<1> QED
  BY <1>1, <1>2, LedgerStep, RateTypeCorrect, PTL DEF Spec

-----------------------------------------------------------------------------
(* Who loses a bucket, and who is refused.                                   *)

\* The others that were used as late as k or later.
Crowd(k) == {j \in known \ {k} : last[j] >= last[k]}

\* Three quarters of a full table are such others of a key that had to go.
LEMMA ForgivenByACrowd ==
  ASSUME TypeOK, NEW gone \in SUBSET Fresh, Evicted(gone), NEW k \in gone
  PROVE  Cardinality(Crowd(k)) >= MAX_KEYS - Quarter
<1>0. Fresh \subseteq known /\ known \subseteq Keys
  BY DEF Fresh, TypeOK
<1>1. Crowded
  BY DEF Evicted
<1>2. Cardinality(gone) = Quarter /\ \A j \in Fresh \ gone : last[k] <= last[j]
  BY <1>1 DEF Evicted, OldestQuarter
<1>3. Fresh \ gone \subseteq Crowd(k)
  BY <1>0, <1>2 DEF Crowd, TypeOK
<1>4. /\ IsFiniteSet(Fresh) /\ Cardinality(Fresh) \in Nat
      /\ IsFiniteSet(Crowd(k)) /\ Cardinality(Crowd(k)) \in Nat
      /\ Cardinality(Fresh \ gone) \in Nat
  <2>1. Crowd(k) \subseteq Keys
    BY <1>0 DEF Crowd
  <2>2. Fresh \subseteq Keys /\ Fresh \ gone \subseteq Keys
    BY <1>0
  <2> QED
    BY <2>1, <2>2, KeysFinite
<1>5. Cardinality(Fresh \ gone) <= Cardinality(Crowd(k))
  BY <1>3, <1>4, FS_Subset
<1>6. Cardinality(Fresh \ gone) = Cardinality(Fresh) - Quarter
  <2>1. Fresh \cap gone = gone
    OBVIOUS
  <2> QED
    BY <1>2, <1>4, <2>1, FS_Difference
<1>7. Cardinality(Fresh) >= MAX_KEYS
  BY <1>1 DEF Crowded
<1> QED
  BY <1>4, <1>5, <1>6, <1>7, QuarterPositive, SizesAssumption

\* Only a crowd of others used as lately pushes a bucket out of the table.
THEOREM ForgivenOnlyWhenCrowdedOut == Spec => OnlyCrowdedOutForgiven
<1> DEFINE A == \A k \in forgiven' : Cardinality({j \in known \ {k} : last[j] >= last[k]}) >= MAX_KEYS - Quarter
<1>1. TypeOK /\ [Next]_vars => [A]_vars
  <2> SUFFICES ASSUME TypeOK, Next, NEW k \in forgiven'
               PROVE  Cardinality(Crowd(k)) >= MAX_KEYS - Quarter
    BY DEF Crowd
  <2>1. CASE Tick
    BY <2>1 DEF Tick
  <2>2. CASE \E a \in Addresses, gone \in SUBSET Fresh :
               Evicted(gone) /\ Take(a, a, gone) /\ forgiven' = gone /\ UNCHANGED now
    BY <2>2, ForgivenByACrowd
  <2> QED
    BY <2>1, <2>2, Steps
<1> HIDE DEF A
<1>2. Spec => [][A]_vars
  BY <1>1, RateTypeCorrect, PTL DEF Spec
<1> QED
  BY <1>2, PTL DEF A, OnlyCrowdedOutForgiven

\* A bucket below the price was used less than the time of one token ago.
LEMMA RefusedInHaste ==
  ASSUME TypeOK, NEW a \in Keys, NEW gone \in SUBSET Fresh, Level(a, gone) < COST
  PROVE  CAP < COST \/ (a \in known /\ RATE * (now - last[a]) < COST)
<1>1. CASE a \notin Kept(gone)
  BY <1>1 DEF Level
<1>2. CASE a \in Kept(gone)
  <2> DEFINE gain == (now - last[a]) * RATE
  <2>1. a \in known
    BY <1>2 DEF Kept, Fresh
  <2>2. now - last[a] \in Nat /\ tokens[a] \in 0..CAP
    BY DEF TypeOK
  <2>3. gain \in Nat /\ gain = RATE * (now - last[a])
    BY <2>2, SizesAssumption
  <2> HIDE DEF gain
  <2>4. (IF tokens[a] + gain < CAP THEN tokens[a] + gain ELSE CAP) < COST
    BY <1>2 DEF Level, Filled, gain
  <2>5. CAP < COST \/ gain < COST
    BY <2>2, <2>3, <2>4, SizesAssumption
  <2> QED
    BY <2>1, <2>3, <2>5
<1> QED
  BY <1>1, <1>2

\* Whoever keeps to the configured rate is never refused, whatever others do.
THEOREM PatienceAlwaysEnough == Spec => PatienceIsEnough
<1> DEFINE A == \A k \in refused' : CAP < COST \/ (k \in known /\ RATE * (now - last[k]) < COST)
<1>1. TypeOK /\ [Next]_vars => [A]_vars
  <2> SUFFICES ASSUME TypeOK, Next, NEW k \in refused'
               PROVE  CAP < COST \/ (k \in known /\ RATE * (now - last[k]) < COST)
    OBVIOUS
  <2>1. CASE Tick
    BY <2>1 DEF Tick
  <2>2. CASE \E a \in Addresses, gone \in SUBSET Fresh :
               Evicted(gone) /\ Take(a, a, gone) /\ forgiven' = gone /\ UNCHANGED now
    <3>1. PICK a \in Addresses, gone \in SUBSET Fresh : Take(a, a, gone)
      BY <2>2
    <3>2. k = a /\ ~(Level(a, gone) >= COST)
      BY <3>1 DEF Take
    <3>3. a \in Keys /\ Level(a, gone) \in 0..CAP
      BY LevelBounded DEF Keys
    <3>4. Level(a, gone) < COST
      BY <3>2, <3>3, SizesAssumption
    <3> QED
      BY <3>2, <3>3, <3>4, RefusedInHaste
  <2> QED
    BY <2>1, <2>2, Steps
<1> HIDE DEF A
<1>2. Spec => [][A]_vars
  BY <1>1, RateTypeCorrect, PTL DEF Spec
<1> QED
  BY <1>2 DEF A, PatienceIsEnough
=============================================================================
