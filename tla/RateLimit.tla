------------------------------ MODULE RateLimit ------------------------------
(***************************************************************************)
(* The token bucket of src/ratelimit.rs, as every HTTP request meets it    *)
(* before authentication: `allow_for' under the mutex LIMITER, with the    *)
(* clean-up of a full table, and `client_key_with', which names the        *)
(* bucket.                                                                 *)
(*                                                                         *)
(* Time and tokens are whole numbers: a tick of the clock adds RATE units  *)
(* to a bucket and a request costs COST of them (1.0 in the code, where    *)
(* both are f64).  The key comes from the peer address, or behind a        *)
(* trusted proxy from the list of X-Forwarded-For, whose last entry the    *)
(* proxy wrote and whose other entries the client may have invented.       *)
(***************************************************************************)
EXTENDS Integers, Sequences, FiniteSets

CONSTANTS
  Addresses,    \* the addresses requests really come from
  Proxy,        \* the address of our own proxy
  Blank,        \* an entry of X-Forwarded-For without text
  Watched,      \* the addresses whose granted requests are counted
  Forged,       \* what a client may write into X-Forwarded-For itself
  TrustProxy,   \* MCP_TRUST_PROXY
  MAX_KEYS,     \* the size of the table
  IDLE_SECS,    \* after this many ticks a bucket may be forgotten
  RATE,         \* units a tick adds, rpm / 60
  CAP,          \* units a full bucket holds, burst(rpm)
  COST,         \* units a request takes
  MaxTime       \* bound: the clock stops here

ASSUME AddressesAssumption ==
  /\ IsFiniteSet(Addresses)
  /\ Watched \subseteq Addresses
  /\ Proxy \notin Addresses /\ Blank \notin Addresses
  /\ Forged \subseteq Seq(Addresses \cup {Blank})
  /\ TrustProxy \in BOOLEAN

ASSUME SizesAssumption ==
  /\ MAX_KEYS \in Nat /\ MAX_KEYS >= 4
  /\ IDLE_SECS \in Nat /\ RATE \in Nat \ {0} /\ CAP \in Nat /\ COST \in Nat /\ MaxTime \in Nat

\* With the defaults ten minutes fill any bucket: burst is a quarter of what
\* a minute adds.  A larger MCP_RATE_BURST breaks this.
ASSUME IdleRefills == RATE * IDLE_SECS >= CAP

VARIABLES
  now,          \* seconds since the start of the process
  known,        \* the keys that have a bucket
  tokens,       \* Bucket.tokens
  last,         \* Bucket.last
  granted,      \* history: requests of an address allowed since `since'
  since,        \* history: when the counting began
  forgiven,     \* history: keys whose bucket the last call dropped because the table was full
  refused       \* history: the key the last call refused, if any

Keys == Addresses \cup {Proxy}

buckets == <<known, tokens, last>>
history == <<granted, since, forgiven, refused>>
vars == <<now, buckets, history>>

Init ==
  /\ now = 0
  /\ known = {}
  /\ tokens = [k \in Keys |-> 0]
  /\ last = [k \in Keys |-> 0]
  /\ granted = [a \in Watched |-> 0]
  /\ since = [a \in Watched |-> 0]
  /\ forgiven = {}
  /\ refused = {}

-----------------------------------------------------------------------------
(* The key of a client.                                                      *)

\* Mistake: the first entry instead of the last, as the code did before 0.1.8.
MistakeFirstEntry(peer, xff, trust) ==
  IF trust /\ xff # <<>> /\ xff[1] # Blank THEN xff[1] ELSE peer

client_key_with(peer, xff, trust) ==
  IF trust /\ xff # <<>> /\ xff[Len(xff)] # Blank THEN xff[Len(xff)] ELSE peer

\* What the server sees of a request from address a: directly, or through
\* the proxy, which appends the address it saw.
KeyOf(a, forged) ==
  IF TrustProxy THEN client_key_with(Proxy, Append(forged, a), TRUE)
                ELSE client_key_with(a, forged, FALSE)

-----------------------------------------------------------------------------
(* The bucket.                                                               *)

Filled(k) ==
  LET elapsed == now - last[k] IN
  IF tokens[k] + elapsed * RATE < CAP THEN tokens[k] + elapsed * RATE ELSE CAP

\* Mistake: a refused request is charged too, and so its bucket can owe.
MistakeChargeRefused(filled) == filled - COST

Paid(filled) == IF filled >= COST THEN filled - COST ELSE filled

-----------------------------------------------------------------------------
(* Room in the table.                                                        *)

Quarter == MAX_KEYS \div 4

Idle(k) == now - last[k] >= IDLE_SECS

Fresh == {k \in known : ~Idle(k)}

\* The keys that may go when the table is full of fresh ones: a quarter of it,
\* none used later than any that stays.  Equal ages go in any order.
OldestQuarter(gone) ==
  /\ Cardinality(gone) = Quarter
  /\ \A k \in gone, j \in Fresh \ gone : last[k] <= last[j]

Full == Cardinality(known) >= MAX_KEYS
Crowded == Full /\ Cardinality(Fresh) >= MAX_KEYS

\* Mistake: the whole table is cleared, as the code once did.
MistakeClear(gone) == gone = IF Crowded THEN Fresh ELSE {}

\* The keys that lose their bucket for lack of room.
Evicted(gone) == IF Crowded THEN OldestQuarter(gone) ELSE gone = {}

Kept(gone) == IF Full THEN Fresh \ gone ELSE known

-----------------------------------------------------------------------------
(* allow_for, under the mutex, for a request of address a with key k.        *)

\* What key k finds after the clean-up: its own bucket, or a new full one.
Level(k, gone) == IF k \in Kept(gone) THEN Filled(k) ELSE CAP

Take(a, k, gone) ==
  LET level == Level(k, gone)
      allowed == level >= COST
      stays == Kept(gone) \cup {k}
  IN
  /\ known' = stays
  /\ tokens' = [j \in Keys |-> IF j = k THEN Paid(level) ELSE IF j \in stays THEN tokens[j] ELSE 0]
  /\ last' = [j \in Keys |-> IF j = k THEN now ELSE IF j \in stays THEN last[j] ELSE 0]
  /\ since' = [j \in Watched |-> IF j \in gone THEN now ELSE since[j]]
  /\ granted' = [j \in Watched |-> (IF j \in gone THEN 0 ELSE granted[j])
                                   + (IF j = a /\ allowed THEN 1 ELSE 0)]
  /\ refused' = IF allowed THEN {} ELSE {k}

\* With MCP_RATE_RPM=0 the function returns before it takes the mutex; the
\* model is of a limiter that is on.
allow_for(a, k) ==
  \E gone \in SUBSET Fresh :
    /\ Evicted(gone)
    /\ Take(a, k, gone)
    /\ forgiven' = gone
    /\ UNCHANGED now

Request(a) == \E forged \in Forged : allow_for(a, KeyOf(a, forged))

Tick ==
  /\ now < MaxTime
  /\ now' = now + 1
  /\ forgiven' = {} /\ refused' = {}
  /\ UNCHANGED <<buckets, granted, since>>

Next == Tick \/ \E a \in Addresses : Request(a)

Spec == Init /\ [][Next]_vars

-----------------------------------------------------------------------------
\* Every variable keeps its type: a bucket never holds more than the burst nor less
\* than nothing (take, ratelimit.rs:55-66).
TypeOK ==
  /\ now \in Nat
  /\ known \in SUBSET Keys
  /\ tokens \in [Keys -> 0..CAP]
  /\ last \in [Keys -> 0..now]
  /\ granted \in [Watched -> Nat]
  /\ since \in [Watched -> 0..now]
  /\ forgiven \in SUBSET Keys
  /\ refused \in SUBSET Keys

\* The table never holds more than MAX_KEYS buckets, however many addresses
\* send requests (the clean-up of allow_for before it inserts).
TableBounded == Cardinality(known) <= MAX_KEYS

\* An address gets no more than a full bucket and what the clock has added
\* since, whatever it writes into X-Forwarded-For and however often its idle
\* bucket is dropped; only a bucket dropped for lack of room starts anew.
RateHolds ==
  \A a \in Watched : granted[a] * COST <= CAP + RATE * (now - since[a])

\* A bucket is dropped for lack of room only if three quarters of a table of
\* others were used at the same time or later: a flood never gets a fresh
\* bucket for those that take part in it all at once.
OnlyCrowdedOutForgiven ==
  [][\A k \in forgiven' :
       Cardinality({j \in known \ {k} : last[j] >= last[k]}) >= MAX_KEYS - Quarter]_vars

\* A refusal needs a request in the time it takes to earn one token: a client
\* that slows down to the configured rate is never refused, and refusals are
\* not held against it.
PatienceIsEnough ==
  [][\A k \in refused' : CAP < COST \/ (k \in known /\ RATE * (now - last[k]) < COST)]_vars
=============================================================================
