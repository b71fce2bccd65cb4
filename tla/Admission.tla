------------------------------ MODULE Admission ------------------------------
(***************************************************************************)
(* The gates an HTTP request passes on its way to the database, and the    *)
(* two guards it carries: mcp_handler of src/src/transport.rs, the gates   *)
(* of src/src/pipeline.rs and the in-flight map of src/src/ratelimit.rs.   *)
(*                                                                         *)
(* The origin check, the start policy, the rate limit and the session      *)
(* lookup come first, hold nothing and are passed by every request here.   *)
(* From there to spawn_blocking the handler has no await: it runs on one   *)
(* worker thread of the runtime, and Workers of them run side by side.     *)
(***************************************************************************)
EXTENDS Naturals, FiniteSets, Functions

CONSTANTS
  Requests,        \* handler tasks
  Clients,         \* keys of the in-flight map: peer addresses
  NoClient,        \* the empty key of a guard that counts nothing
  MAX_DB_CONNS,    \* permits of DB_SEM
  Reserved,        \* MCP_RESERVED_AUTH_SLOTS
  MaxInFlight,     \* MCP_MAX_INFLIGHT_PER_CLIENT, 0 to switch the cap off
  Workers,         \* worker threads of the async runtime
  AuthConfigured   \* AUTH_CONFIG.is_some()

ASSUME RequestsAssumption == IsFiniteSet(Requests)
ASSUME ClientsAssumption == NoClient \notin Clients
ASSUME NumbersAssumption ==
  /\ MAX_DB_CONNS \in Nat /\ Reserved \in Nat /\ MaxInFlight \in Nat
  /\ Workers \in Nat \ {0}
  /\ Reserved < MAX_DB_CONNS
ASSUME AuthAssumption == AuthConfigured \in BOOLEAN

\* token: a valid one.  bad: missing, invalid or without the scope.
\* none: nothing to present, which under OAuth only server/discover may do.
Credentials == {"token", "bad", "none"}

\* In the order of mcp_handler; done is a handler that waits for its next request.
Stages == {"done", "pressure", "slot", "auth", "reserve", "pool", "headers",
           "queued", "working", "permit", "unslot"}

OnWorker == {"pressure", "slot", "auth", "reserve", "pool", "headers", "unslot"}
OnBlockingThread == {"queued", "working", "permit"}

VARIABLES
  stage,       \* where each request is
  client,      \* its in-flight key
  credential,  \* what it presents
  cap,         \* the cap it read from the pressure on the pool
  slot,        \* the key of its SlotGuard, NoClient without one that counts
  permit,      \* it holds an OwnedSemaphorePermit
  connected,   \* somebody still waits for the answer
  available,   \* DB_SEM.available_permits()
  IN_FLIGHT    \* the map: a count for every key in it

task == <<stage, client, credential, cap, slot, permit, connected>>
vars == <<task, available, IN_FLIGHT>>

At(r, here) == stage[r] = here
Go(r, there) == stage' = [stage EXCEPT ![r] = there]

\* The handler returns; its locals are gone.
Leave(r) ==
  /\ stage' = [stage EXCEPT ![r] = "done"]
  /\ client' = [client EXCEPT ![r] = NoClient]
  /\ credential' = [credential EXCEPT ![r] = "none"]
  /\ cap' = [cap EXCEPT ![r] = 0]
  /\ connected' = [connected EXCEPT ![r] = FALSE]

InFlightOf(c) == IF c \in DOMAIN IN_FLIGHT THEN IN_FLIGHT[c] ELSE 0
Counting(c, n) == [k \in DOMAIN IN_FLIGHT \cup {c} |-> IF k = c THEN n ELSE IN_FLIGHT[k]]

Init ==
  /\ stage = [r \in Requests |-> "done"]
  /\ client = [r \in Requests |-> NoClient]
  /\ credential = [r \in Requests |-> "none"]
  /\ cap = [r \in Requests |-> 0]
  /\ slot = [r \in Requests |-> NoClient]
  /\ permit = [r \in Requests |-> FALSE]
  /\ connected = [r \in Requests |-> FALSE]
  /\ available = MAX_DB_CONNS
  /\ IN_FLIGHT = [c \in {} |-> 0]

-----------------------------------------------------------------------------
(* On a worker thread                                                      *)

\* A request has passed the gates that hold nothing and a worker runs it.
Enter(r, c, cred) ==
  /\ At(r, "done")
  /\ Cardinality({q \in Requests : stage[q] \in OnWorker}) < Workers
  /\ Go(r, "pressure")
  /\ client' = [client EXCEPT ![r] = c]
  /\ credential' = [credential EXCEPT ![r] = cred]
  /\ connected' = [connected EXCEPT ![r] = TRUE]
  /\ UNCHANGED <<cap, slot, permit, available, IN_FLIGHT>>

\* gate_in_flight, first half: the pool is looked at outside the lock of the map.
ReadPressure(r) ==
  /\ At(r, "pressure")
  /\ cap' = [cap EXCEPT ![r] = IF available <= MAX_DB_CONNS \div 4 THEN 1 ELSE MaxInFlight]
  /\ Go(r, "slot")
  /\ UNCHANGED <<client, credential, slot, permit, connected, available, IN_FLIGHT>>

\* Mistake: a client at its cap is let in once more.
AcquireSlotOneOver(r) ==
  /\ At(r, "slot") /\ cap[r] > 0 /\ InFlightOf(client[r]) <= cap[r]
  /\ IN_FLIGHT' = Counting(client[r], InFlightOf(client[r]) + 1)
  /\ slot' = [slot EXCEPT ![r] = client[r]]
  /\ Go(r, "auth")
  /\ UNCHANGED <<client, credential, cap, permit, connected, available>>

\* acquire_slot_capped, under the lock: a cap of 0 counts nobody,
SlotUncounted(r) ==
  /\ At(r, "slot") /\ cap[r] = 0
  /\ Go(r, "auth")
  /\ UNCHANGED <<client, credential, cap, slot, permit, connected, available, IN_FLIGHT>>

\* a client below its cap is counted,
AcquireSlot(r) ==
  /\ At(r, "slot") /\ cap[r] > 0 /\ InFlightOf(client[r]) < cap[r]
  /\ IN_FLIGHT' = Counting(client[r], InFlightOf(client[r]) + 1)
  /\ slot' = [slot EXCEPT ![r] = client[r]]
  /\ Go(r, "auth")
  /\ UNCHANGED <<client, credential, cap, permit, connected, available>>

\* and one that is at its cap is answered 503.
SlotRefused(r) ==
  /\ At(r, "slot") /\ cap[r] > 0 /\ InFlightOf(client[r]) >= cap[r]
  /\ Leave(r)
  /\ UNCHANGED <<slot, permit, available, IN_FLIGHT>>

\* enforce_auth.  A refusal returns, and returning drops the slot.
Authenticate(r) ==
  /\ At(r, "auth")
  /\ Go(r, IF credential[r] = "bad" THEN "unslot" ELSE "reserve")
  /\ UNCHANGED <<client, credential, cap, slot, permit, connected, available, IN_FLIGHT>>

\* Mistake: the comparison leaves out equality.
CheckReserveOneShort(r) ==
  /\ At(r, "reserve")
  /\ Go(r, IF AuthConfigured /\ credential[r] = "none" /\ available < Reserved
           THEN "unslot" ELSE "pool")
  /\ UNCHANGED <<client, credential, cap, slot, permit, connected, available, IN_FLIGHT>>

\* Without an identity a request is refused while only reserved permits are left.
CheckReserve(r) ==
  /\ At(r, "reserve")
  /\ Go(r, IF AuthConfigured /\ credential[r] = "none" /\ available <= Reserved
           THEN "unslot" ELSE "pool")
  /\ UNCHANGED <<client, credential, cap, slot, permit, connected, available, IN_FLIGHT>>

\* A batch is refused before the reserve is looked at, a notification accepted after it.
AnsweredWithoutWork(r) ==
  /\ At(r, "reserve") \/ At(r, "pool")
  /\ Go(r, "unslot")
  /\ UNCHANGED <<client, credential, cap, slot, permit, connected, available, IN_FLIGHT>>

\* gate_pool: try_acquire_owned.
TakePermit(r) ==
  /\ At(r, "pool") /\ available > 0
  /\ available' = available - 1
  /\ permit' = [permit EXCEPT ![r] = TRUE]
  /\ Go(r, "headers")
  /\ UNCHANGED <<client, credential, cap, slot, connected, IN_FLIGHT>>

PoolBusy(r) ==
  /\ At(r, "pool") /\ available = 0
  /\ Go(r, "unslot")
  /\ UNCHANGED <<client, credential, cap, slot, permit, connected, available, IN_FLIGHT>>

\* A header that names no revision, or disagrees with the body, is refused with
\* both guards in hand: the permit, declared last, is dropped first.
HeadersRefused(r) ==
  /\ At(r, "headers")
  /\ available' = available + 1
  /\ permit' = [permit EXCEPT ![r] = FALSE]
  /\ Go(r, "unslot")
  /\ UNCHANGED <<client, credential, cap, slot, connected, IN_FLIGHT>>

\* spawn_blocking: both guards move to the thread that will do the work.
Spawn(r) ==
  /\ At(r, "headers")
  /\ Go(r, "queued")
  /\ UNCHANGED <<client, credential, cap, slot, permit, connected, available, IN_FLIGHT>>

\* Mistake: the key leaves the map with the first guard of several.
DropSlotForgetting(r) ==
  /\ slot' = [slot EXCEPT ![r] = NoClient]
  /\ IN_FLIGHT' = IF slot[r] \in DOMAIN IN_FLIGHT
                  THEN Restrict(IN_FLIGHT, DOMAIN IN_FLIGHT \ {slot[r]})
                  ELSE IN_FLIGHT

\* SlotGuard::drop: a count that reaches 0 leaves the map; the empty key is in no map.
DropSlot(r) ==
  /\ slot' = [slot EXCEPT ![r] = NoClient]
  /\ IN_FLIGHT' =
       CASE slot[r] \notin DOMAIN IN_FLIGHT -> IN_FLIGHT
         [] slot[r] \in DOMAIN IN_FLIGHT /\ IN_FLIGHT[slot[r]] <= 1 ->
              Restrict(IN_FLIGHT, DOMAIN IN_FLIGHT \ {slot[r]})
         [] OTHER -> [IN_FLIGHT EXCEPT ![slot[r]] = @ - 1]

\* The handler returns early.
ReturnEarly(r) ==
  /\ At(r, "unslot")
  /\ DropSlot(r)
  /\ Leave(r)
  /\ UNCHANGED <<permit, available>>

-----------------------------------------------------------------------------
(* On a blocking thread                                                    *)

StartWork(r) ==
  /\ At(r, "queued")
  /\ Go(r, "working")
  /\ UNCHANGED <<client, credential, cap, slot, permit, connected, available, IN_FLIGHT>>

\* handle_request returns or panics: either way the guards are dropped, the
\* slot first.
WorkEnds(r) ==
  /\ At(r, "working")
  /\ DropSlot(r)
  /\ Go(r, "permit")
  /\ UNCHANGED <<client, credential, cap, permit, connected, available>>

\* Mistake: nobody gives the permit back once the client has gone.
PermitBackIfConnected(r) ==
  /\ At(r, "permit") /\ connected[r]
  /\ available' = available + 1
  /\ permit' = [permit EXCEPT ![r] = FALSE]
  /\ Leave(r)
  /\ UNCHANGED <<slot, IN_FLIGHT>>

PermitBack(r) ==
  /\ At(r, "permit")
  /\ available' = available + 1
  /\ permit' = [permit EXCEPT ![r] = FALSE]
  /\ Leave(r)
  /\ UNCHANGED <<slot, IN_FLIGHT>>

\* Mistake: the guards belong to the future that waits for the work.
DisconnectDropsGuards(r) ==
  /\ stage[r] \in OnBlockingThread /\ connected[r]
  /\ connected' = [connected EXCEPT ![r] = FALSE]
  /\ available' = IF permit[r] THEN available + 1 ELSE available
  /\ permit' = [permit EXCEPT ![r] = FALSE]
  /\ UNCHANGED <<stage, client, credential, cap, slot, IN_FLIGHT>>

\* The client goes away and the future that awaits the work is dropped: the
\* work cannot be cancelled and keeps both guards.
Disconnect(r) ==
  /\ stage[r] \in OnBlockingThread /\ connected[r]
  /\ connected' = [connected EXCEPT ![r] = FALSE]
  /\ UNCHANGED <<stage, client, credential, cap, slot, permit, available, IN_FLIGHT>>

-----------------------------------------------------------------------------
Gates(r) ==
  \/ ReadPressure(r) \/ SlotUncounted(r) \/ AcquireSlot(r) \/ SlotRefused(r)
  \/ Authenticate(r) \/ CheckReserve(r) \/ AnsweredWithoutWork(r)
  \/ TakePermit(r) \/ PoolBusy(r) \/ HeadersRefused(r) \/ Spawn(r) \/ ReturnEarly(r)

Work(r) == StartWork(r) \/ WorkEnds(r) \/ PermitBack(r)

Next ==
  \E r \in Requests :
    \/ \E c \in Clients, cred \in Credentials : Enter(r, c, cred)
    \/ Gates(r)
    \/ Work(r)
    \/ Disconnect(r)

\* A handler without an await runs on; blocking threads are started for queued
\* work, and statement_timeout and the connection timeouts end it.
Fairness == \A r \in Requests : WF_vars(Gates(r)) /\ WF_vars(Work(r))

Spec == Init /\ [][Next]_vars /\ Fairness

-----------------------------------------------------------------------------
(* Properties                                                              *)

Holders == {r \in Requests : permit[r]}
Anonymous == {r \in Requests : credential[r] = "none"}

\* The variables keep their types.
TypeOK ==
  /\ stage \in [Requests -> Stages]
  /\ client \in [Requests -> Clients \cup {NoClient}]
  /\ credential \in [Requests -> Credentials]
  /\ cap \in [Requests -> Nat]
  /\ slot \in [Requests -> Clients \cup {NoClient}]
  /\ permit \in [Requests -> BOOLEAN]
  /\ connected \in [Requests -> BOOLEAN]
  /\ available \in Nat
  /\ DOMAIN IN_FLIGHT \subseteq Clients
  /\ \A c \in DOMAIN IN_FLIGHT : IN_FLIGHT[c] \in Nat \ {0}

\* The map counts exactly the guards that are alive, on every path a request
\* can leave by: no slot leaks and no client is let in on another's release.
SlotsExact ==
  \A c \in Clients : InFlightOf(c) = Cardinality({r \in Requests : slot[r] = c})

\* Work that is queued or running is always paid for by a permit the semaphore
\* does not hand out again, also when its client has gone away.
WorkIsPaidFor ==
  Cardinality({r \in Requests : stage[r] \in OnBlockingThread}) + available <= MAX_DB_CONNS

\* No client has more requests past its gate than the cap, however the pool's
\* pressure changed between the reading and the counting.
ClientCapped ==
  MaxInFlight > 0 => \A c \in Clients :
    Cardinality({r \in Requests : slot[r] = c}) <= MaxInFlight

\* Requests without an identity that look at the reserve at the same time can
\* take a permit of it each, but never more than the other worker threads.
OvershootBounded ==
  AuthConfigured =>
    Cardinality(Holders \cap Anonymous) + Reserved + 1 <= MAX_DB_CONNS + Workers

\* A client with a token finds the pool empty only when other clients with a
\* token hold the reserve, up to what the worker threads can overshoot by.
RefusedOnlyByPeers ==
  [][\A r \in Requests :
       AuthConfigured /\ credential[r] = "token" /\ PoolBusy(r)
         => Cardinality(Holders \ Anonymous) + Workers >= Reserved + 1]_vars

\* Every permit comes back: nothing a client does or leaves undone keeps one.
PermitsComeBack == \A r \in Requests : permit[r] ~> ~permit[r]
=============================================================================
