--------------------------- MODULE AdmissionProofs ---------------------------
(***************************************************************************)
(* What holds of Admission for any number of requests, clients, permits    *)
(* and worker threads.                                                     *)
(***************************************************************************)
EXTENDS Admission, FiniteSetTheorems, TLAPS

-----------------------------------------------------------------------------
(* Types                                                                   *)

LEMMA StagesType ==
  /\ "done" \in Stages /\ "pressure" \in Stages /\ "slot" \in Stages /\ "auth" \in Stages
  /\ "reserve" \in Stages /\ "pool" \in Stages /\ "headers" \in Stages
  /\ "queued" \in Stages /\ "working" \in Stages /\ "permit" \in Stages
  /\ "unslot" \in Stages
BY DEF Stages

LEMMA CredentialsType == "none" \in Credentials
BY DEF Credentials

LEMMA GoKeeps ==
  ASSUME TypeOK, NEW r \in Requests, NEW there \in Stages, Go(r, there)
  PROVE  /\ stage' \in [Requests -> Stages]
         /\ stage'[r] = there
         /\ \A q \in Requests \ {r} : stage'[q] = stage[q]
BY DEF TypeOK, Go

LEMMA LeaveKeeps ==
  ASSUME TypeOK, NEW r \in Requests, Leave(r)
  PROVE  /\ stage' \in [Requests -> Stages]
         /\ stage'[r] = "done"
         /\ \A q \in Requests \ {r} : stage'[q] = stage[q]
         /\ client' \in [Requests -> Clients \cup {NoClient}]
         /\ credential' \in [Requests -> Credentials]
         /\ \A q \in Requests \ {r} : credential'[q] = credential[q]
         /\ cap' \in [Requests -> Nat]
         /\ connected' \in [Requests -> BOOLEAN]
<1>1. /\ stage' \in [Requests -> Stages]
      /\ stage'[r] = "done"
      /\ \A q \in Requests \ {r} : stage'[q] = stage[q]
  BY StagesType DEF TypeOK, Leave
<1>2. /\ credential' \in [Requests -> Credentials]
      /\ \A q \in Requests \ {r} : credential'[q] = credential[q]
  BY CredentialsType DEF TypeOK, Leave
<1>3. client' \in [Requests -> Clients \cup {NoClient}]
  BY DEF TypeOK, Leave
<1>4. cap' \in [Requests -> Nat] /\ connected' \in [Requests -> BOOLEAN]
  BY DEF TypeOK, Leave
<1>5. QED BY <1>1, <1>2, <1>3, <1>4

\* The map holds keys of clients, each with a positive count.
MapType ==
  /\ DOMAIN IN_FLIGHT \subseteq Clients
  /\ \A c \in DOMAIN IN_FLIGHT : IN_FLIGHT[c] \in Nat \ {0}

LEMMA MapTypeKept ==
  ASSUME MapType, NEW r \in Requests, DropSlot(r)
  PROVE  MapType'
<1>1. CASE slot[r] \notin DOMAIN IN_FLIGHT
  BY <1>1 DEF MapType, DropSlot
<1>2. CASE slot[r] \in DOMAIN IN_FLIGHT /\ IN_FLIGHT[slot[r]] <= 1
  <2>1. IN_FLIGHT' = Restrict(IN_FLIGHT, DOMAIN IN_FLIGHT \ {slot[r]})
    BY <1>2 DEF DropSlot
  <2>2. QED BY <2>1 DEF MapType, Restrict
<1>3. CASE slot[r] \in DOMAIN IN_FLIGHT /\ ~(IN_FLIGHT[slot[r]] <= 1)
  <2>1. IN_FLIGHT' = [IN_FLIGHT EXCEPT ![slot[r]] = @ - 1]
    BY <1>3 DEF DropSlot
  <2>2. IN_FLIGHT[slot[r]] - 1 \in Nat \ {0}
    BY <1>3 DEF MapType
  <2>3. QED BY <2>1, <2>2 DEF MapType
<1>4. QED BY <1>1, <1>2, <1>3

LEMMA MapTypeCounting ==
  ASSUME MapType, NEW c \in Clients, NEW n \in Nat \ {0}, IN_FLIGHT' = Counting(c, n)
  PROVE  MapType'
BY DEF MapType, Counting

\* Whoever is past the first gates has an in-flight key.
ClientKnown == \A r \in Requests : stage[r] # "done" => client[r] \in Clients

LEMMA AcquireSlotMap ==
  ASSUME TypeOK, ClientKnown, NEW r \in Requests, AcquireSlot(r)
  PROVE  MapType'
<1>1. MapType
  BY DEF TypeOK, MapType
<1>2. InFlightOf(client[r]) \in Nat
  BY DEF TypeOK, InFlightOf
<1>3. client[r] \in Clients
  BY DEF ClientKnown, AcquireSlot, At
<1>4. QED BY <1>1, <1>2, <1>3, MapTypeCounting DEF AcquireSlot

\* A step that only moves one request on.
LEMMA MovedOn ==
  ASSUME TypeOK, NEW r \in Requests, NEW there \in Stages, Go(r, there),
         UNCHANGED <<client, credential, cap, slot, permit, connected, available, IN_FLIGHT>>
  PROVE  TypeOK'
BY GoKeeps DEF TypeOK

LEMMA EnterTypes ==
  ASSUME TypeOK, NEW r \in Requests, NEW c \in Clients, NEW cred \in Credentials,
         Enter(r, c, cred)
  PROVE  TypeOK'
<1>1. stage' \in [Requests -> Stages]
  BY GoKeeps, StagesType DEF Enter
<1>2. client' \in [Requests -> Clients \cup {NoClient}]
  BY DEF TypeOK, Enter
<1>3. credential' \in [Requests -> Credentials]
  BY DEF TypeOK, Enter
<1>4. connected' \in [Requests -> BOOLEAN]
  BY DEF TypeOK, Enter
<1>5. QED BY <1>1, <1>2, <1>3, <1>4 DEF TypeOK, Enter

LEMMA SlotTypes ==
  ASSUME TypeOK, ClientKnown, NEW r \in Requests, ReadPressure(r) \/ AcquireSlot(r) \/ SlotRefused(r)
  PROVE  TypeOK'
<1>1. CASE ReadPressure(r)
  <2>1. stage' \in [Requests -> Stages]
    BY <1>1, GoKeeps, StagesType DEF ReadPressure
  <2>2. cap' \in [Requests -> Nat]
    BY <1>1, NumbersAssumption DEF TypeOK, ReadPressure
  <2>3. QED BY <1>1, <2>1, <2>2 DEF TypeOK, ReadPressure
<1>2. CASE AcquireSlot(r)
  <2>1. stage' \in [Requests -> Stages]
    BY <1>2, GoKeeps, StagesType DEF AcquireSlot
  <2>2. slot' \in [Requests -> Clients \cup {NoClient}]
    BY <1>2 DEF TypeOK, AcquireSlot
  <2>3. MapType'
    BY <1>2, AcquireSlotMap
  <2>4. QED BY <1>2, <2>1, <2>2, <2>3 DEF TypeOK, MapType, AcquireSlot
<1>3. CASE SlotRefused(r)
  BY <1>3, LeaveKeeps DEF TypeOK, SlotRefused
<1>4. QED BY <1>1, <1>2, <1>3

LEMMA PermitTypes ==
  ASSUME TypeOK, NEW r \in Requests, TakePermit(r) \/ HeadersRefused(r) \/ PermitBack(r)
  PROVE  TypeOK'
<1>a. permit' \in [Requests -> BOOLEAN]
  BY DEF TypeOK, TakePermit, HeadersRefused, PermitBack
<1>b. available' \in Nat
  <2>1. available \in Nat
    BY DEF TypeOK
  <2>2. \/ available > 0 /\ available' = available - 1
        \/ available' = available + 1
    BY DEF TakePermit, HeadersRefused, PermitBack
  <2>3. QED BY <2>1, <2>2
<1>1. permit' \in [Requests -> BOOLEAN] /\ available' \in Nat
  BY <1>a, <1>b
<1>2. CASE TakePermit(r)
  BY <1>1, <1>2, GoKeeps, StagesType DEF TypeOK, TakePermit
<1>3. CASE HeadersRefused(r)
  BY <1>1, <1>3, GoKeeps, StagesType DEF TypeOK, HeadersRefused
<1>4. CASE PermitBack(r)
  BY <1>1, <1>4, LeaveKeeps DEF TypeOK, PermitBack
<1>5. QED BY <1>2, <1>3, <1>4

LEMMA ReturnTypes ==
  ASSUME TypeOK, NEW r \in Requests, ReturnEarly(r) \/ WorkEnds(r)
  PROVE  TypeOK'
<1>1. MapType' /\ slot' \in [Requests -> Clients \cup {NoClient}]
  <2>1. DropSlot(r)
    BY DEF ReturnEarly, WorkEnds
  <2>2. slot' \in [Requests -> Clients \cup {NoClient}]
    BY <2>1 DEF TypeOK, DropSlot
  <2>3. QED BY <2>1, <2>2, MapTypeKept DEF TypeOK, MapType
<1>2. CASE ReturnEarly(r)
  BY <1>1, <1>2, LeaveKeeps DEF TypeOK, MapType, ReturnEarly
<1>3. CASE WorkEnds(r)
  BY <1>1, <1>3, GoKeeps, StagesType DEF TypeOK, MapType, WorkEnds
<1>4. QED BY <1>2, <1>3

LEMMA MoveTypes ==
  ASSUME TypeOK, NEW r \in Requests,
         \/ SlotUncounted(r) \/ Authenticate(r) \/ CheckReserve(r) \/ AnsweredWithoutWork(r)
         \/ PoolBusy(r) \/ Spawn(r) \/ StartWork(r)
  PROVE  TypeOK'
BY MovedOn, StagesType
DEF SlotUncounted, Authenticate, CheckReserve, AnsweredWithoutWork, PoolBusy, Spawn, StartWork

LEMMA DisconnectTypes ==
  ASSUME TypeOK, NEW r \in Requests, Disconnect(r)
  PROVE  TypeOK'
BY DEF TypeOK, Disconnect

LEMMA TypesKept == TypeOK /\ ClientKnown /\ [Next]_vars => TypeOK'
<1> SUFFICES ASSUME TypeOK, ClientKnown, [Next]_vars
             PROVE  TypeOK'
  OBVIOUS
<1>1. CASE UNCHANGED vars
  BY <1>1 DEF TypeOK, vars, task
<1>2. ASSUME NEW r \in Requests, Gates(r) \/ Work(r)
      PROVE  TypeOK'
  BY <1>2, SlotTypes, PermitTypes, ReturnTypes, MoveTypes DEF Gates, Work
<1>3. QED BY <1>1, <1>2, EnterTypes, DisconnectTypes DEF Next

LEMMA ClientKept == TypeOK /\ ClientKnown /\ [Next]_vars => ClientKnown'
<1> SUFFICES ASSUME TypeOK, ClientKnown, [Next]_vars
             PROVE  ClientKnown'
  OBVIOUS
<1>1. CASE UNCHANGED vars
  BY <1>1 DEF ClientKnown, vars, task
<1>2. ASSUME NEW r \in Requests, NEW c \in Clients, NEW cred \in Credentials, Enter(r, c, cred)
      PROVE  ClientKnown'
  <2>1. \A q \in Requests \ {r} : stage'[q] = stage[q]
    BY <1>2, GoKeeps, StagesType DEF Enter
  <2>2. client'[r] = c /\ \A q \in Requests \ {r} : client'[q] = client[q]
    BY <1>2 DEF TypeOK, Enter
  <2>3. QED BY <2>1, <2>2 DEF ClientKnown
<1>3. ASSUME NEW r \in Requests, NEW there \in Stages, Go(r, there), stage[r] # "done",
             client' = client
      PROVE  ClientKnown'
  BY <1>3, GoKeeps DEF ClientKnown
<1>4. ASSUME NEW r \in Requests, Leave(r)
      PROVE  ClientKnown'
  <2>1. stage'[r] = "done" /\ \A q \in Requests \ {r} : stage'[q] = stage[q]
    BY <1>4, LeaveKeeps
  <2>2. \A q \in Requests \ {r} : client'[q] = client[q]
    BY <1>4 DEF TypeOK, Leave
  <2>3. QED BY <2>1, <2>2 DEF ClientKnown
<1>5. ASSUME NEW r \in Requests, Disconnect(r)
      PROVE  ClientKnown'
  BY <1>5 DEF ClientKnown, Disconnect
<1>6. ASSUME NEW r \in Requests, Gates(r)
      PROVE  ClientKnown'
  BY <1>3, <1>4, <1>6, StagesType
  DEF Gates, ReadPressure, SlotUncounted, AcquireSlot, SlotRefused, Authenticate,
      CheckReserve, AnsweredWithoutWork, TakePermit, PoolBusy, HeadersRefused, Spawn,
      ReturnEarly, At
<1>7. ASSUME NEW r \in Requests, Work(r)
      PROVE  ClientKnown'
  BY <1>3, <1>4, <1>7, StagesType DEF Work, StartWork, WorkEnds, PermitBack, At
<1>8. QED BY <1>1, <1>2, <1>5, <1>6, <1>7 DEF Next

LEMMA TypedAndKnown == Spec => [](TypeOK /\ ClientKnown)
<1>1. Init => TypeOK /\ ClientKnown
  BY StagesType, CredentialsType, NumbersAssumption DEF Init, TypeOK, ClientKnown
<1>2. QED BY <1>1, TypesKept, ClientKept, PTL DEF Spec

\* Every variable keeps its type in every behaviour.
THEOREM TypeCorrect == Spec => []TypeOK
BY TypedAndKnown, PTL

-----------------------------------------------------------------------------
(* Counting requests                                                       *)

\* What a step of one request can do to the number of a set of requests.
LEMMA OneChanges ==
  ASSUME NEW S \in SUBSET Requests, NEW T \in SUBSET Requests, NEW r \in Requests,
         \A q \in Requests \ {r} : q \in T <=> q \in S
  PROVE  /\ Cardinality(S) \in Nat /\ Cardinality(T) \in Nat
         /\ r \notin S /\ r \in T => Cardinality(T) = Cardinality(S) + 1
         /\ r \in S /\ r \notin T => Cardinality(S) = Cardinality(T) + 1
         /\ (r \in S <=> r \in T) => S = T
<1>1. IsFiniteSet(S) /\ IsFiniteSet(T)
  BY RequestsAssumption, FS_Subset
<1>2. ASSUME r \notin S, r \in T
      PROVE  Cardinality(T) = Cardinality(S) + 1
  <2>1. T = S \cup {r}
    BY <1>2
  <2>2. QED BY <1>1, <1>2, <2>1, FS_AddElement
<1>3. ASSUME r \in S, r \notin T
      PROVE  Cardinality(S) = Cardinality(T) + 1
  <2>1. S = T \cup {r}
    BY <1>3
  <2>2. QED BY <1>1, <1>3, <2>1, FS_AddElement
<1>4. (r \in S <=> r \in T) => S = T
  OBVIOUS
<1>5. QED BY <1>1, <1>2, <1>3, <1>4, FS_CardinalityType

LEMMA FewerRequests ==
  ASSUME NEW T \in SUBSET Requests, NEW S \in SUBSET T
  PROVE  /\ Cardinality(S) \in Nat /\ Cardinality(T) \in Nat
         /\ Cardinality(S) <= Cardinality(T)
<1>1. IsFiniteSet(T)
  BY RequestsAssumption, FS_Subset
<1>2. IsFiniteSet(S) /\ Cardinality(S) <= Cardinality(T)
  BY <1>1, FS_Subset
<1>3. QED BY <1>1, <1>2, FS_CardinalityType

-----------------------------------------------------------------------------
(* Permits                                                                 *)

PaidStages == {"headers", "queued", "working", "permit"}

LEMMA PaidStagesType ==
  /\ "headers" \in PaidStages /\ "queued" \in PaidStages
  /\ "working" \in PaidStages /\ "permit" \in PaidStages
  /\ "done" \notin PaidStages /\ "pressure" \notin PaidStages /\ "slot" \notin PaidStages
  /\ "auth" \notin PaidStages /\ "reserve" \notin PaidStages /\ "pool" \notin PaidStages
  /\ "unslot" \notin PaidStages
BY DEF PaidStages

\* A request holds a permit from gate_pool until its work has returned, and the
\* semaphore has the rest.
PermitsAccounted ==
  /\ \A r \in Requests : permit[r] <=> stage[r] \in PaidStages
  /\ available + Cardinality(Holders) = MAX_DB_CONNS

LEMMA PermitStays ==
  ASSUME TypeOK, PermitsAccounted, NEW r \in Requests, UNCHANGED <<permit, available>>,
         \A q \in Requests \ {r} : stage'[q] = stage[q],
         stage[r] \in PaidStages <=> stage'[r] \in PaidStages
  PROVE  PermitsAccounted'
BY DEF TypeOK, PermitsAccounted, Holders

LEMMA PermitMoves ==
  ASSUME TypeOK, PermitsAccounted, NEW r \in Requests,
         TakePermit(r) \/ HeadersRefused(r) \/ PermitBack(r)
  PROVE  PermitsAccounted'
<1>1. \A q \in Requests \ {r} : stage'[q] = stage[q]
  BY GoKeeps, LeaveKeeps, StagesType DEF TakePermit, HeadersRefused, PermitBack
<1>2. \A q \in Requests \ {r} : permit'[q] = permit[q]
  BY DEF TypeOK, TakePermit, HeadersRefused, PermitBack
<1>3. Holders \in SUBSET Requests /\ Holders' \in SUBSET Requests
  BY DEF Holders
<1>4. \A q \in Requests \ {r} : q \in Holders' <=> q \in Holders
  BY <1>2 DEF Holders
<1>5. available \in Nat
  BY DEF TypeOK
<1>6. CASE TakePermit(r)
  <2>1. stage[r] = "pool" /\ stage'[r] = "headers"
    BY <1>6, GoKeeps, StagesType DEF TakePermit, At
  <2>2. ~permit[r] /\ permit'[r]
    BY <1>6, <2>1, PaidStagesType DEF TypeOK, PermitsAccounted, TakePermit
  <2>3. Cardinality(Holders') = Cardinality(Holders) + 1 /\ Cardinality(Holders) \in Nat
    BY <1>3, <1>4, <2>2, OneChanges DEF Holders
  <2>4. available' = available - 1
    BY <1>6 DEF TakePermit
  <2>5. available' + Cardinality(Holders') = MAX_DB_CONNS
    BY <1>5, <2>3, <2>4 DEF PermitsAccounted
  <2>6. QED BY <1>1, <1>2, <2>1, <2>2, <2>5, PaidStagesType DEF PermitsAccounted
<1>7. CASE HeadersRefused(r) \/ PermitBack(r)
  <2>1. stage[r] \in PaidStages /\ stage'[r] \notin PaidStages
    BY <1>7, GoKeeps, LeaveKeeps, StagesType, PaidStagesType DEF HeadersRefused, PermitBack, At
  <2>2. permit[r] /\ ~permit'[r]
    BY <1>7, <2>1 DEF TypeOK, PermitsAccounted, HeadersRefused, PermitBack
  <2>3. Cardinality(Holders) = Cardinality(Holders') + 1 /\ Cardinality(Holders') \in Nat
    BY <1>3, <1>4, <2>2, OneChanges DEF Holders
  <2>4. available' = available + 1
    BY <1>7 DEF HeadersRefused, PermitBack
  <2>5. available' + Cardinality(Holders') = MAX_DB_CONNS
    BY <1>5, <2>3, <2>4 DEF PermitsAccounted
  <2>6. QED BY <1>1, <1>2, <2>1, <2>2, <2>5 DEF PermitsAccounted
<1>8. QED BY <1>6, <1>7

LEMMA PermitsKept == TypeOK /\ PermitsAccounted /\ [Next]_vars => PermitsAccounted'
<1> SUFFICES ASSUME TypeOK, PermitsAccounted, [Next]_vars
             PROVE  PermitsAccounted'
  OBVIOUS
<1>1. CASE UNCHANGED vars
  BY <1>1 DEF PermitsAccounted, Holders, vars, task
<1>2. ASSUME NEW r \in Requests, NEW there \in Stages, Go(r, there),
             stage[r] \in PaidStages <=> there \in PaidStages,
             UNCHANGED <<permit, available>>
      PROVE  PermitsAccounted'
  BY <1>2, GoKeeps, PermitStays
<1>3. ASSUME NEW r \in Requests, Leave(r), stage[r] \notin PaidStages,
             UNCHANGED <<permit, available>>
      PROVE  PermitsAccounted'
  BY <1>3, LeaveKeeps, PermitStays, PaidStagesType
<1>4. ASSUME NEW r \in Requests, NEW c \in Clients, NEW cred \in Credentials, Enter(r, c, cred)
      PROVE  PermitsAccounted'
  BY <1>2, <1>4, StagesType, PaidStagesType DEF Enter, At
<1>5. ASSUME NEW r \in Requests, Disconnect(r)
      PROVE  PermitsAccounted'
  BY <1>5 DEF PermitsAccounted, Holders, Disconnect
<1>6. ASSUME NEW r \in Requests,
             \/ ReadPressure(r) \/ SlotUncounted(r) \/ AcquireSlot(r)
             \/ Authenticate(r) \/ CheckReserve(r) \/ AnsweredWithoutWork(r)
             \/ PoolBusy(r) \/ Spawn(r) \/ StartWork(r) \/ WorkEnds(r)
      PROVE  PermitsAccounted'
  BY <1>2, <1>6, StagesType, PaidStagesType
  DEF ReadPressure, SlotUncounted, AcquireSlot, Authenticate, CheckReserve,
      AnsweredWithoutWork, PoolBusy, Spawn, StartWork, WorkEnds, At
<1>7. ASSUME NEW r \in Requests, SlotRefused(r) \/ ReturnEarly(r)
      PROVE  PermitsAccounted'
  BY <1>3, <1>7, PaidStagesType DEF SlotRefused, ReturnEarly, At
<1>8. QED BY <1>1, <1>4, <1>5, <1>6, <1>7, PermitMoves DEF Next, Gates, Work

LEMMA PermitsStart == Init => PermitsAccounted
<1> SUFFICES ASSUME Init
             PROVE  PermitsAccounted
  OBVIOUS
<1>1. Holders = {}
  BY DEF Init, Holders
<1>2. Cardinality(Holders) = 0
  BY <1>1, FS_EmptySet
<1>3. available + Cardinality(Holders) = MAX_DB_CONNS
  BY <1>2, NumbersAssumption DEF Init
<1>4. QED BY <1>3, PaidStagesType DEF Init, PermitsAccounted

LEMMA PermitsAlwaysAccounted == Spec => []PermitsAccounted
BY PermitsStart, PermitsKept, TypeCorrect, PTL DEF Spec

\* Work on a blocking thread is paid for by a permit the semaphore does not hand
\* out again, with any number of requests and however many clients go away.
THEOREM WorkAlwaysPaidFor == Spec => []WorkIsPaidFor
<1>1. TypeOK /\ PermitsAccounted => WorkIsPaidFor
  <2> SUFFICES ASSUME TypeOK, PermitsAccounted
               PROVE  WorkIsPaidFor
    OBVIOUS
  <2> DEFINE Busy == {r \in Requests : stage[r] \in OnBlockingThread}
  <2>1. Busy \in SUBSET Holders /\ Holders \in SUBSET Requests
    BY DEF PermitsAccounted, PaidStages, OnBlockingThread, Holders
  <2>2. /\ Cardinality(Busy) \in Nat /\ Cardinality(Holders) \in Nat
        /\ Cardinality(Busy) <= Cardinality(Holders)
    BY <2>1, FewerRequests
  <2>3. available \in Nat /\ available + Cardinality(Holders) = MAX_DB_CONNS
    BY DEF TypeOK, PermitsAccounted
  <2> HIDE DEF Busy
  <2>4. Cardinality(Busy) + available <= MAX_DB_CONNS
    BY <2>2, <2>3, NumbersAssumption
  <2>5. QED BY <2>4 DEF WorkIsPaidFor, Busy
<1>2. QED BY <1>1, PermitsAlwaysAccounted, TypeCorrect, PTL

-----------------------------------------------------------------------------
(* The reserve                                                             *)

Admitted == {"pool", "headers", "queued", "working", "permit"}

LEMMA AdmittedType ==
  /\ "pool" \in Admitted /\ "headers" \in Admitted /\ "queued" \in Admitted
  /\ "working" \in Admitted /\ "permit" \in Admitted
  /\ "done" \notin Admitted /\ "pressure" \notin Admitted /\ "slot" \notin Admitted
  /\ "auth" \notin Admitted /\ "reserve" \notin Admitted /\ "unslot" \notin Admitted
BY DEF Admitted

Running == {r \in Requests : stage[r] \in OnWorker}
PastReserve == {r \in Anonymous : stage[r] \in Admitted}

\* The runtime runs no more handlers than it has workers.
WorkersBounded == Cardinality(Running) <= Workers

\* What CheckReserve keeps: it lets a request by only when more than the reserve
\* is free, and whoever is by it at that moment and holds no permit yet is on
\* another worker.
ReserveInv == AuthConfigured => Cardinality(PastReserve) + Reserved + 1 <= MAX_DB_CONNS + Workers

\* The first stages of a handler, in which a worker runs it, and the others.
LEMMA WhereItRuns ==
  /\ \A s \in OnWorker : s # "done" /\ s \notin OnBlockingThread
  /\ \A s \in Admitted : s \in OnWorker \/ s \in PaidStages
  /\ "done" \notin OnWorker /\ "queued" \notin OnWorker /\ "working" \notin OnWorker
  /\ "permit" \notin OnWorker /\ "reserve" \in OnWorker /\ "pressure" \in OnWorker
BY DEF OnWorker, OnBlockingThread, Admitted, PaidStages

LEMMA RunningShrinks ==
  ASSUME TypeOK, WorkersBounded, NEW r \in Requests,
         \A q \in Requests \ {r} : stage'[q] = stage[q],
         stage'[r] \in OnWorker => stage[r] \in OnWorker
  PROVE  WorkersBounded'
<1>1. Running' \in SUBSET Running /\ Running \in SUBSET Requests
  BY DEF Running
<1>2. /\ Cardinality(Running) \in Nat /\ Cardinality(Running') \in Nat
      /\ Cardinality(Running') <= Cardinality(Running)
  BY <1>1, FewerRequests
<1>3. QED BY <1>2, NumbersAssumption DEF WorkersBounded

LEMMA WorkersKept == TypeOK /\ WorkersBounded /\ [Next]_vars => WorkersBounded'
<1> SUFFICES ASSUME TypeOK, WorkersBounded, [Next]_vars
             PROVE  WorkersBounded'
  OBVIOUS
<1>1. CASE UNCHANGED vars
  BY <1>1 DEF WorkersBounded, Running, vars, task
<1>2. ASSUME NEW r \in Requests, NEW there \in Stages, Go(r, there),
             there \in OnWorker => stage[r] \in OnWorker
      PROVE  WorkersBounded'
  BY <1>2, GoKeeps, RunningShrinks
<1>3. ASSUME NEW r \in Requests, Leave(r)
      PROVE  WorkersBounded'
  BY <1>3, LeaveKeeps, RunningShrinks, WhereItRuns
<1>4. ASSUME NEW r \in Requests, NEW c \in Clients, NEW cred \in Credentials, Enter(r, c, cred)
      PROVE  WorkersBounded'
  <2>1. stage[r] \notin OnWorker /\ stage'[r] \in OnWorker
    BY <1>4, GoKeeps, StagesType, WhereItRuns DEF Enter, At
  <2>2. \A q \in Requests \ {r} : stage'[q] = stage[q]
    BY <1>4, GoKeeps, StagesType DEF Enter
  <2>3. /\ Running \in SUBSET Requests /\ Running' \in SUBSET Requests
        /\ r \notin Running /\ r \in Running'
        /\ \A q \in Requests \ {r} : q \in Running' <=> q \in Running
    BY <2>1, <2>2 DEF Running
  <2>4. Cardinality(Running') = Cardinality(Running) + 1 /\ Cardinality(Running) \in Nat
    BY <2>3, OneChanges
  <2>5. Cardinality(Running) < Workers
    BY <1>4 DEF Enter, Running
  <2>6. QED BY <2>4, <2>5, NumbersAssumption DEF WorkersBounded
<1>5. ASSUME NEW r \in Requests, Disconnect(r)
      PROVE  WorkersBounded'
  BY <1>5 DEF WorkersBounded, Running, Disconnect
<1>6. ASSUME NEW r \in Requests, Gates(r)
      PROVE  WorkersBounded'
  BY <1>2, <1>3, <1>6, StagesType
  DEF Gates, ReadPressure, SlotUncounted, AcquireSlot, SlotRefused, Authenticate,
      CheckReserve, AnsweredWithoutWork, TakePermit, PoolBusy, HeadersRefused, Spawn,
      ReturnEarly, At, OnWorker
<1>7. ASSUME NEW r \in Requests, Work(r)
      PROVE  WorkersBounded'
  BY <1>2, <1>3, <1>7, StagesType, WhereItRuns DEF Work, StartWork, WorkEnds, PermitBack
<1>8. QED BY <1>1, <1>4, <1>5, <1>6, <1>7 DEF Next

LEMMA PastReserveShrinks ==
  ASSUME TypeOK, ReserveInv, PastReserve' \in SUBSET PastReserve
  PROVE  ReserveInv'
<1>1. PastReserve \in SUBSET Requests
  BY DEF PastReserve, Anonymous
<1>2. /\ Cardinality(PastReserve) \in Nat /\ Cardinality(PastReserve') \in Nat
      /\ Cardinality(PastReserve') <= Cardinality(PastReserve)
  BY <1>1, FewerRequests
<1>3. QED BY <1>2, NumbersAssumption DEF ReserveInv

\* One that is let by: the others by it hold a permit or run on a worker, and
\* more permits than the reserve are free.
LEMMA LetByReserve ==
  ASSUME TypeOK, PermitsAccounted, WorkersBounded, NEW r \in Requests,
         CheckReserve(r), AuthConfigured, credential[r] = "none", ~(available <= Reserved)
  PROVE  ReserveInv'
<1>1. PastReserve' \in SUBSET (Holders \cup Running)
  <2>1. credential' = credential /\ stage[r] \in OnWorker
    BY WhereItRuns DEF CheckReserve, At
  <2>2. \A q \in Requests \ {r} : stage'[q] = stage[q]
    BY GoKeeps, StagesType DEF CheckReserve
  <2>3. ASSUME NEW q \in PastReserve'
        PROVE  q \in Holders \cup Running
    <3>1. CASE q = r
      BY <2>1, <3>1 DEF Running
    <3>2. CASE q # r
      <4>1. q \in Requests /\ stage[q] \in Admitted
        BY <2>1, <2>2, <3>2 DEF PastReserve, Anonymous
      <4>2. QED BY <4>1, WhereItRuns DEF PermitsAccounted, Holders, Running
    <3>3. QED BY <3>1, <3>2
  <2>4. QED BY <2>3
<1>2. Holders \in SUBSET Requests /\ Running \in SUBSET Requests
  BY DEF Holders, Running
<1>3. IsFiniteSet(Holders) /\ IsFiniteSet(Running) /\ IsFiniteSet(Holders \cap Running)
  BY <1>2, RequestsAssumption, FS_Subset, FS_Intersection
<1>4. /\ Cardinality(Holders \cup Running)
           = Cardinality(Holders) + Cardinality(Running) - Cardinality(Holders \cap Running)
      /\ Cardinality(Holders) \in Nat /\ Cardinality(Running) \in Nat
      /\ Cardinality(Holders \cap Running) \in Nat
  BY <1>3, FS_Union, FS_CardinalityType
<1>5. /\ Cardinality(PastReserve') \in Nat /\ Cardinality(Holders \cup Running) \in Nat
      /\ Cardinality(PastReserve') <= Cardinality(Holders \cup Running)
  BY <1>1, <1>2, FewerRequests
<1>6. available \in Nat /\ available + Cardinality(Holders) = MAX_DB_CONNS
  BY DEF TypeOK, PermitsAccounted
<1>7. Cardinality(PastReserve') <= MAX_DB_CONNS - Reserved - 1 + Workers
  BY <1>4, <1>5, <1>6, NumbersAssumption DEF WorkersBounded
<1>8. QED BY <1>5, <1>7, NumbersAssumption DEF ReserveInv

LEMMA ReserveKept ==
  TypeOK /\ PermitsAccounted /\ WorkersBounded /\ ReserveInv /\ [Next]_vars => ReserveInv'
<1> SUFFICES ASSUME TypeOK, PermitsAccounted, WorkersBounded, ReserveInv, [Next]_vars
             PROVE  ReserveInv'
  OBVIOUS
<1>1. CASE UNCHANGED vars
  BY <1>1 DEF ReserveInv, PastReserve, Anonymous, vars, task
<1>2. ASSUME NEW r \in Requests, NEW there \in Stages, Go(r, there), credential' = credential,
             there \in Admitted => stage[r] \in Admitted
      PROVE  ReserveInv'
  <2>1. PastReserve' \in SUBSET PastReserve
    BY <1>2, GoKeeps DEF PastReserve, Anonymous
  <2>2. QED BY <2>1, PastReserveShrinks
<1>3. ASSUME NEW r \in Requests, Leave(r)
      PROVE  ReserveInv'
  <2>1. PastReserve' \in SUBSET PastReserve
    BY <1>3, LeaveKeeps, AdmittedType DEF PastReserve, Anonymous
  <2>2. QED BY <2>1, PastReserveShrinks
<1>4. ASSUME NEW r \in Requests, NEW c \in Clients, NEW cred \in Credentials, Enter(r, c, cred)
      PROVE  ReserveInv'
  <2>1. stage'[r] = "pressure" /\ \A q \in Requests \ {r} : stage'[q] = stage[q]
    BY <1>4, GoKeeps, StagesType DEF Enter
  <2>2. \A q \in Requests \ {r} : credential'[q] = credential[q]
    BY <1>4 DEF TypeOK, Enter
  <2>3. PastReserve' \in SUBSET PastReserve
    BY <2>1, <2>2, AdmittedType DEF PastReserve, Anonymous
  <2>4. QED BY <2>3, PastReserveShrinks
<1>5. ASSUME NEW r \in Requests, Disconnect(r)
      PROVE  ReserveInv'
  BY <1>5 DEF ReserveInv, PastReserve, Anonymous, Disconnect
<1>6. ASSUME NEW r \in Requests, CheckReserve(r)
      PROVE  ReserveInv'
  <2>1. CASE AuthConfigured /\ credential[r] = "none" /\ ~(available <= Reserved)
    BY <1>6, <2>1, LetByReserve
  <2>2. CASE AuthConfigured /\ credential[r] = "none" /\ available <= Reserved
    <3>1. Go(r, "unslot") /\ credential' = credential
      BY <1>6, <2>2 DEF CheckReserve
    <3>2. QED BY <1>2, <3>1, StagesType, AdmittedType
  <2>3. CASE AuthConfigured /\ credential[r] # "none"
    <3>1. PastReserve' \in SUBSET PastReserve
      BY <1>6, <2>3, GoKeeps, StagesType DEF CheckReserve, PastReserve, Anonymous
    <3>2. QED BY <3>1, PastReserveShrinks
  <2>4. CASE ~AuthConfigured
    BY <2>4 DEF ReserveInv
  <2>5. QED BY <2>1, <2>2, <2>3, <2>4
<1>7. ASSUME NEW r \in Requests, Gates(r)
      PROVE  ReserveInv'
  BY <1>2, <1>3, <1>6, <1>7, StagesType, AdmittedType
  DEF Gates, ReadPressure, SlotUncounted, AcquireSlot, SlotRefused, Authenticate,
      AnsweredWithoutWork, TakePermit, PoolBusy, HeadersRefused, Spawn, ReturnEarly, At
<1>8. ASSUME NEW r \in Requests, Work(r)
      PROVE  ReserveInv'
  BY <1>2, <1>3, <1>8, StagesType, AdmittedType DEF Work, StartWork, WorkEnds, PermitBack, At
<1>9. QED BY <1>1, <1>4, <1>5, <1>7, <1>8 DEF Next

ReserveAccounted == TypeOK /\ PermitsAccounted /\ WorkersBounded /\ ReserveInv

LEMMA ReserveStart == Init => WorkersBounded /\ ReserveInv
<1> SUFFICES ASSUME Init
             PROVE  WorkersBounded /\ ReserveInv
  OBVIOUS
<1>1. Running = {} /\ PastReserve = {}
  BY WhereItRuns, AdmittedType DEF Init, Running, PastReserve, Anonymous
<1>2. Cardinality(Running) = 0 /\ Cardinality(PastReserve) = 0
  BY <1>1, FS_EmptySet
<1>3. QED BY <1>2, NumbersAssumption DEF WorkersBounded, ReserveInv

LEMMA ReserveAlwaysAccounted == Spec => []ReserveAccounted
<1>1. ReserveAccounted /\ [Next]_vars => (WorkersBounded /\ ReserveInv)'
  BY WorkersKept, ReserveKept DEF ReserveAccounted
<1>2. TypeOK /\ PermitsAccounted /\ WorkersBounded /\ ReserveInv <=> ReserveAccounted
  BY DEF ReserveAccounted
<1>3. QED BY <1>1, <1>2, ReserveStart, TypeCorrect, PermitsAlwaysAccounted, PTL DEF Spec

LEMMA OvershootFollows == ReserveAccounted => OvershootBounded
<1> SUFFICES ASSUME ReserveAccounted, AuthConfigured
             PROVE  Cardinality(Holders \cap Anonymous) + Reserved + 1 <= MAX_DB_CONNS + Workers
  BY DEF OvershootBounded
<1>1. Holders \cap Anonymous \in SUBSET PastReserve /\ PastReserve \in SUBSET Requests
  BY DEF ReserveAccounted, PermitsAccounted, PaidStages, Admitted, Holders, PastReserve, Anonymous
<1>2. /\ Cardinality(Holders \cap Anonymous) \in Nat /\ Cardinality(PastReserve) \in Nat
      /\ Cardinality(Holders \cap Anonymous) <= Cardinality(PastReserve)
  BY <1>1, FewerRequests
<1>3. QED BY <1>2, NumbersAssumption DEF ReserveAccounted, ReserveInv

\* However many requests without an identity look at the reserve at once, they
\* take no more of it than there are other workers to run them.
THEOREM OvershootAlwaysBounded == Spec => []OvershootBounded
BY ReserveAlwaysAccounted, OvershootFollows, PTL

\* A token is turned away from an empty pool only while other tokens hold the
\* reserve, up to the same overshoot.
THEOREM TokensRefusedOnlyByPeers == Spec => RefusedOnlyByPeers
<1>1. ASSUME ReserveAccounted, NEW r \in Requests, AuthConfigured, PoolBusy(r)
      PROVE  Cardinality(Holders \ Anonymous) + Workers >= Reserved + 1
  <2>1. Holders \in SUBSET Requests
    BY DEF Holders
  <2>2. IsFiniteSet(Holders) /\ IsFiniteSet(Holders \ Anonymous) /\ IsFiniteSet(Holders \cap Anonymous)
    BY <2>1, RequestsAssumption, FS_Subset, FS_Difference, FS_Intersection
  <2>3. /\ Cardinality(Holders) \in Nat
        /\ Cardinality(Holders \ Anonymous) \in Nat
        /\ Cardinality(Holders \cap Anonymous) \in Nat
    BY <2>2, FS_CardinalityType
  <2>4. Cardinality(Holders \ Anonymous) = Cardinality(Holders) - Cardinality(Holders \cap Anonymous)
    BY <2>2, FS_Difference
  <2>5. available = 0 /\ available + Cardinality(Holders) = MAX_DB_CONNS
    BY <1>1 DEF ReserveAccounted, PermitsAccounted, PoolBusy
  <2>6. Cardinality(Holders \cap Anonymous) + Reserved + 1 <= MAX_DB_CONNS + Workers
    BY <1>1, OvershootFollows DEF OvershootBounded
  <2>7. QED BY <2>3, <2>4, <2>5, <2>6, NumbersAssumption
<1>2. ReserveAccounted =>
        [\A r \in Requests :
           AuthConfigured /\ credential[r] = "token" /\ PoolBusy(r)
             => Cardinality(Holders \ Anonymous) + Workers >= Reserved + 1]_vars
  BY <1>1
<1>3. QED BY <1>2, ReserveAlwaysAccounted, PTL DEF RefusedOnlyByPeers

-----------------------------------------------------------------------------
(* Slots                                                                   *)

GuardsOf(c) == {r \in Requests : slot[r] = c}
NoSlotStages == {"done", "pressure", "slot", "permit"}

LEMMA NoSlotStagesType ==
  /\ "done" \in NoSlotStages /\ "pressure" \in NoSlotStages /\ "slot" \in NoSlotStages
  /\ "permit" \in NoSlotStages
  /\ "auth" \notin NoSlotStages /\ "reserve" \notin NoSlotStages /\ "pool" \notin NoSlotStages
  /\ "headers" \notin NoSlotStages /\ "queued" \notin NoSlotStages
  /\ "working" \notin NoSlotStages /\ "unslot" \notin NoSlotStages
BY DEF NoSlotStages

\* A handler has no guard before acquire_slot_capped and none after its drop.
SlotsWhere == \A r \in Requests : stage[r] \in NoSlotStages => slot[r] = NoClient

SlotsInv == SlotsWhere /\ SlotsExact

LEMMA GuardsSame ==
  ASSUME TypeOK, SlotsInv, NEW r \in Requests, UNCHANGED <<slot, IN_FLIGHT>>,
         \A q \in Requests \ {r} : stage'[q] = stage[q],
         stage'[r] \in NoSlotStages => stage[r] \in NoSlotStages
  PROVE  SlotsInv'
<1>1. SlotsWhere'
  BY DEF SlotsInv, SlotsWhere
<1>2. SlotsExact'
  BY DEF SlotsInv, SlotsExact, InFlightOf
<1>3. QED BY <1>1, <1>2 DEF SlotsInv

LEMMA OneGuard ==
  ASSUME NEW r \in Requests, TypeOK, NEW c \in Clients, NEW v \in Clients \cup {NoClient},
         slot' = [slot EXCEPT ![r] = v]
  PROVE  /\ Cardinality(GuardsOf(c)) \in Nat /\ Cardinality(GuardsOf(c)') \in Nat
         /\ slot[r] # c /\ v = c => Cardinality(GuardsOf(c)') = Cardinality(GuardsOf(c)) + 1
         /\ slot[r] = c /\ v # c => Cardinality(GuardsOf(c)) = Cardinality(GuardsOf(c)') + 1
         /\ (slot[r] = c <=> v = c) => Cardinality(GuardsOf(c)') = Cardinality(GuardsOf(c))
<1>1. slot'[r] = v /\ \A q \in Requests \ {r} : slot'[q] = slot[q]
  BY DEF TypeOK
<1>2. /\ GuardsOf(c) \in SUBSET Requests /\ GuardsOf(c)' \in SUBSET Requests
      /\ \A q \in Requests \ {r} : q \in GuardsOf(c)' <=> q \in GuardsOf(c)
      /\ r \in GuardsOf(c) <=> slot[r] = c
      /\ r \in GuardsOf(c)' <=> v = c
  BY <1>1 DEF GuardsOf
<1>3. QED BY <1>2, OneChanges

LEMMA GuardTaken ==
  ASSUME TypeOK, ClientKnown, SlotsInv, NEW r \in Requests, AcquireSlot(r)
  PROVE  SlotsInv'
<1>1. slot[r] = NoClient
  BY NoSlotStagesType DEF SlotsInv, SlotsWhere, AcquireSlot, At
<1>2. client[r] \in Clients
  BY DEF ClientKnown, AcquireSlot, At
<1>3. slot' = [slot EXCEPT ![r] = client[r]]
  BY DEF AcquireSlot
<1>4. SlotsWhere'
  <2>1. stage'[r] = "auth" /\ \A q \in Requests \ {r} : stage'[q] = stage[q]
    BY GoKeeps, StagesType DEF AcquireSlot
  <2>2. \A q \in Requests \ {r} : slot'[q] = slot[q]
    BY <1>3 DEF TypeOK
  <2>3. QED BY <2>1, <2>2, NoSlotStagesType DEF SlotsInv, SlotsWhere
<1>5. SlotsExact'
  <2>1. ASSUME NEW c \in Clients
        PROVE  InFlightOf(c)' = Cardinality(GuardsOf(c)')
    <3>1. InFlightOf(c) = Cardinality(GuardsOf(c))
      BY DEF SlotsInv, SlotsExact, GuardsOf
    <3>2. InFlightOf(c)' = IF c = client[r] THEN InFlightOf(c) + 1 ELSE InFlightOf(c)
      BY DEF AcquireSlot, Counting, InFlightOf
    <3>3. Cardinality(GuardsOf(c)')
            = IF c = client[r] THEN Cardinality(GuardsOf(c)) + 1 ELSE Cardinality(GuardsOf(c))
      BY <1>1, <1>2, <1>3, ClientsAssumption, OneGuard
    <3>4. QED BY <3>1, <3>2, <3>3
  <2>2. QED BY <2>1 DEF SlotsExact, GuardsOf
<1>6. QED BY <1>4, <1>5 DEF SlotsInv

LEMMA GuardDropped ==
  ASSUME TypeOK, SlotsInv, NEW r \in Requests, DropSlot(r)
  PROVE  SlotsExact'
<1>1. ASSUME NEW c \in Clients
      PROVE  InFlightOf(c)' = Cardinality(GuardsOf(c)')
  <2>1. InFlightOf(c) = Cardinality(GuardsOf(c))
    BY DEF SlotsInv, SlotsExact, GuardsOf
  <2>2. slot' = [slot EXCEPT ![r] = NoClient]
    BY DEF DropSlot
  <2>3. /\ Cardinality(GuardsOf(c)) \in Nat /\ Cardinality(GuardsOf(c)') \in Nat
        /\ slot[r] = c => Cardinality(GuardsOf(c)) = Cardinality(GuardsOf(c)') + 1
        /\ slot[r] # c => Cardinality(GuardsOf(c)') = Cardinality(GuardsOf(c))
    BY <2>2, OneGuard, ClientsAssumption
  <2>4. CASE slot[r] # c
    <3>1. InFlightOf(c)' = InFlightOf(c)
      <4>1. CASE slot[r] \notin DOMAIN IN_FLIGHT
        BY <4>1 DEF DropSlot, InFlightOf
      <4>2. CASE slot[r] \in DOMAIN IN_FLIGHT /\ IN_FLIGHT[slot[r]] <= 1
        <5>1. IN_FLIGHT' = Restrict(IN_FLIGHT, DOMAIN IN_FLIGHT \ {slot[r]})
          BY <4>2 DEF DropSlot
        <5>2. QED BY <2>4, <5>1 DEF InFlightOf, Restrict
      <4>3. CASE slot[r] \in DOMAIN IN_FLIGHT /\ ~(IN_FLIGHT[slot[r]] <= 1)
        <5>1. IN_FLIGHT' = [IN_FLIGHT EXCEPT ![slot[r]] = @ - 1]
          BY <4>3 DEF DropSlot
        <5>2. QED BY <2>4, <5>1 DEF InFlightOf
      <4>4. QED BY <4>1, <4>2, <4>3
    <3>2. QED BY <2>1, <2>3, <2>4, <3>1
  <2>5. CASE slot[r] = c
    <3>1. c \in DOMAIN IN_FLIGHT /\ IN_FLIGHT[c] = Cardinality(GuardsOf(c)') + 1
      BY <2>1, <2>3, <2>5 DEF InFlightOf
    <3>2. CASE IN_FLIGHT[c] <= 1
      <4>1. IN_FLIGHT' = Restrict(IN_FLIGHT, DOMAIN IN_FLIGHT \ {c})
        BY <2>5, <3>1, <3>2 DEF DropSlot
      <4>2. InFlightOf(c)' = 0
        BY <4>1 DEF InFlightOf, Restrict
      <4>3. QED BY <2>3, <3>1, <3>2, <4>2
    <3>3. CASE ~(IN_FLIGHT[c] <= 1)
      <4>1. IN_FLIGHT' = [IN_FLIGHT EXCEPT ![c] = @ - 1]
        BY <2>5, <3>1, <3>3 DEF DropSlot
      <4>2. InFlightOf(c)' = IN_FLIGHT[c] - 1
        BY <3>1, <4>1 DEF InFlightOf
      <4>3. QED BY <2>3, <3>1, <4>2
    <3>4. QED BY <3>2, <3>3
  <2>6. QED BY <2>4, <2>5
<1>2. QED BY <1>1 DEF SlotsExact, GuardsOf

LEMMA GuardReturned ==
  ASSUME TypeOK, SlotsInv, NEW r \in Requests, ReturnEarly(r) \/ WorkEnds(r)
  PROVE  SlotsInv'
<1>1. DropSlot(r)
  BY DEF ReturnEarly, WorkEnds
<1>2. slot'[r] = NoClient /\ \A q \in Requests \ {r} : slot'[q] = slot[q]
  BY <1>1 DEF TypeOK, DropSlot
<1>3. \A q \in Requests \ {r} : stage'[q] = stage[q]
  BY GoKeeps, LeaveKeeps, StagesType DEF ReturnEarly, WorkEnds
<1>4. SlotsWhere'
  BY <1>2, <1>3 DEF SlotsInv, SlotsWhere
<1>5. QED BY <1>1, <1>4, GuardDropped DEF SlotsInv

LEMMA SlotsKept == TypeOK /\ ClientKnown /\ SlotsInv /\ [Next]_vars => SlotsInv'
<1> SUFFICES ASSUME TypeOK, ClientKnown, SlotsInv, [Next]_vars
             PROVE  SlotsInv'
  OBVIOUS
<1>1. CASE UNCHANGED vars
  BY <1>1 DEF SlotsInv, SlotsWhere, SlotsExact, InFlightOf, vars, task
<1>2. ASSUME NEW r \in Requests, NEW there \in Stages, Go(r, there),
             there \in NoSlotStages => stage[r] \in NoSlotStages,
             UNCHANGED <<slot, IN_FLIGHT>>
      PROVE  SlotsInv'
  BY <1>2, GoKeeps, GuardsSame
<1>3. ASSUME NEW r \in Requests, Leave(r), stage[r] \in NoSlotStages, UNCHANGED <<slot, IN_FLIGHT>>
      PROVE  SlotsInv'
  BY <1>3, LeaveKeeps, GuardsSame
<1>4. ASSUME NEW r \in Requests, NEW c \in Clients, NEW cred \in Credentials, Enter(r, c, cred)
      PROVE  SlotsInv'
  BY <1>2, <1>4, StagesType, NoSlotStagesType DEF Enter, At
<1>5. ASSUME NEW r \in Requests, Disconnect(r)
      PROVE  SlotsInv'
  BY <1>5, GuardsSame DEF Disconnect
<1>6. ASSUME NEW r \in Requests, Gates(r)
      PROVE  SlotsInv'
  <2>1. CASE SlotRefused(r)
    BY <1>3, <2>1, NoSlotStagesType DEF SlotRefused, At
  <2>2. CASE AcquireSlot(r) \/ ReturnEarly(r)
    BY <2>2, GuardTaken, GuardReturned
  <2>3. CASE \/ ReadPressure(r) \/ SlotUncounted(r) \/ Authenticate(r) \/ CheckReserve(r)
             \/ AnsweredWithoutWork(r) \/ TakePermit(r) \/ PoolBusy(r) \/ HeadersRefused(r)
             \/ Spawn(r)
    BY <1>2, <2>3, StagesType, NoSlotStagesType
    DEF ReadPressure, SlotUncounted, Authenticate, CheckReserve, AnsweredWithoutWork,
        TakePermit, PoolBusy, HeadersRefused, Spawn, At
  <2>4. QED BY <1>6, <2>1, <2>2, <2>3 DEF Gates
<1>7. ASSUME NEW r \in Requests, Work(r)
      PROVE  SlotsInv'
  BY <1>2, <1>3, <1>7, GuardReturned, StagesType, NoSlotStagesType
  DEF Work, StartWork, PermitBack, At
<1>8. QED BY <1>1, <1>4, <1>5, <1>6, <1>7 DEF Next

LEMMA SlotsStart == Init => SlotsInv
<1> SUFFICES ASSUME Init
             PROVE  SlotsInv
  OBVIOUS
<1>1. ASSUME NEW c \in Clients
      PROVE  InFlightOf(c) = Cardinality({r \in Requests : slot[r] = c})
  <2>1. {r \in Requests : slot[r] = c} = {}
    BY ClientsAssumption DEF Init
  <2>2. InFlightOf(c) = 0
    BY DEF Init, InFlightOf
  <2>3. QED BY <2>1, <2>2, FS_EmptySet
<1>2. SlotsWhere
  BY DEF Init, SlotsWhere
<1>3. QED BY <1>1, <1>2 DEF SlotsInv, SlotsExact

LEMMA SlotsAlways == Spec => []SlotsInv
BY SlotsStart, SlotsKept, TypedAndKnown, PTL DEF Spec

\* The in-flight map counts the guards that are alive, for every client.
THEOREM SlotsAlwaysExact == Spec => []SlotsExact
<1>1. SlotsInv => SlotsExact
  BY DEF SlotsInv
<1>2. QED BY <1>1, SlotsAlways, PTL

\* The cap a handler has read is never above the configured one.
CapsRead == \A r \in Requests : MaxInFlight > 0 => cap[r] <= MaxInFlight

LEMMA CapsKept == TypeOK /\ CapsRead /\ [Next]_vars => CapsRead'
<1> SUFFICES ASSUME TypeOK, CapsRead, [Next]_vars
             PROVE  CapsRead'
  OBVIOUS
<1>1. CASE UNCHANGED cap
  BY <1>1 DEF CapsRead
<1>2. ASSUME NEW r \in Requests, NEW n \in Nat, cap' = [cap EXCEPT ![r] = n],
             MaxInFlight > 0 => n <= MaxInFlight
      PROVE  CapsRead'
  BY <1>2 DEF TypeOK, CapsRead
<1>3. ASSUME NEW r \in Requests, ReadPressure(r)
      PROVE  CapsRead'
  <2> DEFINE n == IF available <= MAX_DB_CONNS \div 4 THEN 1 ELSE MaxInFlight
  <2>1. n \in Nat /\ (MaxInFlight > 0 => n <= MaxInFlight)
    BY NumbersAssumption
  <2>2. cap' = [cap EXCEPT ![r] = n]
    BY <1>3 DEF ReadPressure
  <2> HIDE DEF n
  <2>3. QED BY <1>2, <2>1, <2>2
<1>4. ASSUME NEW r \in Requests, Leave(r)
      PROVE  CapsRead'
  <2>1. cap' = [cap EXCEPT ![r] = 0]
    BY <1>4 DEF Leave
  <2>2. 0 \in Nat /\ (MaxInFlight > 0 => 0 <= MaxInFlight)
    <3>1. MaxInFlight \in Nat
      BY NumbersAssumption
    <3>2. QED BY <3>1
  <2>3. QED BY <1>2, <2>1, <2>2
<1>5. ASSUME NEW r \in Requests, Gates(r) \/ Work(r)
      PROVE  CapsRead'
  BY <1>1, <1>3, <1>4, <1>5
  DEF Gates, Work, SlotUncounted, AcquireSlot, SlotRefused, Authenticate, CheckReserve,
      AnsweredWithoutWork, TakePermit, PoolBusy, HeadersRefused, Spawn, ReturnEarly,
      StartWork, WorkEnds, PermitBack
<1>6. QED BY <1>1, <1>5 DEF Next, Enter, Disconnect, vars, task

CappedInv == TypeOK /\ ClientKnown /\ SlotsInv /\ CapsRead /\ ClientCapped

LEMMA CappedKept == CappedInv /\ [Next]_vars => ClientCapped'
<1> SUFFICES ASSUME CappedInv, [Next]_vars, MaxInFlight > 0, NEW c \in Clients
             PROVE  Cardinality(GuardsOf(c)') <= MaxInFlight
  BY DEF ClientCapped, GuardsOf
<1>1. Cardinality(GuardsOf(c)) <= MaxInFlight /\ InFlightOf(c) = Cardinality(GuardsOf(c))
  BY DEF CappedInv, ClientCapped, SlotsInv, SlotsExact, GuardsOf
<1>2. CASE UNCHANGED slot
  BY <1>1, <1>2 DEF GuardsOf
<1>3. ASSUME NEW r \in Requests, AcquireSlot(r)
      PROVE  Cardinality(GuardsOf(c)') <= MaxInFlight
  <2>1. slot[r] = NoClient /\ client[r] \in Clients
    BY <1>3, NoSlotStagesType DEF CappedInv, ClientKnown, SlotsInv, SlotsWhere, AcquireSlot, At
  <2>2. /\ Cardinality(GuardsOf(c)) \in Nat /\ Cardinality(GuardsOf(c)') \in Nat
        /\ client[r] = c => Cardinality(GuardsOf(c)') = Cardinality(GuardsOf(c)) + 1
        /\ client[r] # c => Cardinality(GuardsOf(c)') = Cardinality(GuardsOf(c))
    BY <1>3, <2>1, OneGuard, ClientsAssumption DEF CappedInv, AcquireSlot
  <2>3. client[r] = c => InFlightOf(c) < cap[r]
    BY <1>3 DEF AcquireSlot
  <2>4. cap[r] \in Nat /\ cap[r] <= MaxInFlight
    BY DEF CappedInv, TypeOK, CapsRead
  <2>5. QED BY <1>1, <2>2, <2>3, <2>4, NumbersAssumption
<1>4. ASSUME NEW r \in Requests, DropSlot(r)
      PROVE  Cardinality(GuardsOf(c)') <= MaxInFlight
  <2>1. /\ Cardinality(GuardsOf(c)) \in Nat /\ Cardinality(GuardsOf(c)') \in Nat
        /\ Cardinality(GuardsOf(c)') <= Cardinality(GuardsOf(c))
    <3>1. slot' = [slot EXCEPT ![r] = NoClient] /\ TypeOK
      BY <1>4 DEF CappedInv, DropSlot
    <3>2. /\ Cardinality(GuardsOf(c)) \in Nat /\ Cardinality(GuardsOf(c)') \in Nat
          /\ slot[r] = c => Cardinality(GuardsOf(c)) = Cardinality(GuardsOf(c)') + 1
          /\ slot[r] # c => Cardinality(GuardsOf(c)') = Cardinality(GuardsOf(c))
      BY <3>1, OneGuard, ClientsAssumption
    <3>3. QED BY <3>2
  <2>2. QED BY <1>1, <2>1, NumbersAssumption
<1>5. ASSUME NEW r \in Requests, Gates(r) \/ Work(r)
      PROVE  Cardinality(GuardsOf(c)') <= MaxInFlight
  BY <1>2, <1>3, <1>4, <1>5
  DEF Gates, Work, ReadPressure, SlotUncounted, SlotRefused, Authenticate, CheckReserve,
      AnsweredWithoutWork, TakePermit, PoolBusy, HeadersRefused, Spawn, ReturnEarly,
      StartWork, WorkEnds, PermitBack
<1>6. QED BY <1>2, <1>5 DEF Next, Enter, Disconnect, vars, task

LEMMA CappedStart == Init => CapsRead /\ ClientCapped
<1> SUFFICES ASSUME Init
             PROVE  CapsRead /\ ClientCapped
  OBVIOUS
<1>1. CapsRead
  BY NumbersAssumption DEF Init, CapsRead
<1>2. ASSUME NEW c \in Clients, MaxInFlight > 0
      PROVE  Cardinality({r \in Requests : slot[r] = c}) <= MaxInFlight
  <2>1. {r \in Requests : slot[r] = c} = {}
    BY ClientsAssumption DEF Init
  <2>2. Cardinality({r \in Requests : slot[r] = c}) = 0
    BY <2>1, FS_EmptySet
  <2>3. QED BY <1>2, <2>2, NumbersAssumption
<1>3. QED BY <1>1, <1>2 DEF ClientCapped

\* The per-client cap holds although the pool is looked at before the map is
\* locked: what was read is stale at worst, never above the configured cap.
THEOREM ClientAlwaysCapped == Spec => []ClientCapped
<1>1. CappedInv <=> (TypeOK /\ ClientKnown) /\ SlotsInv /\ CapsRead /\ ClientCapped
  BY DEF CappedInv
<1>2. QED BY <1>1, CappedStart, CappedKept, CapsKept, TypedAndKnown, SlotsAlways, PTL DEF Spec
=============================================================================
