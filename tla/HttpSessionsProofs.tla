-------------------------- MODULE HttpSessionsProofs --------------------------
(***************************************************************************)
(* No revision, identity or ended session crosses from one request to      *)
(* another, for any number of clients, threads, sessions and revisions.    *)
(***************************************************************************)
EXTENDS HttpSessions, FiniteSetTheorems, TLAPS

-----------------------------------------------------------------------------
(* The invariant.                                                            *)

Clean(t) == REQUEST_REV[t] = NoRev /\ scopes[t] = <<>> /\ CALLER[t] = Nobody

\* Thread t works for request r alone: its scopes will restore what a clean thread has.
Serves(t, r) ==
  /\ scopes[t] # <<>> /\ Head(scopes[t]) = NoRev
  /\ CALLER[t] = r
  /\ REQUEST_REV[t] = rev[r] /\ rev[r] \in Revs

Work ==
  /\ \A r \in Clients : thread[r] # NoThread <=> At(r, "execute")
  /\ \A r, q \in Clients : thread[r] # NoThread /\ thread[r] = thread[q] => r = q
  /\ \A r \in Clients : thread[r] # NoThread => Serves(thread[r], r)
  /\ \A t \in Threads : (\A r \in Clients : thread[r] # t) => Clean(t)

\* The revision a request may be answered under, when it is x.
Agreed(m, x) ==
  LET stated == Or(m.meta, m.header) IN
    IF stated # NoRev THEN x = stated
    ELSE IF m.sid = NoId THEN x = Oldest
    ELSE x \in agreed[m.sid]

Contract ==
  /\ \A s \in DOMAIN sessions : sessions[s].rev \in agreed[s]
  /\ \A r \in Clients : message[r].sid \in issued \cup {NoId}
  /\ \A r \in Clients : At(r, "gates") =>
       IF message[r].sid = NoId THEN session_rev[r] = NoRev
                                ELSE session_rev[r] \in agreed[message[r].sid]
  /\ \A r \in Clients : At(r, "execute") => Agreed(message[r], rev[r])

Table ==
  /\ IsFiniteSet(DOMAIN sessions) /\ Cardinality(DOMAIN sessions) <= MAX_SESSIONS
  /\ ended \cap DOMAIN sessions = {}

Inv == TypeOK /\ Work /\ Contract /\ Table /\ misnamed = {}

Agreements == [Ids -> SUBSET Revs]

LEMMA InvInit == Init => Inv
<1> SUFFICES ASSUME Init PROVE Inv
  OBVIOUS
<1>1. Nothing \in Messages
  BY DEF Nothing, Messages, Methods
<1>2. DOMAIN sessions = {}
  BY DEF Init
<1>3. TypeOK
  <2>1. /\ stage \in [Clients -> Stages] /\ message \in [Clients -> Messages]
        /\ session_rev \in [Clients -> Revs \cup {NoRev}]
        /\ thread \in [Clients -> BlockingThreads \cup {NoThread}]
        /\ rev \in [Clients -> Revs \cup {NoRev}]
    BY <1>1 DEF Init, Stages
  <2>2. connected \in [Clients -> BOOLEAN]
    BY DEF Init
  <2>3. /\ SESSION_REV \in Revs \cup {NoRev} /\ REQUEST_REV \in [Threads -> Revs \cup {NoRev}]
        /\ CALLER \in [Threads -> Clients \cup {Nobody}]
    BY DEF Init
  <2>4. scopes \in [Threads -> Seq(Revs \cup {NoRev})]
    BY DEF Init
  <2>5. issued \subseteq Ids /\ ended \subseteq issued /\ agreed \in [Ids -> SUBSET Revs]
        /\ misnamed \subseteq Records
    BY DEF Init
  <2> QED
    BY <1>2, <2>1, <2>2, <2>3, <2>4, <2>5 DEF TypeOK
<1>4. Work
  <2>1. \A t \in Threads : Clean(t)
    BY DEF Init, Clean
  <2>2. \A r \in Clients : thread[r] = NoThread /\ stage[r] = "done"
    BY DEF Init
  <2> QED
    BY <2>1, <2>2 DEF Work, At
<1>5. Contract
  BY <1>2 DEF Init, Contract, At, Nothing
<1>6. Table
  BY <1>2, FS_EmptySet, LimitAssumption DEF Init, Table
<1> QED
  BY <1>3, <1>4, <1>5, <1>6 DEF Inv, Init

-----------------------------------------------------------------------------
(* One request moves, the others stay.                                       *)

RequestTypes ==
  /\ stage \in [Clients -> Stages]
  /\ message \in [Clients -> Messages]
  /\ session_rev \in [Clients -> Revs \cup {NoRev}]
  /\ thread \in [Clients -> BlockingThreads \cup {NoThread}]
  /\ connected \in [Clients -> BOOLEAN]
  /\ rev \in [Clients -> Revs \cup {NoRev}]

LocalTypes ==
  /\ REQUEST_REV \in [Threads -> Revs \cup {NoRev}]
  /\ scopes \in [Threads -> Seq(Revs \cup {NoRev})]
  /\ CALLER \in [Threads -> Clients \cup {Nobody}]

TableTypes ==
  /\ DOMAIN sessions \subseteq issued
  /\ \A s \in DOMAIN sessions : sessions[s] \in Entries
  /\ issued \subseteq Ids /\ ended \subseteq issued
  /\ agreed \in [Ids -> SUBSET Revs]

OthersStay(r) ==
  \A q \in Clients \ {r} :
    /\ stage'[q] = stage[q] /\ message'[q] = message[q] /\ session_rev'[q] = session_rev[q]
    /\ thread'[q] = thread[q] /\ rev'[q] = rev[q]

LEMMA LeaveFacts ==
  ASSUME TypeOK, NEW r \in Clients, Leave(r)
  PROVE  /\ RequestTypes' /\ OthersStay(r)
         /\ stage'[r] = "done" /\ message'[r].sid = NoId /\ thread'[r] = NoThread
<1>1. Nothing \in Messages /\ Nothing.sid = NoId
  BY DEF Nothing, Messages, Methods
<1>2. RequestTypes'
  BY <1>1 DEF TypeOK, RequestTypes, Leave, Stages
<1>3. OthersStay(r)
  BY DEF TypeOK, OthersStay, Leave
<1>4. stage'[r] = "done" /\ message'[r] = Nothing /\ thread'[r] = NoThread
  BY DEF TypeOK, Leave
<1> QED
  BY <1>1, <1>2, <1>3, <1>4

\* A request that is not executed leaves or goes on, and the threads stay as they are.
LEMMA IdleMoveKeepsWork ==
  ASSUME Inv, NEW r \in Clients, ~At(r, "execute"), OthersStay(r), thread'[r] = NoThread,
         stage'[r] # "execute", UNCHANGED <<REQUEST_REV, scopes, CALLER>>
  PROVE  Work'
<1>1. thread[r] = NoThread
  BY DEF Inv, Work
<1>2. \A q \in Clients : thread'[q] = thread[q] /\ (At(q, "execute")' <=> At(q, "execute"))
  BY <1>1 DEF OthersStay, At
<1>3. \A q \in Clients : thread[q] # NoThread => rev'[q] = rev[q]
  BY <1>1 DEF OthersStay
<1> QED
  BY <1>2, <1>3 DEF Inv, Work, Serves, Clean

\* Its message, if it has one still, is of a session that was issued.
LEMMA MoveKeepsContract ==
  ASSUME Inv, NEW r \in Clients, OthersStay(r), UNCHANGED <<sessions, issued, agreed>>,
         message'[r].sid \in issued \cup {NoId}, stage'[r] \in {"done", "settle"}
  PROVE  Contract'
<1>1. \A q \in Clients \ {r} :
        /\ message'[q] = message[q] /\ session_rev'[q] = session_rev[q] /\ rev'[q] = rev[q]
        /\ At(q, "gates")' <=> At(q, "gates")
        /\ At(q, "execute")' <=> At(q, "execute")
  BY DEF OthersStay, At
<1>2. ~At(r, "gates")' /\ ~At(r, "execute")'
  BY DEF At
<1> QED
  BY <1>1, <1>2 DEF Inv, Contract, Agreed

\* A request that gets no further.
LEMMA GoneKeepsInv ==
  ASSUME Inv, NEW r \in Clients, ~At(r, "execute"), Leave(r), LocalTypes',
         UNCHANGED <<sessions, SESSION_REV, REQUEST_REV, scopes, CALLER, issued, ended, agreed, misnamed>>
  PROVE  Inv'
<1>1. /\ RequestTypes' /\ OthersStay(r)
      /\ stage'[r] = "done" /\ message'[r].sid = NoId /\ thread'[r] = NoThread
  BY LeaveFacts DEF Inv
<1>2. Work' /\ Contract'
  BY <1>1, IdleMoveKeepsWork, MoveKeepsContract
<1>3. TypeOK'
  BY <1>1 DEF Inv, TypeOK, RequestTypes, LocalTypes
<1> QED
  BY <1>2, <1>3 DEF Inv, Table

LEMMA TurnAwayKeepsInv ==
  ASSUME Inv, NEW r \in Clients, TurnAway(r)
  PROVE  Inv'
<1>1. /\ ~At(r, "execute") /\ Leave(r)
      /\ UNCHANGED <<sessions, SESSION_REV, REQUEST_REV, scopes, CALLER, issued, ended, agreed, misnamed>>
  BY DEF TurnAway, At, locals, history
<1>2. LocalTypes'
  BY <1>1 DEF Inv, TypeOK, LocalTypes
<1> QED
  BY <1>1, <1>2, GoneKeepsInv

\* A thread of the runtime never works for a request, so it is clean.
LEMMA WorkerIsClean ==
  ASSUME Inv, NEW w \in Workers
  PROVE  Clean(w) /\ w \in Threads
  BY ThreadsAssumption DEF Inv, TypeOK, Work, Threads

LEMMA RefuseUnnamedKeepsInv ==
  ASSUME Inv, NEW r \in Clients, NEW w \in Workers, RefuseUnnamed(r, w)
  PROVE  Inv'
<1>1. /\ ~At(r, "execute") /\ Leave(r)
      /\ UNCHANGED <<sessions, SESSION_REV, REQUEST_REV, scopes, CALLER, issued, ended, agreed>>
  BY DEF RefuseUnnamed, At, locals, history
<1>2. LocalTypes'
  BY <1>1 DEF Inv, TypeOK, LocalTypes
<1>3. Misnamed(Nobody, CALLER[w]) = {}
  BY WorkerIsClean DEF Clean, Misnamed
<1>4. misnamed' = misnamed
  BY <1>3 DEF RefuseUnnamed
<1> QED
  BY <1>1, <1>2, <1>4, GoneKeepsInv

LEMMA RefuseNamedKeepsInv ==
  ASSUME Inv, NEW r \in Clients, NEW w \in Workers, RefuseNamed(r, w)
  PROVE  Inv'
<1>1. CALLER[w] = Nobody /\ w \in Threads /\ CALLER \in [Threads -> Clients \cup {Nobody}]
  BY WorkerIsClean DEF Clean, Inv, TypeOK
<1>2. CALLER' = CALLER
  BY <1>1 DEF RefuseNamed
<1>3. /\ ~At(r, "execute") /\ Leave(r)
      /\ UNCHANGED <<sessions, SESSION_REV, REQUEST_REV, scopes, issued, ended, agreed>>
  BY DEF RefuseNamed, At, history
<1>4. LocalTypes'
  BY <1>2, <1>3 DEF Inv, TypeOK, LocalTypes
<1>5. misnamed' = misnamed
  BY DEF RefuseNamed, Misnamed
<1> QED
  BY <1>2, <1>3, <1>4, <1>5, GoneKeepsInv

LEMMA ArriveKeepsInv ==
  ASSUME Inv, NEW r \in Clients, NEW m \in Messages, Arrive(r, m)
  PROVE  Inv'
<1>1. /\ stage[r] = "done" /\ m.sid \in issued \cup {NoId}
      /\ m.sid \in DOMAIN sessions \cup {NoId}
      /\ UNCHANGED <<thread, rev, SESSION_REV, REQUEST_REV, scopes, CALLER, issued, ended, agreed, misnamed>>
  BY DEF Arrive, At, Sent, locals, history
<1>2. /\ DOMAIN sessions' = DOMAIN sessions
      /\ \A s \in DOMAIN sessions : sessions'[s] \in Entries /\ sessions'[s].rev = sessions[s].rev
  BY DEF Arrive, Inv, TypeOK, Entries
<1> DEFINE x == IF m.sid = NoId THEN NoRev ELSE sessions[m.sid].rev
<1>3. x \in Revs \cup {NoRev}
  BY <1>1 DEF Inv, TypeOK, Entries
<1>4. /\ session_rev' = [session_rev EXCEPT ![r] = x]
      /\ message' = [message EXCEPT ![r] = m]
      /\ connected' = [connected EXCEPT ![r] = TRUE]
      /\ stage' = [stage EXCEPT ![r] = "gates"]
  BY DEF Arrive, Go
<1>5. IF m.sid = NoId THEN x = NoRev ELSE x \in agreed[m.sid]
  BY <1>1 DEF Inv, Contract
<1> HIDE DEF x
<1>6. RequestTypes'
  BY <1>1, <1>3, <1>4 DEF Inv, TypeOK, RequestTypes, Stages
<1>7. TypeOK'
  BY <1>1, <1>2, <1>6 DEF Inv, TypeOK, RequestTypes, LocalTypes, TableTypes
<1>8. /\ OthersStay(r) /\ stage'[r] = "gates" /\ message'[r] = m /\ session_rev'[r] = x
  BY <1>1, <1>4 DEF Inv, TypeOK, OthersStay
<1>9. thread[r] = NoThread
  BY <1>1 DEF Inv, Work, At
<1>10. Work'
  BY <1>1, <1>8, <1>9, IdleMoveKeepsWork DEF At
<1>11. Contract'
  <2>1. \A q \in Clients \ {r} :
          /\ message'[q] = message[q] /\ session_rev'[q] = session_rev[q] /\ rev'[q] = rev[q]
          /\ At(q, "gates")' <=> At(q, "gates")
          /\ At(q, "execute")' <=> At(q, "execute")
    BY <1>8 DEF OthersStay, At
  <2>2. ~At(r, "execute")'
    BY <1>8 DEF At
  <2> QED
    BY <1>1, <1>2, <1>5, <1>8, <2>1, <2>2 DEF Inv, Contract, Agreed
<1> QED
  BY <1>1, <1>2, <1>7, <1>10, <1>11 DEF Inv, Table

-----------------------------------------------------------------------------
(* The revision of a request.                                                *)

LEMMA RevsFacts == Oldest \in Revs /\ Latest \in Revs /\ NoRev \notin Revs
  BY RevsAssumption, NamesAssumption

\* rev_for_request finds one the request may be answered under, and the scopes inside
\* find it again.
LEMMA WireRevAgreed ==
  ASSUME Inv, NEW r \in Clients, At(r, "gates")
  PROVE  /\ WireRev(r) \in Revs
         /\ CurrentUnder(Or(message[r].meta, WireRev(r))) = WireRev(r)
         /\ Or(message[r].meta, WireRev(r)) = WireRev(r)
         /\ Agreed(message[r], WireRev(r))
<1> DEFINE m == message[r]
<1>1. /\ m.meta \in Revs \cup {NoRev} /\ m.header \in Revs \cup {NoRev} /\ m.sid \in Ids \cup {NoId}
      /\ session_rev[r] \in Revs \cup {NoRev}
  BY DEF Inv, TypeOK, Messages
<1>2. IF m.sid = NoId THEN session_rev[r] = NoRev ELSE session_rev[r] \in agreed[m.sid]
  BY DEF Inv, Contract
<1>3. m.sid # NoId => session_rev[r] \in Revs
  BY <1>1, <1>2 DEF Inv, TypeOK
<1>4. WireRev(r) \in Revs
  BY <1>1, RevsFacts DEF WireRev, Or
<1>5. Or(m.meta, WireRev(r)) = WireRev(r)
  BY DEF WireRev, Or
<1>6. CurrentUnder(WireRev(r)) = WireRev(r)
  BY <1>4, RevsFacts DEF CurrentUnder, Or
<1>7. Agreed(m, WireRev(r))
  BY <1>1, <1>2, <1>3, RevsFacts DEF Agreed, WireRev, Or
<1> QED
  BY <1>4, <1>5, <1>6, <1>7

LEMMA SpawnKeepsInv ==
  ASSUME Inv, NEW r \in Clients, NEW t \in BlockingThreads, Spawn(r, t)
  PROVE  Inv'
<1> DEFINE m == message[r]
<1> DEFINE x == WireRev(r)
<1>1. /\ At(r, "gates") /\ \A q \in Clients : thread[q] # t
      /\ UNCHANGED <<message, session_rev, connected, sessions, SESSION_REV, issued, ended, agreed, misnamed>>
  BY DEF Spawn, history
<1>2. t \in Threads /\ Clean(t) /\ t # NoThread
  BY <1>1, ThreadsAssumption DEF Inv, Work, Threads
<1>3. /\ x \in Revs /\ CurrentUnder(Or(m.meta, x)) = x /\ Or(m.meta, x) = x /\ Agreed(m, x)
  BY <1>1, WireRevAgreed
<1>4. /\ REQUEST_REV' = [REQUEST_REV EXCEPT ![t] = x]
      /\ scopes' = [scopes EXCEPT ![t] = IF m.meta = NoRev THEN <<NoRev>> ELSE <<NoRev, x>>]
      /\ CALLER' = [CALLER EXCEPT ![t] = r]
      /\ thread' = [thread EXCEPT ![r] = t]
      /\ stage' = [stage EXCEPT ![r] = "execute"]
  BY <1>2, <1>3 DEF Spawn, OpenScopes, Go, Clean
<1> HIDE DEF x
<1>5. /\ REQUEST_REV'[t] = x /\ CALLER'[t] = r /\ thread'[r] = t /\ stage'[r] = "execute"
      /\ scopes'[t] # <<>> /\ Head(scopes'[t]) = NoRev
      /\ \A u \in Threads \ {t} : /\ REQUEST_REV'[u] = REQUEST_REV[u] /\ scopes'[u] = scopes[u]
                                   /\ CALLER'[u] = CALLER[u]
      /\ \A q \in Clients \ {r} : thread'[q] = thread[q] /\ stage'[q] = stage[q]
  BY <1>2, <1>4 DEF Inv, TypeOK
<1>6. rev' = [rev EXCEPT ![r] = x]
  <2>1. rev' = [rev EXCEPT ![r] = CurrentUnder(REQUEST_REV'[t])]
    BY DEF Spawn
  <2>2. CurrentUnder(REQUEST_REV'[t]) = x
    BY <1>3, <1>5
  <2> QED
    BY <2>1, <2>2
<1>7. rev'[r] = x /\ \A q \in Clients \ {r} : rev'[q] = rev[q]
  BY <1>6 DEF Inv, TypeOK
<1>8. RequestTypes'
  BY <1>1, <1>3, <1>4, <1>6 DEF Inv, TypeOK, RequestTypes, Stages
<1>9. LocalTypes'
  <2>1. (IF m.meta = NoRev THEN <<NoRev>> ELSE <<NoRev, x>>) \in Seq(Revs \cup {NoRev})
    <3>1. <<NoRev>> \in Seq(Revs \cup {NoRev}) /\ <<NoRev, x>> \in Seq(Revs \cup {NoRev})
      BY <1>3
    <3> QED
      BY <3>1
  <2>2. scopes' \in [Threads -> Seq(Revs \cup {NoRev})]
    BY <1>2, <1>4, <2>1 DEF Inv, TypeOK
  <2> QED
    BY <1>2, <1>3, <1>4, <2>2 DEF Inv, TypeOK, LocalTypes
<1>10. TypeOK'
  BY <1>1, <1>8, <1>9 DEF Inv, TypeOK, RequestTypes, LocalTypes, TableTypes
<1>11. Work'
  <2>1. \A q \in Clients : thread'[q] # NoThread <=> At(q, "execute")'
    BY <1>2, <1>5 DEF Inv, Work, At
  <2>2. \A p, q \in Clients : thread'[p] # NoThread /\ thread'[p] = thread'[q] => p = q
    BY <1>1, <1>5 DEF Inv, Work
  <2>3. ASSUME NEW q \in Clients, thread'[q] # NoThread
        PROVE  Serves(thread[q], q)'
    <3>1. CASE q = r
      BY <3>1, <1>3, <1>5, <1>7 DEF Serves
    <3>2. CASE q # r
      <4>1. thread'[q] = thread[q] /\ thread[q] \in Threads \ {t}
        BY <3>2, <2>3, <1>1, <1>5 DEF Inv, TypeOK, Threads
      <4> QED
        BY <4>1, <2>3, <3>2, <1>5, <1>7 DEF Serves, Inv, Work
    <3> QED
      BY <3>1, <3>2
  <2>4. ASSUME NEW u \in Threads, \A q \in Clients : thread'[q] # u
        PROVE  Clean(u)'
    <3>1. u # t
      BY <2>4, <1>5
    <3>2. \A q \in Clients : thread[q] # u
      <4>1. thread[r] = NoThread /\ NoThread \notin Threads
        BY <1>1, ThreadsAssumption DEF Inv, Work, At, Threads
      <4> QED
        BY <4>1, <2>4, <1>5
    <3> QED
      BY <3>1, <3>2, <1>5 DEF Clean, Inv, Work
  <2> QED
    BY <2>1, <2>2, <2>3, <2>4 DEF Work
<1>12. Contract'
  <2>1. \A q \in Clients \ {r} :
          /\ rev'[q] = rev[q]
          /\ At(q, "gates")' <=> At(q, "gates")
          /\ At(q, "execute")' <=> At(q, "execute")
    BY <1>5, <1>7 DEF At
  <2>2. ~At(r, "gates")' /\ Agreed(m, rev'[r])
    BY <1>3, <1>5, <1>7 DEF At
  <2> QED
    BY <1>1, <2>1, <2>2 DEF Inv, Contract, Agreed
<1> QED
  BY <1>1, <1>10, <1>11, <1>12 DEF Inv, Table

-----------------------------------------------------------------------------
(* The end of the work.                                                      *)

LEMMA Working ==
  ASSUME Inv, NEW r \in Clients, At(r, "execute")
  PROVE  /\ thread[r] \in Threads /\ thread[r] # NoThread /\ Serves(thread[r], r)
         /\ \A q \in Clients \ {r} : thread[q] # thread[r]
<1>1. thread[r] # NoThread
  BY DEF Inv, Work
<1> QED
  BY <1>1 DEF Inv, Work, TypeOK, Threads

LEMMA EndWorkKeepsInv ==
  ASSUME Inv, NEW r \in Clients, At(r, "execute"), NEW negotiated \in BOOLEAN, EndWork(r, negotiated),
         SESSION_REV' \in Revs \cup {NoRev}, misnamed' = {}
  PROVE  Inv'
<1>1. PICK t \in Threads : /\ t = thread[r] /\ t # NoThread /\ Serves(t, r)
                          /\ \A q \in Clients \ {r} : thread[q] # t
  BY Working
<1>2. UNCHANGED <<sessions, issued, ended, agreed>>
  BY DEF EndWork, history
<1>3. /\ REQUEST_REV' = [REQUEST_REV EXCEPT ![t] = NoRev]
      /\ scopes' = [scopes EXCEPT ![t] = <<>>]
      /\ CALLER' = [CALLER EXCEPT ![t] = Nobody]
  BY <1>1 DEF EndWork, CloseScopes, Serves
<1>4. LocalTypes'
  <2>1. scopes' \in [Threads -> Seq(Revs \cup {NoRev})]
    BY <1>3 DEF Inv, TypeOK
  <2> QED
    BY <1>3, <2>1 DEF Inv, TypeOK, LocalTypes
<1>5. /\ RequestTypes' /\ OthersStay(r) /\ thread'[r] = NoThread /\ stage'[r] \in {"done", "settle"}
      /\ message'[r].sid \in issued \cup {NoId}
  <2>1. CASE Leave(r)
    BY <2>1, LeaveFacts DEF Inv
  <2>2. CASE ~Leave(r)
    <3>1. /\ thread' = [thread EXCEPT ![r] = NoThread] /\ stage' = [stage EXCEPT ![r] = "settle"]
          /\ UNCHANGED <<message, session_rev, connected, rev>>
      BY <2>2 DEF EndWork, Go
    <3>2. RequestTypes'
      BY <3>1 DEF Inv, TypeOK, RequestTypes, Stages
    <3>3. OthersStay(r) /\ thread'[r] = NoThread /\ stage'[r] = "settle"
      BY <3>1 DEF Inv, TypeOK, OthersStay
    <3> QED
      BY <3>1, <3>2, <3>3 DEF Inv, Contract
  <2> QED
    BY <2>1, <2>2
<1>6. TypeOK'
  BY <1>2, <1>4, <1>5 DEF Inv, TypeOK, RequestTypes, LocalTypes, TableTypes
<1>7. /\ Clean(t)'
      /\ \A u \in Threads \ {t} : /\ REQUEST_REV'[u] = REQUEST_REV[u] /\ scopes'[u] = scopes[u]
                                   /\ CALLER'[u] = CALLER[u]
  BY <1>1, <1>3 DEF Clean, Inv, TypeOK
<1>8. Work'
  <2>1. \A q \in Clients : thread'[q] # NoThread <=> At(q, "execute")'
    BY <1>5 DEF Inv, Work, At, OthersStay
  <2>2. \A p, q \in Clients : thread'[p] # NoThread /\ thread'[p] = thread'[q] => p = q
    BY <1>5 DEF Inv, Work, OthersStay
  <2>3. ASSUME NEW q \in Clients, thread'[q] # NoThread
        PROVE  Serves(thread[q], q)'
    <3>1. q # r /\ thread'[q] = thread[q] /\ rev'[q] = rev[q]
      BY <2>3, <1>5 DEF OthersStay
    <3>2. thread[q] \in Threads \ {t}
      BY <2>3, <3>1, <1>1 DEF Inv, TypeOK, Threads
    <3> QED
      BY <2>3, <3>1, <3>2, <1>7 DEF Serves, Inv, Work
  <2>4. ASSUME NEW u \in Threads, \A q \in Clients : thread'[q] # u
        PROVE  Clean(u)'
    <3>1. CASE u = t
      BY <3>1, <1>7
    <3>2. CASE u # t
      <4>1. \A q \in Clients : thread[q] # u
        BY <2>4, <3>2, <1>1, <1>5 DEF OthersStay
      <4> QED
        BY <4>1, <3>2, <1>7 DEF Clean, Inv, Work
    <3> QED
      BY <3>1, <3>2
  <2> QED
    BY <2>1, <2>2, <2>3, <2>4 DEF Work
<1>9. Contract'
  BY <1>2, <1>5, MoveKeepsContract
<1> QED
  BY <1>2, <1>6, <1>8, <1>9 DEF Inv, Table

LEMMA FailKeepsInv ==
  ASSUME Inv, NEW r \in Clients, Fail(r)
  PROVE  Inv'
  BY EndWorkKeepsInv DEF Fail, Inv, TypeOK

LEMMA ChosenIsSpoken ==
  ASSUME Inv, NEW r \in Clients
  PROVE  Chosen(r) \in Revs
  BY RevsFacts DEF Chosen, Or, Inv, TypeOK, Messages

LEMMA InitializeKeepsInv ==
  ASSUME Inv, NEW r \in Clients, Initialize(r)
  PROVE  Inv'
  BY EndWorkKeepsInv, ChosenIsSpoken DEF Initialize, Inv

LEMMA CallToolKeepsInv ==
  ASSUME Inv, NEW r \in Clients, CallTool(r)
  PROVE  Inv'
<1>1. At(r, "execute") /\ EndWork(r, FALSE) /\ SESSION_REV' = SESSION_REV
  BY DEF CallTool
<1>2. CALLER[thread[r]] = r
  BY <1>1, Working DEF Serves
<1>3. Misnamed(r, CALLER[thread[r]]) = {}
  BY <1>2 DEF Misnamed
<1>4. misnamed' = {}
  BY <1>3 DEF CallTool, Inv
<1> QED
  BY <1>1, <1>4, EndWorkKeepsInv DEF Inv, TypeOK

\* Nobody waits any more; the work goes on, or what came after it does not.
LEMMA DisconnectKeepsInv ==
  ASSUME Inv, NEW r \in Clients, Disconnect(r)
  PROVE  Inv'
<1>1. UNCHANGED <<sessions, SESSION_REV, REQUEST_REV, scopes, CALLER, issued, ended, agreed, misnamed>>
  BY DEF Disconnect, locals, history
<1>2. LocalTypes'
  BY <1>1 DEF Inv, TypeOK, LocalTypes
<1>3. CASE At(r, "settle") /\ Leave(r)
  BY <1>1, <1>2, <1>3, GoneKeepsInv DEF At
<1>4. CASE /\ connected' = [connected EXCEPT ![r] = FALSE]
           /\ UNCHANGED <<stage, message, session_rev, thread, rev>>
  <2>1. RequestTypes'
    BY <1>4 DEF Inv, TypeOK, RequestTypes
  <2>2. TypeOK'
    BY <1>1, <1>2, <2>1 DEF Inv, TypeOK, RequestTypes, LocalTypes, TableTypes
  <2>3. Work'
    BY <1>1, <1>4 DEF Inv, Work, Serves, Clean, At
  <2>4. Contract'
    BY <1>1, <1>4 DEF Inv, Contract, Agreed, At
  <2> QED
    BY <1>1, <2>2, <2>3, <2>4 DEF Inv, Table
<1> QED
  BY <1>3, <1>4 DEF Disconnect

-----------------------------------------------------------------------------
(* The table.                                                                *)

\* What is kept of the table leaves room for one more.
LEMMA KeptLeavesRoom ==
  ASSUME Inv
  PROVE  /\ Kept \subseteq DOMAIN sessions /\ IsFiniteSet(Kept)
         /\ Cardinality(Kept) + 1 <= MAX_SESSIONS /\ Cardinality(Kept) \in Nat
<1>1. IsFiniteSet(DOMAIN sessions) /\ Cardinality(DOMAIN sessions) \in Nat /\ MAX_SESSIONS \in Nat \ {0}
  BY LimitAssumption, FS_CardinalityType DEF Inv, Table
<1>2. Active \subseteq DOMAIN sessions /\ IsFiniteSet(Active) /\ Cardinality(Active) \in Nat
  BY <1>1, FS_Subset, FS_CardinalityType DEF Active
<1>3. IsFiniteSet({}) /\ Cardinality({}) = 0
  BY FS_EmptySet
<1>4. CASE ~Full(DOMAIN sessions)
  BY <1>1, <1>4 DEF Kept, Full
<1>5. CASE Full(DOMAIN sessions) /\ ~Full(Active)
  <2>1. Kept = Active
    BY <1>5 DEF Kept
  <2> QED
    BY <1>1, <1>2, <1>5, <2>1 DEF Full
<1>6. CASE Full(DOMAIN sessions) /\ Full(Active)
  <2>1. Kept = {}
    BY <1>6 DEF Kept
  <2> QED
    BY <1>1, <1>3, <2>1
<1> QED
  BY <1>4, <1>5, <1>6

LEMMA OpenSessionKeepsInv ==
  ASSUME Inv, NEW r \in Clients, NEW s \in Ids, OpenSession(r, s)
  PROVE  Inv'
<1> DEFINE new == [rev |-> Chosen(r), active |-> TRUE]
<1>1. /\ At(r, "settle") /\ s \notin issued /\ issued' = issued \cup {s}
      /\ sessions' = [k \in Kept \cup {s} |-> IF k = s THEN new ELSE sessions[k]]
      /\ agreed' = [agreed EXCEPT ![s] = {Chosen(r)}]
      /\ Leave(r)
      /\ UNCHANGED <<SESSION_REV, REQUEST_REV, scopes, CALLER, ended, misnamed>>
  BY DEF OpenSession, OpenAs, With, locals
<1>2. new \in Entries /\ new.rev = Chosen(r) /\ Chosen(r) \in Revs
  BY ChosenIsSpoken DEF Entries
<1> HIDE DEF new
<1>3. /\ DOMAIN sessions' = Kept \cup {s} /\ sessions'[s] = new
      /\ \A k \in Kept \ {s} : sessions'[k] = sessions[k]
      /\ Kept \subseteq DOMAIN sessions /\ DOMAIN sessions \subseteq issued
  BY <1>1, KeptLeavesRoom DEF Inv, TypeOK
<1>4. agreed'[s] = {Chosen(r)} /\ \A k \in Ids \ {s} : agreed'[k] = agreed[k]
  BY <1>1 DEF Inv, TypeOK
<1>5. /\ RequestTypes' /\ OthersStay(r)
      /\ stage'[r] = "done" /\ message'[r].sid = NoId /\ thread'[r] = NoThread
  BY <1>1, LeaveFacts DEF Inv
<1>6. LocalTypes'
  BY <1>1 DEF Inv, TypeOK, LocalTypes
<1>7. TableTypes'
  <2>1. agreed' \in [Ids -> SUBSET Revs]
    BY <1>1, <1>2 DEF Inv, TypeOK
  <2>2. \A k \in DOMAIN sessions' : sessions'[k] \in Entries
    BY <1>2, <1>3 DEF Inv, TypeOK
  <2> QED
    BY <1>1, <1>3, <2>1, <2>2 DEF Inv, TypeOK, TableTypes
<1>8. TypeOK'
  BY <1>1, <1>5, <1>6, <1>7 DEF Inv, TypeOK, RequestTypes, LocalTypes, TableTypes
<1>9. Work'
  BY <1>1, <1>5, IdleMoveKeepsWork DEF At
<1>10. Contract'
  <2>1. \A k \in DOMAIN sessions' : sessions'[k].rev \in agreed'[k]
    BY <1>1, <1>2, <1>3, <1>4 DEF Inv, Contract, TypeOK
  <2>2. \A q \in Clients \ {r} :
          /\ message'[q] = message[q] /\ session_rev'[q] = session_rev[q] /\ rev'[q] = rev[q]
          /\ At(q, "gates")' <=> At(q, "gates")
          /\ At(q, "execute")' <=> At(q, "execute")
          /\ message[q].sid # NoId => message[q].sid \in Ids \ {s}
    BY <1>1, <1>5 DEF OthersStay, At, Inv, Contract, TypeOK
  <2>3. ~At(r, "gates")' /\ ~At(r, "execute")'
    BY <1>5 DEF At
  <2>4. \A q \in Clients : message'[q].sid \in issued' \cup {NoId}
    BY <1>1, <1>5, <2>2 DEF Inv, Contract
  <2>5. ASSUME NEW q \in Clients, At(q, "gates")'
        PROVE  IF message'[q].sid = NoId THEN session_rev'[q] = NoRev
                                         ELSE session_rev'[q] \in agreed'[message'[q].sid]
    BY <1>4, <2>2, <2>3, <2>5 DEF Inv, Contract
  <2>6. ASSUME NEW q \in Clients, At(q, "execute")' PROVE Agreed(message[q], rev[q])'
    <3>1. q \in Clients \ {r} /\ Agreed(message[q], rev[q])
      BY <2>2, <2>3, <2>6 DEF Inv, Contract
    <3> QED
      BY <1>4, <2>2, <3>1 DEF Agreed
  <2> QED
    BY <2>1, <2>4, <2>5, <2>6 DEF Contract
<1>11. Table'
  <2>1. s \notin Kept
    BY <1>1, <1>3
  <2>2. IsFiniteSet(Kept \cup {s}) /\ Cardinality(Kept \cup {s}) = Cardinality(Kept) + 1
    BY <2>1, KeptLeavesRoom, FS_AddElement
  <2>3. Cardinality(DOMAIN sessions') <= MAX_SESSIONS /\ IsFiniteSet(DOMAIN sessions')
    BY <1>3, <2>2, KeptLeavesRoom
  <2> QED
    BY <1>1, <1>3, <2>3 DEF Inv, Table, TypeOK
<1> QED
  BY <1>1, <1>8, <1>9, <1>10, <1>11 DEF Inv

LEMMA RenegotiateKeepsInv ==
  ASSUME Inv, NEW r \in Clients, Renegotiate(r)
  PROVE  Inv'
<1>1. PICK sid \in Ids : sid = message[r].sid
  BY DEF Renegotiate, Inv, TypeOK, Messages
<1>2. /\ At(r, "settle") /\ Leave(r)
      /\ sessions' = IF sid \in DOMAIN sessions
                     THEN [sessions EXCEPT ![sid].rev = Chosen(r)] ELSE sessions
      /\ agreed' = [agreed EXCEPT ![sid] = @ \cup {Chosen(r)}]
      /\ UNCHANGED <<SESSION_REV, REQUEST_REV, scopes, CALLER, issued, ended, misnamed>>
  BY <1>1 DEF Renegotiate, locals
<1>3. Chosen(r) \in Revs
  BY ChosenIsSpoken
<1>4. agreed'[sid] = agreed[sid] \cup {Chosen(r)} /\ \A k \in Ids \ {sid} : agreed'[k] = agreed[k]
  BY <1>2 DEF Inv, TypeOK
<1>5. /\ DOMAIN sessions' = DOMAIN sessions
      /\ \A k \in DOMAIN sessions : k # sid => sessions'[k] = sessions[k]
      /\ sid \in DOMAIN sessions => sessions'[sid] \in Entries /\ sessions'[sid].rev = Chosen(r)
  BY <1>2, <1>3 DEF Inv, TypeOK, Entries
<1>6. /\ RequestTypes' /\ OthersStay(r)
      /\ stage'[r] = "done" /\ message'[r].sid = NoId /\ thread'[r] = NoThread
  BY <1>2, LeaveFacts DEF Inv
<1>7. LocalTypes'
  BY <1>2 DEF Inv, TypeOK, LocalTypes
<1>8. TableTypes'
  <2>1. agreed' \in [Ids -> SUBSET Revs]
    BY <1>2, <1>3 DEF Inv, TypeOK
  <2>2. \A k \in DOMAIN sessions' : sessions'[k] \in Entries
    BY <1>5 DEF Inv, TypeOK
  <2> QED
    BY <1>2, <1>5, <2>1, <2>2 DEF Inv, TypeOK, TableTypes
<1>9. TypeOK'
  BY <1>2, <1>6, <1>7, <1>8 DEF Inv, TypeOK, RequestTypes, LocalTypes, TableTypes
<1>10. Work'
  BY <1>2, <1>6, IdleMoveKeepsWork DEF At
<1>11. \A k \in Ids : agreed[k] \subseteq agreed'[k]
  BY <1>4
<1>12. Contract'
  <2>1. \A k \in DOMAIN sessions' : sessions'[k].rev \in agreed'[k]
    BY <1>4, <1>5 DEF Inv, Contract, TypeOK
  <2>2. \A q \in Clients \ {r} :
          /\ message'[q] = message[q] /\ session_rev'[q] = session_rev[q] /\ rev'[q] = rev[q]
          /\ At(q, "gates")' <=> At(q, "gates")
          /\ At(q, "execute")' <=> At(q, "execute")
          /\ message[q].sid # NoId => message[q].sid \in Ids
    BY <1>6 DEF OthersStay, At, Inv, Contract, TypeOK
  <2>3. ~At(r, "gates")' /\ ~At(r, "execute")'
    BY <1>6 DEF At
  <2> QED
    BY <1>2, <1>6, <1>11, <2>1, <2>2, <2>3 DEF Inv, Contract, Agreed
<1> QED
  BY <1>2, <1>5, <1>9, <1>10, <1>12 DEF Inv, Table

\* Sessions go or grow idle, and nothing else happens.
LEMMA FewerSessionsKeepInv ==
  ASSUME Inv, UNCHANGED <<request, SESSION_REV, locals, issued, agreed, misnamed>>,
         DOMAIN sessions' \subseteq DOMAIN sessions,
         \A s \in DOMAIN sessions' : sessions'[s] \in Entries /\ sessions'[s].rev = sessions[s].rev,
         ended' \subseteq issued, ended' \cap DOMAIN sessions' = {}
  PROVE  Inv'
<1>1. UNCHANGED <<stage, message, session_rev, thread, connected, rev, REQUEST_REV, scopes, CALLER>>
  BY DEF request, locals
<1>2. TypeOK'
  BY <1>1 DEF Inv, TypeOK
<1>3. Work'
  BY <1>1 DEF Inv, Work, Serves, Clean, At
<1>4. Contract'
  BY <1>1 DEF Inv, Contract, Agreed, At
<1>5. Table'
  <2>1. IsFiniteSet(DOMAIN sessions') /\ Cardinality(DOMAIN sessions') <= Cardinality(DOMAIN sessions)
    BY FS_Subset DEF Inv, Table
  <2>2. Cardinality(DOMAIN sessions') \in Nat /\ Cardinality(DOMAIN sessions) \in Nat
    BY <2>1, FS_CardinalityType DEF Inv, Table
  <2> QED
    BY <2>1, <2>2, LimitAssumption DEF Inv, Table
<1> QED
  BY <1>2, <1>3, <1>4, <1>5 DEF Inv

LEMMA DeleteKeepsInv ==
  ASSUME Inv, NEW sid \in Ids, Delete(sid)
  PROVE  Inv'
<1>1. /\ DOMAIN sessions' = DOMAIN sessions \ {sid}
      /\ \A s \in DOMAIN sessions' : sessions'[s] = sessions[s]
      /\ ended' = ended \cup ({sid} \cap DOMAIN sessions)
  BY DEF Delete, Restrict
<1>2. ended' \subseteq issued /\ ended' \cap DOMAIN sessions' = {}
  BY <1>1 DEF Inv, TypeOK, Table
<1>3. \A s \in DOMAIN sessions' : sessions'[s] \in Entries /\ sessions'[s].rev = sessions[s].rev
  BY <1>1 DEF Inv, TypeOK
<1> QED
  BY <1>1, <1>2, <1>3, FewerSessionsKeepInv DEF Delete

LEMMA GrowIdleKeepsInv ==
  ASSUME Inv, NEW s \in Ids, GrowIdle(s)
  PROVE  Inv'
<1>1. /\ DOMAIN sessions' = DOMAIN sessions
      /\ \A k \in DOMAIN sessions : sessions'[k] \in Entries /\ sessions'[k].rev = sessions[k].rev
      /\ UNCHANGED <<issued, ended, agreed>>
  BY DEF GrowIdle, history, Inv, TypeOK, Entries
<1> QED
  BY <1>1, FewerSessionsKeepInv DEF GrowIdle, Inv, TypeOK, Table

-----------------------------------------------------------------------------
(* The theorems.                                                             *)

LEMMA StutterKeepsInv ==
  ASSUME Inv, UNCHANGED vars
  PROVE  Inv'
<1>1. UNCHANGED <<stage, message, session_rev, thread, connected, rev, sessions, SESSION_REV,
                  REQUEST_REV, scopes, CALLER, issued, ended, agreed, misnamed>>
  BY DEF vars, request, locals, history
<1> QED
  BY <1>1 DEF Inv, TypeOK, Work, Serves, Clean, At, Contract, Agreed, Table

LEMMA InvStep == Inv /\ [Next]_vars => Inv'
<1> SUFFICES ASSUME Inv, [Next]_vars PROVE Inv'
  OBVIOUS
<1>1. ASSUME NEW r \in Clients, NEW m \in Messages, Arrive(r, m) PROVE Inv'
  BY <1>1, ArriveKeepsInv
<1>2. ASSUME NEW r \in Clients, NEW w \in Workers, RefuseUnnamed(r, w) \/ RefuseNamed(r, w) PROVE Inv'
  BY <1>2, RefuseUnnamedKeepsInv, RefuseNamedKeepsInv
<1>3. ASSUME NEW r \in Clients, NEW t \in BlockingThreads, Spawn(r, t) PROVE Inv'
  BY <1>3, SpawnKeepsInv
<1>4. ASSUME NEW r \in Clients,
             \/ TurnAway(r) \/ Initialize(r) \/ CallTool(r) \/ Fail(r) \/ Disconnect(r) \/ Renegotiate(r)
      PROVE  Inv'
  BY <1>4, TurnAwayKeepsInv, InitializeKeepsInv, CallToolKeepsInv, FailKeepsInv, DisconnectKeepsInv,
     RenegotiateKeepsInv
<1>5. ASSUME NEW r \in Clients, NEW s \in Ids, OpenSession(r, s) PROVE Inv'
  BY <1>5, OpenSessionKeepsInv
<1>6. ASSUME NEW s \in Ids, Delete(s) \/ GrowIdle(s) PROVE Inv'
  BY <1>6, DeleteKeepsInv, GrowIdleKeepsInv
<1> QED
  BY <1>1, <1>2, <1>3, <1>4, <1>5, <1>6, StutterKeepsInv DEF Next

\* The invariant of the theorems below: which thread works for whom, what its scopes
\* will restore, and what every session was told.
THEOREM InvHolds == Spec => []Inv
<1> QED
  BY InvInit, InvStep, PTL DEF Spec

\* Types: in particular the table remembers only revisions the server speaks.
THEOREM SessionTypeCorrect == Spec => []TypeOK
<1>1. Inv => TypeOK
  BY DEF Inv
<1> QED
  BY <1>1, InvHolds, PTL

\* TableBounded: initialize needs no credentials, and the table still stays within
\* MAX_SESSIONS (transport.rs:545-551).
THEOREM TableAlwaysBounded == Spec => []TableBounded
<1>1. Inv => TableBounded
  BY DEF Inv, Table, TableBounded
<1> QED
  BY <1>1, InvHolds, PTL

\* EndedStayEnded: no initialize under way brings an ended session back.
THEOREM EndedAlwaysStayEnded == Spec => []EndedStayEnded
<1>1. Inv => EndedStayEnded
  BY DEF Inv, Table, EndedStayEnded
<1> QED
  BY <1>1, InvHolds, PTL

\* ThreadsLeftClean: no revision and no identity stays on a thread.
THEOREM ThreadsAlwaysLeftClean == Spec => []ThreadsLeftClean
<1>1. Inv => ThreadsLeftClean
  BY DEF Inv, Work, Clean, ThreadsLeftClean
<1> QED
  BY <1>1, InvHolds, PTL

\* NoForeignContract: a request is answered under its own revision, from the moment it is
\* read to the moment the result is shaped.
THEOREM NeverForeignContract == Spec => []NoForeignContract
<1>1. Inv => NoForeignContract
  <2> SUFFICES ASSUME Inv, NEW r \in Clients, At(r, "execute")
               PROVE  /\ Agreed(message[r], rev[r])
                      /\ CurrentUnder(REQUEST_REV[thread[r]]) = rev[r]
    BY DEF NoForeignContract, Agreed
  <2>1. REQUEST_REV[thread[r]] = rev[r] /\ rev[r] \in Revs
    BY Working DEF Serves
  <2> QED
    BY <2>1, RevsFacts DEF Inv, Contract, CurrentUnder, Or
<1> QED
  BY <1>1, InvHolds, PTL

\* RecordNamesItsCaller: no record names another than who asked.
THEOREM RecordAlwaysNamesItsCaller == Spec => []RecordNamesItsCaller
<1>1. Inv => RecordNamesItsCaller
  BY DEF Inv, RecordNamesItsCaller
<1> QED
  BY <1>1, InvHolds, PTL

\* What a step may do to the sessions in use.
LostOnlyWhenFull ==
  \A s \in Active \ DOMAIN sessions' : s \in ended' \/ Full(Active)

\* ActiveLostOnlyWhenFull: a session in use goes by a DELETE, or when as many as the table
\* holds were in use.
THEOREM ActiveAlwaysLostOnlyWhenFull == Spec => ActiveLostOnlyWhenFull
<1>1. Inv /\ [Next]_vars => [LostOnlyWhenFull]_sessions
  <2> SUFFICES ASSUME Inv, Next, NEW s \in Active, s \notin DOMAIN sessions'
               PROVE  s \in ended' \/ Full(Active)
    BY DEF LostOnlyWhenFull, vars
  <2>1. s \in DOMAIN sessions
    BY DEF Active
  <2>2. ASSUME NEW r \in Clients, NEW m \in Messages, Arrive(r, m) PROVE FALSE
    BY <2>1, <2>2 DEF Arrive
  <2>3. ASSUME NEW r \in Clients, NEW w \in Workers, RefuseUnnamed(r, w) \/ RefuseNamed(r, w) PROVE FALSE
    BY <2>1, <2>3 DEF RefuseUnnamed, RefuseNamed
  <2>4. ASSUME NEW r \in Clients, NEW t \in BlockingThreads, Spawn(r, t) PROVE FALSE
    BY <2>1, <2>4 DEF Spawn
  <2>5. ASSUME NEW r \in Clients, TurnAway(r) \/ Initialize(r) \/ CallTool(r) \/ Fail(r) \/ Disconnect(r)
        PROVE  FALSE
    BY <2>1, <2>5 DEF TurnAway, Initialize, CallTool, Fail, Disconnect, EndWork
  <2>6. ASSUME NEW r \in Clients, Renegotiate(r) PROVE FALSE
    BY <2>1, <2>6 DEF Renegotiate
  <2>7. ASSUME NEW r \in Clients, NEW id \in Ids, OpenSession(r, id) PROVE Full(Active)
    <3>1. DOMAIN sessions' = Kept \cup {id}
      BY <2>7 DEF OpenSession, OpenAs, With
    <3> QED
      BY <2>1, <3>1 DEF Kept
  <2>8. ASSUME NEW id \in Ids, Delete(id) PROVE s \in ended'
    BY <2>1, <2>8 DEF Delete, Restrict
  <2>9. ASSUME NEW id \in Ids, GrowIdle(id) PROVE FALSE
    BY <2>1, <2>9 DEF GrowIdle
  <2> QED
    BY <2>2, <2>3, <2>4, <2>5, <2>6, <2>7, <2>8, <2>9 DEF Next
<1>2. LostOnlyWhenFull <=> \A s \in Active \ DOMAIN sessions' : s \in ended' \/ Full(Active)
  BY DEF LostOnlyWhenFull
<1> QED
  BY <1>1, InvHolds, PTL DEF Spec, ActiveLostOnlyWhenFull, LostOnlyWhenFull
=============================================================================
