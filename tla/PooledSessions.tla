---------------------------- MODULE PooledSessions ----------------------------
(***************************************************************************)
(* Database work on pooled connections: execute_readonly, query_catalog    *)
(* and simulate_index of src/src/db.rs, cost_guard of src/src/tools.rs,    *)
(* the handlers that call them, and the state their statements leave in    *)
(* the PostgreSQL session the next caller gets.                            *)
(*                                                                         *)
(* A thread makes one call at a time, each on a connection of its own. A   *)
(* statement succeeds, fails, or finds its backend gone. The pool is r2d2, *)
(* last in first out, which tests a connection by an empty query: that one *)
(* passes in an aborted transaction too.                                   *)
(***************************************************************************)
EXTENDS Naturals, FiniteSets, SequencesExt

CONSTANTS
  Threads,        \* threads with a permit of DB_SEM, requests; and threads
                  \* without one, the audits of the posture and /ready
  Conns,          \* the connections of the pool, Pool::max_size of them
  NoConn

ASSUME ConnsAssumption == NoConn \notin Conns
ASSUME ThreadsAssumption == IsFiniteSet(Threads)

\* rows and plain are the two branches of execute_readonly, plain that of EXPLAIN
\* and SHOW; guard is cost_guard, functions and parents the query_catalog calls in
\* it; catalog is any other query_catalog, index simulate_index, probe ready_handler.
Calls == {"rows", "plain", "catalog", "index", "probe", "guard", "functions", "parents"}
Lookups == {"functions", "parents"}

Places == {"idle", "get", "discard", "set", "look", "begin", "run", "create", "again",
           "explain", "inspect", "relations", "verdict", "rollback", "reset", "put"}

\* What a session keeps from one statement to the next. ready: timeouts,
\* read-only default and search_path are set. polluted: something a rollback does
\* not undo and DISCARD ALL does. hypothetical: an index of hypopg, which
\* neither of them removes; kept is one that hypopg_reset failed to remove.
Transactions == {"none", "open", "aborted"}
HypotheticalIndexes == {"none", "live", "kept"}
SessionStates == [tx : Transactions, ready : BOOLEAN, polluted : BOOLEAN,
                  hypothetical : HypotheticalIndexes]
FreshSession == [tx |-> "none", ready |-> FALSE, polluted |-> FALSE, hypothetical |-> "none"]

VARIABLES
  call,       \* what each thread is executing
  place,      \* and how far it is
  conn,       \* the connection it executes on
  outer,      \* the connection of cost_guard during its lookup
  after,      \* the call that follows when cost_guard agrees
  failed,     \* the call answers with an error
  session,    \* the PostgreSQL session behind each connection
  backend,    \* whether there is one: none, up, or gone unnoticed
  idle,       \* the connections in the pool, the next one last
  persisted,  \* a statement of a caller was committed
  surface     \* surface::active()

thread == <<call, place, conn, outer, after, failed>>
vars == <<thread, session, backend, idle, persisted, surface>>

At(t, here) == place[t] = here
Go(t, there) == place' = [place EXCEPT ![t] = there]
Tx(t) == session[conn[t]].tx
Up(t) == conn[t] \in Conns /\ backend[conn[t]] = "up"

Init ==
  /\ call = [t \in Threads |-> "probe"]
  /\ place = [t \in Threads |-> "idle"]
  /\ conn = [t \in Threads |-> NoConn]
  /\ outer = [t \in Threads |-> NoConn]
  /\ after = [t \in Threads |-> "probe"]
  /\ failed = [t \in Threads |-> FALSE]
  /\ session = [c \in Conns |-> FreshSession]
  /\ backend = [c \in Conns |-> "none"]
  /\ idle = <<>>
  /\ persisted = FALSE
  /\ surface \in BOOLEAN

-----------------------------------------------------------------------------
(* A statement on the connection of t                                      *)

\* It succeeds, unless the backend is gone or the transaction aborted.
Succeeds(t) == Up(t) /\ Tx(t) # "aborted"

\* It fails, at any time: in a transaction, it aborts that.
Errs(t) ==
  session' = [session EXCEPT ![conn[t]].tx = IF @ = "none" THEN "none" ELSE "aborted"]

\* The error of a statement leads on to there.
FailTo(t, there) ==
  /\ Errs(t)
  /\ failed' = [failed EXCEPT ![t] = TRUE]
  /\ Go(t, there)
  /\ UNCHANGED <<call, conn, outer, after, backend, idle, persisted, surface>>

OnlyGo(t, there) ==
  /\ Go(t, there)
  /\ UNCHANGED <<call, conn, outer, after, failed, backend, idle, persisted, surface>>

-----------------------------------------------------------------------------
(* Calls and connections                                                   *)

\* The calls a thread makes, with cost_guard before them or without. EXPLAIN is
\* guarded under a surface, SHOW never; explain_query guards a row query.
Jobs ==
  {<<"rows", TRUE>>, <<"plain", surface>>, <<"plain", FALSE>>, <<"catalog", TRUE>>,
   <<"catalog", FALSE>>, <<"index", surface>>, <<"probe", FALSE>>}

Start(t) ==
  /\ At(t, "idle")
  /\ \E job \in Jobs :
       /\ call' = [call EXCEPT ![t] = IF job[2] THEN "guard" ELSE job[1]]
       /\ after' = [after EXCEPT ![t] = job[1]]
  /\ failed' = [failed EXCEPT ![t] = FALSE]
  /\ Go(t, "get")
  /\ UNCHANGED <<conn, outer, session, backend, idle, persisted, surface>>

\* Pool::get: the connection that was put back last, if its backend answers,
Checkout(t) ==
  /\ At(t, "get") /\ idle # <<>> /\ backend[Last(idle)] = "up"
  /\ conn' = [conn EXCEPT ![t] = Last(idle)]
  /\ idle' = Front(idle)
  /\ Go(t, IF call[t] = "probe" THEN "put" ELSE "discard")
  /\ UNCHANGED <<call, outer, after, failed, session, backend, persisted, surface>>

\* which drops those whose backend does not,
DropDead(t) ==
  /\ At(t, "get") /\ idle # <<>> /\ backend[Last(idle)] # "up"
  /\ backend' = [backend EXCEPT ![Last(idle)] = "none"]
  /\ idle' = Front(idle)
  /\ UNCHANGED <<thread, session, persisted, surface>>

\* or a new one while there may be more,
Connect(t) ==
  /\ At(t, "get") /\ idle = <<>>
  /\ \E c \in Conns :
       /\ backend[c] = "none"
       /\ backend' = [backend EXCEPT ![c] = "up"]
       /\ session' = [session EXCEPT ![c] = FreshSession]
       /\ conn' = [conn EXCEPT ![t] = c]
  /\ Go(t, IF call[t] = "probe" THEN "put" ELSE "discard")
  /\ UNCHANGED <<call, outer, after, failed, idle, persisted, surface>>

\* The call has returned with its connection back in the pool, or without one. A
\* guard that agrees is followed by what it guards. A lookup returns into
\* cost_guard: an error is the guard's own when the functions were looked up, and
\* means a relation without parents otherwise.
Returns(t, bad) ==
  \/ /\ call[t] \in Lookups
     /\ LET fatal == bad /\ call[t] = "functions" IN
          /\ Go(t, IF fatal THEN "put" ELSE IF call[t] = "functions" THEN "relations" ELSE "verdict")
          /\ failed' = [failed EXCEPT ![t] = fatal]
     /\ call' = [call EXCEPT ![t] = "guard"]
     /\ conn' = [conn EXCEPT ![t] = outer[t]]
     /\ outer' = [outer EXCEPT ![t] = NoConn]
     /\ UNCHANGED after
  \/ /\ call[t] = "guard" /\ ~bad
     /\ call' = [call EXCEPT ![t] = after[t]]
     /\ Go(t, "get")
     /\ conn' = [conn EXCEPT ![t] = NoConn]
     /\ UNCHANGED <<outer, after, failed>>
  \/ /\ call[t] \notin Lookups \cup {"guard"} \/ (call[t] = "guard" /\ bad)
     /\ Go(t, "idle")
     /\ call' = [call EXCEPT ![t] = "probe"]
     /\ after' = [after EXCEPT ![t] = "probe"]
     /\ failed' = [failed EXCEPT ![t] = FALSE]
     /\ conn' = [conn EXCEPT ![t] = NoConn]
     /\ UNCHANGED outer

\* Mistake: the lookups of cost_guard wait for as long as it takes.
GetFailsUnlessLookup(t) ==
  /\ At(t, "get") /\ call[t] \notin Lookups
  /\ Returns(t, TRUE)
  /\ UNCHANGED <<session, backend, idle, persisted, surface>>

\* connection_timeout is over, or the database refuses.
GetFails(t) ==
  /\ At(t, "get")
  /\ Returns(t, TRUE)
  /\ UNCHANGED <<session, backend, idle, persisted, surface>>

\* Mistake: a broken connection is dropped and still counted.
PutBackLeaking(t) ==
  /\ At(t, "put")
  /\ idle' = IF Up(t) THEN Append(idle, conn[t]) ELSE idle
  /\ Returns(t, failed[t])
  /\ UNCHANGED <<session, backend, persisted, surface>>

\* The connection is dropped: back into the pool, unless its end was noticed.
PutBack(t) ==
  /\ At(t, "put")
  /\ \/ /\ idle' = Append(idle, conn[t])
        /\ UNCHANGED backend
     \/ /\ ~Up(t)
        /\ backend' = [backend EXCEPT ![conn[t]] = "none"]
        /\ UNCHANGED idle
  /\ Returns(t, failed[t])
  /\ UNCHANGED <<session, persisted, surface>>

-----------------------------------------------------------------------------
(* The statements                                                          *)

\* Mistake: the error is ignored, as that of ROLLBACK is.
DiscardIgnored(t) ==
  /\ At(t, "discard")
  /\ \/ /\ Up(t) /\ Tx(t) = "none"
        /\ session' = [session EXCEPT ![conn[t]] =
                         [FreshSession EXCEPT !.hypothetical = session[conn[t]].hypothetical]]
        /\ OnlyGo(t, "set")
     \/ FailTo(t, "set")

\* DISCARD ALL, refused in a transaction.
Discard(t) ==
  /\ At(t, "discard")
  /\ \/ /\ Up(t) /\ Tx(t) = "none"
        /\ session' = [session EXCEPT ![conn[t]] =
                         [FreshSession EXCEPT !.hypothetical = session[conn[t]].hypothetical]]
        /\ OnlyGo(t, "set")
     \/ FailTo(t, "put")

SetUp(t) ==
  /\ At(t, "set")
  /\ \/ /\ Succeeds(t)
        /\ session' = [session EXCEPT ![conn[t]].ready = TRUE]
        /\ OnlyGo(t, CASE call[t] = "guard" -> "explain"
                       [] call[t] = "index" -> "look"
                       [] OTHER -> "begin")
     \/ FailTo(t, "put")

\* simulate_index: hypopg is there, and so are the table and its columns.
Look(t) ==
  /\ At(t, "look")
  /\ \/ Succeeds(t) /\ OnlyGo(t, "begin") /\ UNCHANGED session
     \/ FailTo(t, "put")

\* Mistake: the error is ignored, and the session flag left to refuse writes.
BeginIgnored(t) ==
  /\ At(t, "begin")
  /\ \/ /\ Succeeds(t)
        /\ session' = [session EXCEPT ![conn[t]].tx = "open"]
        /\ OnlyGo(t, "run")
     \/ FailTo(t, "run")

Begin(t) ==
  /\ At(t, "begin")
  /\ \/ /\ Succeeds(t)
        /\ session' = [session EXCEPT ![conn[t]].tx = "open"]
        /\ OnlyGo(t, "run")
     \/ FailTo(t, "put")

\* Mistake: a plan over the byte cap returns without ROLLBACK.
RunWithoutRollback(t) ==
  /\ At(t, "run") /\ call[t] # "index"
  /\ \/ /\ Succeeds(t)
        /\ \E leftover \in BOOLEAN :
             session' = [session EXCEPT ![conn[t]].polluted = @ \/ leftover]
        /\ persisted' = (persisted \/ Tx(t) = "none")
        /\ \E over \in BOOLEAN :
             /\ failed' = [failed EXCEPT ![t] = over]
             /\ Go(t, IF over /\ call[t] = "plain" THEN "put" ELSE "rollback")
        /\ UNCHANGED <<call, conn, outer, after, backend, idle, surface>>
     \/ FailTo(t, IF call[t] = "plain" THEN "put" ELSE "rollback")

\* The statement of the caller, with whatever slipped through the validator. The
\* result may be over the byte cap, which is an error after the statement.
Run(t) ==
  /\ At(t, "run") /\ call[t] # "index"
  /\ \/ /\ Succeeds(t)
        /\ \E leftover \in BOOLEAN :
             session' = [session EXCEPT ![conn[t]].polluted = @ \/ leftover]
        /\ persisted' = (persisted \/ Tx(t) = "none")
        /\ \E over \in BOOLEAN : failed' = [failed EXCEPT ![t] = over]
        /\ Go(t, "rollback")
        /\ UNCHANGED <<call, conn, outer, after, backend, idle, surface>>
     \/ FailTo(t, IF call[t] = "plain" THEN "put" ELSE "rollback")

\* simulate_index: the plan, the hypothetical index, and the plan again.
PlanBefore(t) ==
  /\ At(t, "run") /\ call[t] = "index"
  /\ \/ Succeeds(t) /\ OnlyGo(t, "create") /\ UNCHANGED session
     \/ FailTo(t, "rollback")

CreateHypothetical(t) ==
  /\ At(t, "create")
  /\ \/ /\ Succeeds(t)
        /\ session' = [session EXCEPT ![conn[t]].hypothetical = "live"]
        /\ OnlyGo(t, "again")
     \/ FailTo(t, "rollback")

PlanAfter(t) ==
  /\ At(t, "again")
  /\ \/ Succeeds(t) /\ OnlyGo(t, "rollback") /\ UNCHANGED session
     \/ FailTo(t, "rollback")

\* The result of ROLLBACK is not looked at; it ends any transaction.
Rollback(t) ==
  /\ At(t, "rollback")
  /\ session' = IF Up(t) THEN [session EXCEPT ![conn[t]].tx = "none"] ELSE session
  /\ OnlyGo(t, IF call[t] = "index" THEN "reset" ELSE "put")

\* Nor is that of hypopg_reset, which removes every hypothetical index or none.
Reset(t) ==
  /\ At(t, "reset")
  /\ \/ /\ Succeeds(t)
        /\ session' = [session EXCEPT ![conn[t]].hypothetical = "none"]
     \/ session' = [session EXCEPT ![conn[t]].hypothetical = IF @ = "none" THEN "none" ELSE "kept"]
  /\ OnlyGo(t, "put")

\* cost_guard: EXPLAIN, outside any transaction.
Explain(t) ==
  /\ At(t, "explain")
  /\ \/ Succeeds(t) /\ OnlyGo(t, "inspect") /\ UNCHANGED session
     \/ FailTo(t, "put")

\* Under a surface the functions a statement calls are looked up, and the parents
\* of partitions, while the connection of the EXPLAIN is still held.
LookUp(t) ==
  /\ surface
  /\ \E here \in {<<"inspect", "functions">>, <<"relations", "parents">>} :
       /\ At(t, here[1])
       /\ call' = [call EXCEPT ![t] = here[2]]
  /\ outer' = [outer EXCEPT ![t] = conn[t]]
  /\ conn' = [conn EXCEPT ![t] = NoConn]
  /\ Go(t, "get")
  /\ UNCHANGED <<after, failed, session, backend, idle, persisted, surface>>

\* Too expensive, outside the surface, or neither.
Verdict(t) ==
  /\ At(t, "inspect") \/ At(t, "relations") \/ At(t, "verdict")
  /\ \E refused \in BOOLEAN : failed' = [failed EXCEPT ![t] = refused]
  /\ Go(t, "put")
  /\ UNCHANGED <<call, conn, outer, after, session, backend, idle, persisted, surface>>

\* A backend ends: a restart, an administrator, idle_in_transaction_session_timeout.
BackendEnds(c) ==
  /\ backend[c] = "up"
  /\ backend' = [backend EXCEPT ![c] = "gone"]
  /\ session' = [session EXCEPT ![c] = FreshSession]
  /\ UNCHANGED <<thread, idle, persisted, surface>>

-----------------------------------------------------------------------------
Pooling(t) == Checkout(t) \/ DropDead(t) \/ Connect(t) \/ GetFails(t) \/ PutBack(t)

Statements(t) ==
  \/ Discard(t) \/ SetUp(t) \/ Look(t) \/ Begin(t) \/ Run(t)
  \/ PlanBefore(t) \/ CreateHypothetical(t) \/ PlanAfter(t) \/ Rollback(t) \/ Reset(t)
  \/ Explain(t) \/ LookUp(t) \/ Verdict(t)

Next ==
  \/ \E t \in Threads : Start(t) \/ Pooling(t) \/ Statements(t)
  \/ \E c \in Conns : BackendEnds(c)

\* statement_timeout ends every statement and connection_timeout every wait for a
\* connection, whatever the pool does meanwhile.
Fairness ==
  \A t \in Threads : WF_vars(Pooling(t) \/ Statements(t)) /\ WF_vars(GetFails(t))

Spec == Init /\ [][Next]_vars /\ Fairness

-----------------------------------------------------------------------------
(* Properties                                                              *)

\* The variables keep their types.
TypeOK ==
  /\ call \in [Threads -> Calls] /\ after \in [Threads -> Calls]
  /\ place \in [Threads -> Places]
  /\ conn \in [Threads -> Conns \cup {NoConn}]
  /\ outer \in [Threads -> Conns \cup {NoConn}]
  /\ failed \in [Threads -> BOOLEAN]
  /\ session \in [Conns -> SessionStates]
  /\ backend \in [Conns -> {"none", "up", "gone"}]
  /\ idle \in Seq(Conns)
  /\ persisted \in BOOLEAN /\ surface \in BOOLEAN

\* Whatever the callers before left in a session, a statement of a caller runs in
\* a transaction that was opened for it, with the settings of this call and
\* without what others left, except for an index that hypopg_reset has failed on.
StatementsRunFresh ==
  \A t \in Threads : Up(t) =>
    LET s == session[conn[t]] IN
      /\ At(t, "run") => s.tx = "open" /\ s.ready /\ ~s.polluted /\ s.hypothetical # "live"
      /\ At(t, "explain") => s.tx = "none" /\ s.ready /\ ~s.polluted /\ s.hypothetical # "live"

\* No statement of a caller is ever committed: none runs outside a transaction and
\* no transaction ends but by ROLLBACK or with its session.
NothingPersists == ~persisted

\* A connection waits in the pool with no transaction that still holds a snapshot
\* or locks: at worst with an aborted one.
PoolHoldsNoSnapshot ==
  \A i \in DOMAIN idle : session[idle[i]].tx # "open"

\* A connection is lost by no path through the calls: it is in the pool once, in
\* the hands of one thread, or there is none.
ConnectionsAccounted ==
  /\ IsInjective(idle)
  /\ \A c \in Conns :
       LET hands == {t \in Threads : c \in {conn[t], outer[t]}}
       IN  IF backend[c] = "none" THEN hands = {} /\ ~Contains(idle, c)
           ELSE Cardinality(hands) = IF Contains(idle, c) THEN 0 ELSE 1

\* Every call ends, also when all of them hold a connection and wait for another.
CallsEnd == \A t \in Threads : ~At(t, "idle") ~> At(t, "idle")

\* The comment on DB_SEM: "Semaphore gating concurrent database work - excess gets
\* a fast "busy" instead of blocking the pool."  While no more threads work than the
\* pool has connections, and no surface makes cost_guard take a second one, each finds
\* a connection or room for one.
PermitMeansConnection ==
  ~surface /\ Cardinality(Threads) <= Cardinality(Conns) =>
    \A t \in Threads : At(t, "get") => idle # <<>> \/ \E c \in Conns : backend[c] = "none"

\* The comment in execute_readonly: "ROLLBACK on EVERY exit path - including
\* success".  No connection waits in the pool in a transaction.
RolledBackOnEveryExit ==
  \A i \in DOMAIN idle : backend[idle[i]] = "up" => session[idle[i]].tx = "none"
=============================================================================
