------------------------- MODULE PooledSessionsProofs -------------------------
(***************************************************************************)
(* No session state crosses from one call to the next and no connection is *)
(* lost, for any number of threads and connections.                        *)
(***************************************************************************)
EXTENDS PooledSessions, FiniteSetTheorems, TLAPS

-----------------------------------------------------------------------------
(* The pool as a sequence without repetitions.                               *)

Pool == Range(idle)

LEMMA PoolGrows ==
  ASSUME NEW S, NEW s \in Seq(S), IsInjective(s), NEW c \in S \ Range(s)
  PROVE  /\ Append(s, c) \in Seq(S) /\ IsInjective(Append(s, c))
         /\ Range(Append(s, c)) = Range(s) \cup {c}
<1>1. /\ Append(s, c) \in Seq(S) /\ DOMAIN Append(s, c) = 1..Len(s) + 1 /\ DOMAIN s = 1..Len(s)
      /\ Append(s, c)[Len(s) + 1] = c /\ \A i \in 1..Len(s) : Append(s, c)[i] = s[i]
      /\ Len(s) \in Nat
  OBVIOUS
<1>2. \A i \in 1..Len(s) : s[i] # c
  BY <1>1 DEF Range
<1>3. IsInjective(Append(s, c))
  BY <1>1, <1>2 DEF IsInjective
<1>4. Range(Append(s, c)) \subseteq Range(s) \cup {c}
  BY <1>1 DEF Range
<1>5. Range(s) \subseteq Range(Append(s, c))
  BY <1>1 DEF Range
<1>6. c \in Range(Append(s, c))
  BY <1>1 DEF Range
<1> QED
  BY <1>1, <1>3, <1>4, <1>5, <1>6

LEMMA PoolShrinks ==
  ASSUME NEW S, NEW s \in Seq(S), IsInjective(s), s # <<>>
  PROVE  /\ Front(s) \in Seq(S) /\ IsInjective(Front(s))
         /\ Last(s) \in Range(s) /\ Last(s) \in S
         /\ Range(Front(s)) = Range(s) \ {Last(s)}
<1>1. /\ Front(s) \in Seq(S) /\ DOMAIN s = 1..Len(s) /\ Len(s) \in Nat \ {0}
      /\ DOMAIN Front(s) = 1..Len(s) - 1 /\ \A i \in 1..Len(s) - 1 : Front(s)[i] = s[i]
  BY DEF Front
<1>2. Last(s) \in Range(s) /\ Last(s) \in S
  BY <1>1 DEF Last, Range
<1>3. IsInjective(Front(s))
  BY <1>1 DEF IsInjective
<1>4. \A i \in 1..Len(s) - 1 : s[i] # Last(s)
  BY <1>1 DEF IsInjective, Last
<1>5. Range(Front(s)) \subseteq Range(s) \ {Last(s)}
  BY <1>1, <1>4 DEF Range
<1>6. Range(s) \ {Last(s)} \subseteq Range(Front(s))
  <2> SUFFICES ASSUME NEW i \in 1..Len(s), s[i] # Last(s) PROVE s[i] \in Range(Front(s))
    BY <1>1 DEF Range
  <2>1. i \in 1..Len(s) - 1
    BY <1>1 DEF Last
  <2> QED
    BY <2>1, <1>1 DEF Range
<1> QED
  BY <1>1, <1>2, <1>3, <1>5, <1>6

-----------------------------------------------------------------------------
(* The invariant.                                                            *)

\* A thread has a connection unless it waits for one or does nothing, and a
\* second one during a lookup of cost_guard.
Hands ==
  \A t \in Threads :
    /\ place[t] \in {"idle", "get"} <=> conn[t] = NoConn
    /\ call[t] \in Lookups <=> outer[t] # NoConn
    /\ outer[t] # NoConn => surface /\ conn[t] # outer[t]
    /\ place[t] = "idle" => outer[t] = NoConn
    /\ after[t] \notin Lookups

Holds(t, c) == conn[t] = c \/ outer[t] = c

\* A connection is held once, and not while it is in the pool.
Owners ==
  /\ IsInjective(idle)
  /\ \A c \in Conns :
       /\ \A t, u \in Threads : Holds(t, c) /\ Holds(u, c) => t = u
       /\ (\E t \in Threads : Holds(t, c)) => c \notin Pool
       /\ backend[c] = "none" <=> c \notin Pool /\ \A t \in Threads : ~Holds(t, c)

\* What a session at rest has kept.
Rests(s) == s.tx # "open" /\ s.hypothetical # "live"

\* What a session may be like while a thread with that call is at that place,
Fits(here, what, s) ==
  /\ s.tx = "open" => here \in {"run", "create", "again", "rollback"}
  /\ s.hypothetical = "live" => what = "index" /\ here \in {"again", "rollback", "reset"}
  /\ here \in {"create", "again", "reset"} => what = "index"
  /\ here \in {"explain", "inspect", "relations", "verdict"} => what = "guard"

\* and what it is like when its backend has not ended since.
Prepared(here, s) ==
  /\ here \in {"set", "look", "begin", "run", "explain"} => ~s.polluted
  /\ here \in {"look", "begin", "run", "explain"} => s.ready
  /\ here \in {"set", "look", "begin", "explain"} => s.tx = "none"
  /\ here = "run" => s.tx = "open"

Sessions ==
  /\ \A c \in Conns : backend[c] # "up" => session[c] = FreshSession
  /\ \A c \in Pool : Rests(session[c])
  /\ \A t \in Threads : outer[t] # NoConn => Rests(session[outer[t]])
  /\ \A t \in Threads : conn[t] # NoConn =>
       /\ Fits(place[t], call[t], session[conn[t]])
       /\ backend[conn[t]] = "up" => Prepared(place[t], session[conn[t]])

Inv == TypeOK /\ Hands /\ Owners /\ Sessions /\ ~persisted

LEMMA InvInit == Init => Inv
<1> SUFFICES ASSUME Init PROVE Inv
  OBVIOUS
<1>1. TypeOK
  <2>1. session \in [Conns -> SessionStates] /\ persisted \in BOOLEAN /\ surface \in BOOLEAN
    BY DEF Init, SessionStates, FreshSession, Transactions, HypotheticalIndexes
  <2>2. failed \in [Threads -> BOOLEAN]
    BY DEF Init
  <2>3. idle \in Seq(Conns)
    BY DEF Init
  <2> QED
    BY <2>1, <2>2, <2>3 DEF Init, TypeOK, Calls, Places
<1>2. Hands
  BY DEF Init, Hands, Lookups
<1>3. Pool = {} /\ IsInjective(idle)
  BY DEF Init, Pool, Range, IsInjective
<1>4. Owners
  BY <1>3, ConnsAssumption DEF Init, Owners, Holds
<1>5. Sessions
  BY <1>3 DEF Init, Sessions
<1> QED
  BY <1>1, <1>2, <1>4, <1>5 DEF Inv, Init

-----------------------------------------------------------------------------
(* A statement on the connection of t, which then is at p with its session s. *)

Statement(t, p, s) ==
  /\ place' = [place EXCEPT ![t] = p]
  /\ session' = [session EXCEPT ![conn[t]] = s]
  /\ UNCHANGED <<call, conn, outer, after, backend, idle, surface>>

LEMMA StatementKeepsInv ==
  ASSUME Inv, NEW t \in Threads, place[t] \notin {"idle", "get"},
         NEW p \in Places \ {"idle", "get"}, NEW s \in SessionStates, Statement(t, p, s),
         failed' \in [Threads -> BOOLEAN], persisted' = FALSE,
         Fits(p, call[t], s),
         backend[conn[t]] = "up" => Prepared(p, s),
         backend[conn[t]] # "up" => s = FreshSession
  PROVE  Inv'
<1>1. conn[t] \in Conns /\ conn[t] # NoConn
  BY ConnsAssumption DEF Inv, TypeOK, Hands
<1>2. TypeOK'
  BY <1>1 DEF Inv, TypeOK, Statement
<1>3. Hands'
  BY DEF Inv, TypeOK, Hands, Statement
<1>4. Owners'
  BY DEF Inv, Owners, Statement, Holds, Pool
<1>5. /\ \A c \in Conns \ {conn[t]} : session'[c] = session[c]
      /\ session'[conn[t]] = s
      /\ \A u \in Threads \ {t} : place'[u] = place[u]
      /\ place'[t] = p
  BY <1>1 DEF Inv, TypeOK, Statement
<1>6. conn[t] \notin Pool /\ Pool \subseteq Conns
  BY <1>1 DEF Inv, Owners, Holds, Pool, Range, TypeOK
<1>7. \A u \in Threads : outer[u] # NoConn => outer[u] \in Conns /\ outer[u] # conn[t]
  BY <1>1 DEF Inv, TypeOK, Hands, Owners, Holds
<1>8. \A u \in Threads \ {t} : conn[u] # NoConn => conn[u] \in Conns /\ conn[u] # conn[t]
  BY <1>1 DEF Inv, TypeOK, Owners, Holds
<1>9. Pool' = Pool /\ UNCHANGED <<conn, outer, call, backend>>
  BY DEF Statement, Pool
<1>10. Sessions'
  <2>1. \A c \in Conns : backend'[c] # "up" => session'[c] = FreshSession
    BY <1>1, <1>5, <1>9 DEF Inv, Sessions
  <2>2. \A c \in Pool' : Rests(session'[c])
    BY <1>5, <1>6, <1>9 DEF Inv, Sessions
  <2>3. \A u \in Threads : outer'[u] # NoConn => Rests(session'[outer'[u]])
    BY <1>5, <1>7, <1>9 DEF Inv, Sessions
  <2>4. ASSUME NEW u \in Threads, conn'[u] # NoConn
        PROVE  /\ Fits(place'[u], call'[u], session'[conn'[u]])
               /\ backend'[conn'[u]] = "up" => Prepared(place'[u], session'[conn'[u]])
    <3>1. CASE u = t
      BY <3>1, <1>5, <1>9
    <3>2. CASE u # t
      BY <2>4, <3>2, <1>5, <1>8, <1>9 DEF Inv, Sessions
    <3> QED
      BY <3>1, <3>2
  <2> QED
    BY <2>1, <2>2, <2>3, <2>4 DEF Sessions
<1> QED
  BY <1>2, <1>3, <1>4, <1>10 DEF Inv

\* The session after an error in it.
Failed(s) == [s EXCEPT !.tx = IF @ = "none" THEN "none" ELSE "aborted"]

LEMMA FailToKeepsInv ==
  ASSUME Inv, NEW t \in Threads, place[t] \notin {"idle", "get"},
         NEW p \in {"put", "rollback"}, FailTo(t, p), persisted' = persisted,
         p = "put" => place[t] \notin {"again", "rollback", "reset"}
  PROVE  Inv'
<1> DEFINE s == session[conn[t]]
<1>1. conn[t] \in Conns /\ s \in SessionStates
  BY ConnsAssumption DEF Inv, TypeOK, Hands
<1>2. /\ Failed(s) \in SessionStates /\ Failed(s).tx # "open"
      /\ Failed(s).hypothetical = s.hypothetical
      /\ s = FreshSession => Failed(s) = FreshSession
  BY <1>1 DEF Failed, SessionStates, Transactions, FreshSession
<1>3. Fits(place[t], call[t], s) /\ (backend[conn[t]] # "up" => s = FreshSession)
  BY <1>1, ConnsAssumption DEF Inv, Sessions
<1>4. Fits(p, call[t], Failed(s))
  BY <1>2, <1>3 DEF Fits
<1>5. Statement(t, p, Failed(s))
  <2>1. session' = [session EXCEPT ![conn[t]] = Failed(s)]
    BY <1>1 DEF FailTo, Errs, Failed
  <2> QED
    BY <2>1 DEF FailTo, Statement, Go
<1>6. failed' \in [Threads -> BOOLEAN] /\ persisted' = FALSE
  BY DEF FailTo, Inv, TypeOK
<1>7. Prepared(p, Failed(s)) /\ p \in Places \ {"idle", "get"}
  BY DEF Prepared, Places
<1> QED
  BY <1>2, <1>3, <1>4, <1>5, <1>6, <1>7, StatementKeepsInv

\* What a thread in the middle of a call has in its hands.
LEMMA AtWork ==
  ASSUME Inv, NEW t \in Threads, place[t] \notin {"idle", "get"}
  PROVE  /\ conn[t] \in Conns /\ conn[t] # NoConn /\ session[conn[t]] \in SessionStates
         /\ backend[conn[t]] \in {"none", "up", "gone"}
         /\ Fits(place[t], call[t], session[conn[t]])
         /\ backend[conn[t]] = "up" => Prepared(place[t], session[conn[t]])
         /\ backend[conn[t]] # "up" => session[conn[t]] = FreshSession
         /\ failed \in [Threads -> BOOLEAN] /\ persisted = FALSE
         /\ session = [session EXCEPT ![conn[t]] = session[conn[t]]]
<1>1. conn[t] \in Conns /\ conn[t] # NoConn
  BY ConnsAssumption DEF Inv, TypeOK, Hands
<1> QED
  BY <1>1 DEF Inv, TypeOK, Sessions

LEMMA DiscardKeepsInv ==
  ASSUME Inv, NEW t \in Threads, Discard(t)
  PROVE  Inv'
<1> DEFINE s == session[conn[t]]
<1> DEFINE new == [FreshSession EXCEPT !.hypothetical = s.hypothetical]
<1>1. place[t] = "discard" /\ place[t] \notin {"idle", "get"}
  BY DEF Discard, At
<1>2. CASE FailTo(t, "put") /\ persisted' = persisted
  BY <1>1, <1>2, FailToKeepsInv
<1>3. CASE /\ Up(t) /\ session' = [session EXCEPT ![conn[t]] = new] /\ OnlyGo(t, "set")
  <2>1. s \in SessionStates /\ Fits(place[t], call[t], s)
    BY <1>1, AtWork
  <2>2. new \in SessionStates /\ Fits("set", call[t], new) /\ Prepared("set", new)
    BY <1>1, <2>1 DEF SessionStates, FreshSession, Fits, Prepared, Transactions
  <2>3. Statement(t, "set", new)
    BY <1>3 DEF Statement, OnlyGo, Go
  <2>4. failed' \in [Threads -> BOOLEAN] /\ persisted' = FALSE
    BY <1>3 DEF OnlyGo, Inv, TypeOK
  <2>5. backend[conn[t]] = "up" /\ "set" \in Places \ {"idle", "get"}
    BY <1>3 DEF Up, Places
  <2> QED
    BY <1>1, <2>2, <2>3, <2>4, <2>5, StatementKeepsInv
<1> QED
  BY <1>2, <1>3 DEF Discard, FailTo

\* A statement that succeeds and leaves new behind, or leaves all as it was.
LEMMA SucceedsKeepsInv ==
  ASSUME Inv, NEW t \in Threads, place[t] \notin {"idle", "get"},
         NEW p \in Places \ {"idle", "get"}, NEW new \in SessionStates, Up(t),
         session' = [session EXCEPT ![conn[t]] = new], OnlyGo(t, p),
         Fits(p, call[t], new), Prepared(p, new)
  PROVE  Inv'
<1>1. Statement(t, p, new) /\ backend[conn[t]] = "up"
  BY DEF Statement, OnlyGo, Go, Up
<1>2. failed' \in [Threads -> BOOLEAN] /\ persisted' = FALSE
  BY DEF OnlyGo, Inv, TypeOK
<1> QED
  BY <1>1, <1>2, StatementKeepsInv

LEMMA SetUpKeepsInv ==
  ASSUME Inv, NEW t \in Threads, SetUp(t)
  PROVE  Inv'
<1> DEFINE s == session[conn[t]]
<1> DEFINE new == [s EXCEPT !.ready = TRUE]
<1> DEFINE p == CASE call[t] = "guard" -> "explain" [] call[t] = "index" -> "look" [] OTHER -> "begin"
<1>1. place[t] = "set" /\ place[t] \notin {"idle", "get"}
  BY DEF SetUp, At
<1>2. CASE FailTo(t, "put")
  BY <1>1, <1>2, FailToKeepsInv DEF FailTo
<1>3. CASE Succeeds(t) /\ session' = [session EXCEPT ![conn[t]].ready = TRUE] /\ OnlyGo(t, p)
  <2>1. p \in {"explain", "look", "begin"}
    OBVIOUS
  <2>2. s \in SessionStates /\ Fits("set", call[t], s) /\ Prepared("set", s)
    BY <1>1, <1>3, AtWork DEF Succeeds, Up
  <2>3. new \in SessionStates /\ Fits(p, call[t], new) /\ Prepared(p, new)
    BY <2>1, <2>2 DEF SessionStates, Fits, Prepared
  <2>4. session' = [session EXCEPT ![conn[t]] = new]
    BY <1>3
  <2>5. p \in Places \ {"idle", "get"}
    BY <2>1 DEF Places
  <2>6. Up(t)
    BY <1>3 DEF Succeeds
  <2> HIDE DEF p, new
  <2> QED
    BY <1>1, <1>3, <2>3, <2>4, <2>5, <2>6, SucceedsKeepsInv
<1> QED
  BY <1>2, <1>3 DEF SetUp

LEMMA LookKeepsInv ==
  ASSUME Inv, NEW t \in Threads, Look(t)
  PROVE  Inv'
<1> DEFINE s == session[conn[t]]
<1>1. place[t] = "look" /\ place[t] \notin {"idle", "get"}
  BY DEF Look, At
<1>2. CASE FailTo(t, "put")
  BY <1>1, <1>2, FailToKeepsInv DEF FailTo
<1>3. CASE Succeeds(t) /\ OnlyGo(t, "begin") /\ UNCHANGED session
  <2>1. Up(t) /\ session' = [session EXCEPT ![conn[t]] = s] /\ s \in SessionStates
        /\ Fits("look", call[t], s) /\ Prepared("look", s)
    BY <1>1, <1>3, AtWork DEF Succeeds, Up
  <2>2. Fits("begin", call[t], s) /\ Prepared("begin", s)
    BY <2>1 DEF Fits, Prepared
  <2> QED
    BY <1>1, <1>3, <2>1, <2>2, SucceedsKeepsInv DEF Places
<1> QED
  BY <1>2, <1>3 DEF Look

LEMMA BeginKeepsInv ==
  ASSUME Inv, NEW t \in Threads, Begin(t)
  PROVE  Inv'
<1> DEFINE s == session[conn[t]]
<1> DEFINE new == [s EXCEPT !.tx = "open"]
<1>1. place[t] = "begin" /\ place[t] \notin {"idle", "get"}
  BY DEF Begin, At
<1>2. CASE FailTo(t, "put")
  BY <1>1, <1>2, FailToKeepsInv DEF FailTo
<1>3. CASE Succeeds(t) /\ session' = [session EXCEPT ![conn[t]].tx = "open"] /\ OnlyGo(t, "run")
  <2>1. Up(t) /\ session' = [session EXCEPT ![conn[t]] = new] /\ s \in SessionStates
        /\ Fits("begin", call[t], s) /\ Prepared("begin", s)
    BY <1>1, <1>3, AtWork DEF Succeeds, Up
  <2>2. new \in SessionStates /\ Fits("run", call[t], new) /\ Prepared("run", new)
    BY <2>1 DEF Fits, Prepared, SessionStates, Transactions
  <2> QED
    BY <1>1, <1>3, <2>1, <2>2, SucceedsKeepsInv DEF Places
<1> QED
  BY <1>2, <1>3 DEF Begin

\* The statement of the caller runs in the transaction that was opened for it.
LEMMA RunKeepsInv ==
  ASSUME Inv, NEW t \in Threads, Run(t)
  PROVE  Inv'
<1> DEFINE s == session[conn[t]]
<1>1. place[t] = "run" /\ place[t] \notin {"idle", "get"} /\ call[t] # "index"
  BY DEF Run, At
<1>2. CASE FailTo(t, IF call[t] = "plain" THEN "put" ELSE "rollback")
  BY <1>1, <1>2, FailToKeepsInv DEF FailTo
<1>3. ASSUME Succeeds(t), NEW leftover \in BOOLEAN, NEW over \in BOOLEAN,
             session' = [session EXCEPT ![conn[t]].polluted = @ \/ leftover],
             persisted' = (persisted \/ Tx(t) = "none"),
             failed' = [failed EXCEPT ![t] = over], Go(t, "rollback"),
             UNCHANGED <<call, conn, outer, after, backend, idle, surface>>
      PROVE  Inv'
  <2>1. Up(t) /\ backend[conn[t]] = "up" /\ s \in SessionStates
        /\ Fits("run", call[t], s) /\ Prepared("run", s) /\ persisted = FALSE
        /\ failed \in [Threads -> BOOLEAN]
    BY <1>1, <1>3, AtWork DEF Succeeds, Up
  <2>2. persisted' = FALSE /\ failed' \in [Threads -> BOOLEAN]
    BY <1>3, <2>1 DEF Tx, Prepared
  <2>3. PICK left \in BOOLEAN : session' = [session EXCEPT ![conn[t]].polluted = left]
    BY <1>3, <2>1 DEF SessionStates
  <2> DEFINE new == [s EXCEPT !.polluted = left]
  <2>4. new \in SessionStates /\ Fits("rollback", call[t], new) /\ Prepared("rollback", new)
    BY <1>1, <2>1 DEF Fits, Prepared, SessionStates
  <2>5. Statement(t, "rollback", new)
    BY <1>3, <2>3 DEF Statement, Go
  <2> HIDE DEF new
  <2> QED
    BY <1>1, <2>1, <2>2, <2>4, <2>5, StatementKeepsInv DEF Places
<1> QED
  BY <1>2, <1>3 DEF Run

LEMMA PlanBeforeKeepsInv ==
  ASSUME Inv, NEW t \in Threads, PlanBefore(t)
  PROVE  Inv'
<1> DEFINE s == session[conn[t]]
<1>1. place[t] = "run" /\ place[t] \notin {"idle", "get"} /\ call[t] = "index"
  BY DEF PlanBefore, At
<1>2. CASE FailTo(t, "rollback")
  BY <1>1, <1>2, FailToKeepsInv DEF FailTo
<1>3. CASE Succeeds(t) /\ OnlyGo(t, "create") /\ UNCHANGED session
  <2>1. Up(t) /\ session' = [session EXCEPT ![conn[t]] = s] /\ s \in SessionStates
        /\ Fits("run", call[t], s)
    BY <1>1, <1>3, AtWork DEF Succeeds
  <2>2. Fits("create", call[t], s) /\ Prepared("create", s)
    BY <1>1, <2>1 DEF Fits, Prepared
  <2> QED
    BY <1>1, <1>3, <2>1, <2>2, SucceedsKeepsInv DEF Places
<1> QED
  BY <1>2, <1>3 DEF PlanBefore

LEMMA CreateKeepsInv ==
  ASSUME Inv, NEW t \in Threads, CreateHypothetical(t)
  PROVE  Inv'
<1> DEFINE s == session[conn[t]]
<1> DEFINE new == [s EXCEPT !.hypothetical = "live"]
<1>1. place[t] = "create" /\ place[t] \notin {"idle", "get"}
  BY DEF CreateHypothetical, At
<1>2. CASE FailTo(t, "rollback")
  BY <1>1, <1>2, FailToKeepsInv DEF FailTo
<1>3. CASE Succeeds(t) /\ session' = [session EXCEPT ![conn[t]].hypothetical = "live"] /\ OnlyGo(t, "again")
  <2>1. Up(t) /\ session' = [session EXCEPT ![conn[t]] = new] /\ s \in SessionStates
        /\ Fits("create", call[t], s)
    BY <1>1, <1>3, AtWork DEF Succeeds
  <2>2. new \in SessionStates /\ Fits("again", call[t], new) /\ Prepared("again", new)
    BY <2>1 DEF Fits, Prepared, SessionStates, HypotheticalIndexes
  <2> QED
    BY <1>1, <1>3, <2>1, <2>2, SucceedsKeepsInv DEF Places
<1> QED
  BY <1>2, <1>3 DEF CreateHypothetical

LEMMA PlanAfterKeepsInv ==
  ASSUME Inv, NEW t \in Threads, PlanAfter(t)
  PROVE  Inv'
<1> DEFINE s == session[conn[t]]
<1>1. place[t] = "again" /\ place[t] \notin {"idle", "get"}
  BY DEF PlanAfter, At
<1>2. CASE FailTo(t, "rollback")
  BY <1>1, <1>2, FailToKeepsInv DEF FailTo
<1>3. CASE Succeeds(t) /\ OnlyGo(t, "rollback") /\ UNCHANGED session
  <2>1. Up(t) /\ session' = [session EXCEPT ![conn[t]] = s] /\ s \in SessionStates
        /\ Fits("again", call[t], s)
    BY <1>1, <1>3, AtWork DEF Succeeds
  <2>2. Fits("rollback", call[t], s) /\ Prepared("rollback", s)
    BY <2>1 DEF Fits, Prepared
  <2> QED
    BY <1>1, <1>3, <2>1, <2>2, SucceedsKeepsInv DEF Places
<1> QED
  BY <1>2, <1>3 DEF PlanAfter

LEMMA ExplainKeepsInv ==
  ASSUME Inv, NEW t \in Threads, Explain(t)
  PROVE  Inv'
<1> DEFINE s == session[conn[t]]
<1>1. place[t] = "explain" /\ place[t] \notin {"idle", "get"}
  BY DEF Explain, At
<1>2. CASE FailTo(t, "put")
  BY <1>1, <1>2, FailToKeepsInv DEF FailTo
<1>3. CASE Succeeds(t) /\ OnlyGo(t, "inspect") /\ UNCHANGED session
  <2>1. Up(t) /\ session' = [session EXCEPT ![conn[t]] = s] /\ s \in SessionStates
        /\ Fits("explain", call[t], s)
    BY <1>1, <1>3, AtWork DEF Succeeds
  <2>2. Fits("inspect", call[t], s) /\ Prepared("inspect", s)
    BY <2>1 DEF Fits, Prepared
  <2> QED
    BY <1>1, <1>3, <2>1, <2>2, SucceedsKeepsInv DEF Places
<1> QED
  BY <1>2, <1>3 DEF Explain

\* What becomes of a session whose backend is gone: nothing.
LEMMA RollbackKeepsInv ==
  ASSUME Inv, NEW t \in Threads, Rollback(t)
  PROVE  Inv'
<1> DEFINE s == session[conn[t]]
<1> DEFINE new == IF Up(t) THEN [s EXCEPT !.tx = "none"] ELSE s
<1> DEFINE p == IF call[t] = "index" THEN "reset" ELSE "put"
<1>1. place[t] = "rollback" /\ place[t] \notin {"idle", "get"}
  BY DEF Rollback, At
<1>2. /\ s \in SessionStates /\ Fits("rollback", call[t], s) /\ conn[t] \in Conns
      /\ backend[conn[t]] # "up" => s = FreshSession
      /\ session = [session EXCEPT ![conn[t]] = s]
  BY <1>1, AtWork
<1>3. new \in SessionStates /\ new.tx # "open" /\ new.hypothetical = s.hypothetical
      /\ (backend[conn[t]] # "up" => new = FreshSession)
  BY <1>2 DEF SessionStates, Transactions, Up, FreshSession
<1>4. session' = [session EXCEPT ![conn[t]] = new]
  BY <1>2 DEF Rollback
<1>5. Fits(p, call[t], new) /\ Prepared(p, new) /\ p \in Places \ {"idle", "get"}
  BY <1>2, <1>3 DEF Fits, Prepared, Places
<1>6. Statement(t, p, new) /\ failed' \in [Threads -> BOOLEAN] /\ persisted' = FALSE
  BY <1>4 DEF Rollback, OnlyGo, Go, Statement, Inv, TypeOK
<1> HIDE DEF new, p
<1> QED
  BY <1>1, <1>3, <1>5, <1>6, StatementKeepsInv

LEMMA ResetKeepsInv ==
  ASSUME Inv, NEW t \in Threads, Reset(t)
  PROVE  Inv'
<1> DEFINE s == session[conn[t]]
<1>1. place[t] = "reset" /\ place[t] \notin {"idle", "get"}
  BY DEF Reset, At
<1>2. /\ s \in SessionStates /\ Fits("reset", call[t], s) /\ conn[t] \in Conns
      /\ backend[conn[t]] # "up" => s = FreshSession
  BY <1>1, AtWork
<1>3. PICK h \in {"none", "kept"} :
        /\ session' = [session EXCEPT ![conn[t]] = [s EXCEPT !.hypothetical = h]]
        /\ backend[conn[t]] # "up" => h = "none"
  <2>1. CASE /\ Succeeds(t)
             /\ session' = [session EXCEPT ![conn[t]].hypothetical = "none"]
    BY <2>1 DEF Succeeds, Up
  <2>2. CASE session' = [session EXCEPT ![conn[t]].hypothetical = IF @ = "none" THEN "none" ELSE "kept"]
    <3> DEFINE k == IF s.hypothetical = "none" THEN "none" ELSE "kept"
    <3>1. session' = [session EXCEPT ![conn[t]] = [s EXCEPT !.hypothetical = k]]
      BY <2>2, <1>2
    <3>2. backend[conn[t]] # "up" => k = "none"
      BY <1>2 DEF FreshSession
    <3>3. k \in {"none", "kept"}
      OBVIOUS
    <3> HIDE DEF k
    <3> QED
      BY <3>1, <3>2, <3>3
  <2> QED
    BY <2>1, <2>2 DEF Reset
<1> DEFINE new == [s EXCEPT !.hypothetical = h]
<1>4. new \in SessionStates /\ new.tx = s.tx /\ new.hypothetical = h
      /\ (backend[conn[t]] # "up" => new = FreshSession)
  BY <1>2, <1>3 DEF SessionStates, HypotheticalIndexes, FreshSession
<1>5. Fits("put", call[t], new) /\ Prepared("put", new) /\ "put" \in Places \ {"idle", "get"}
  BY <1>2, <1>4 DEF Fits, Prepared, Places
<1>6. Statement(t, "put", new) /\ failed' \in [Threads -> BOOLEAN] /\ persisted' = FALSE
  BY <1>3 DEF Reset, OnlyGo, Go, Statement, Inv, TypeOK
<1> HIDE DEF new
<1> QED
  BY <1>1, <1>4, <1>5, <1>6, StatementKeepsInv

LEMMA VerdictKeepsInv ==
  ASSUME Inv, NEW t \in Threads, Verdict(t)
  PROVE  Inv'
<1> DEFINE s == session[conn[t]]
<1>1. place[t] \in {"inspect", "relations", "verdict"} /\ place[t] \notin {"idle", "get"}
  BY DEF Verdict, At
<1>2. /\ s \in SessionStates /\ Fits(place[t], call[t], s)
      /\ backend[conn[t]] # "up" => s = FreshSession
      /\ session = [session EXCEPT ![conn[t]] = s]
      /\ failed \in [Threads -> BOOLEAN] /\ persisted = FALSE
  BY <1>1, AtWork
<1>3. Fits("put", call[t], s) /\ Prepared("put", s) /\ "put" \in Places \ {"idle", "get"}
  BY <1>1, <1>2 DEF Fits, Prepared, Places
<1>4. Statement(t, "put", s) /\ failed' \in [Threads -> BOOLEAN] /\ persisted' = FALSE
  BY <1>2 DEF Verdict, Go, Statement
<1> QED
  BY <1>1, <1>2, <1>3, <1>4, StatementKeepsInv

-----------------------------------------------------------------------------
(* Connections go from hand to hand.                                         *)

\* The pool and the hands as sets.
LEMMA HandsAndPool ==
  ASSUME Inv
  PROVE  /\ Pool \subseteq Conns /\ \A i \in DOMAIN idle : idle[i] \in Pool
         /\ idle \in Seq(Conns) /\ IsInjective(idle)
         /\ \A t \in Threads : conn[t] # NoConn => conn[t] \in Conns
         /\ \A t \in Threads : outer[t] # NoConn => outer[t] \in Conns
  BY DEF Inv, TypeOK, Owners, Pool, Range

\* No job is a lookup.
LEMMA JobIsNoLookup ==
  ASSUME NEW job \in Jobs
  PROVE  job[1] \in Calls \ Lookups
<1>1. PICK what \in Calls \ Lookups, b \in {TRUE, FALSE, surface} : job = <<what, b>>
  BY DEF Jobs, Calls, Lookups
<1>2. <<what, b>>[1] = what
  OBVIOUS
<1> QED
  BY <1>1, <1>2

LEMMA StartKeepsInv ==
  ASSUME Inv, NEW t \in Threads, Start(t)
  PROVE  Inv'
<1>1. place[t] = "idle" /\ conn[t] = NoConn /\ outer[t] = NoConn
  BY DEF Start, At, Inv, Hands
<1>2. PICK what \in Calls \ Lookups, then \in Calls \ Lookups :
        call' = [call EXCEPT ![t] = what] /\ after' = [after EXCEPT ![t] = then]
  <2>1. PICK job \in Jobs :
          /\ call' = [call EXCEPT ![t] = IF job[2] THEN "guard" ELSE job[1]]
          /\ after' = [after EXCEPT ![t] = job[1]]
    BY DEF Start
  <2> DEFINE what == IF job[2] THEN "guard" ELSE job[1]
  <2>2. job[1] \in Calls \ Lookups
    BY JobIsNoLookup
  <2>3. what \in Calls \ Lookups
    BY <2>2 DEF Calls, Lookups
  <2>4. call' = [call EXCEPT ![t] = what]
    BY <2>1
  <2> HIDE DEF what
  <2> QED
    BY <2>1, <2>2, <2>3, <2>4
<1>3. /\ failed' = [failed EXCEPT ![t] = FALSE] /\ place' = [place EXCEPT ![t] = "get"]
      /\ UNCHANGED <<conn, outer, session, backend, idle, persisted, surface>>
      /\ Pool' = Pool
  BY DEF Start, Go, Pool
<1>4. TypeOK'
  BY <1>2, <1>3 DEF Inv, TypeOK, Places
<1>5. Hands'
  BY <1>1, <1>2, <1>3 DEF Inv, TypeOK, Hands
<1>6. Owners'
  BY <1>3 DEF Inv, Owners, Holds
<1>7. Sessions'
  BY <1>1, <1>2, <1>3 DEF Inv, TypeOK, Sessions
<1> QED
  BY <1>3, <1>4, <1>5, <1>6, <1>7 DEF Inv

\* A thread that waits gets connection c, which is at rest, or new.
Gets(t, c) ==
  /\ place[t] = "get"
  /\ conn' = [conn EXCEPT ![t] = c]
  /\ place' = [place EXCEPT ![t] = IF call[t] = "probe" THEN "put" ELSE "discard"]
  /\ UNCHANGED <<call, outer, after, failed, persisted, surface>>

LEMMA GetsKeepsInv ==
  ASSUME Inv, NEW t \in Threads, NEW c \in Conns, Gets(t, c),
         \A u \in Threads : ~Holds(u, c),
         idle' \in Seq(Conns), IsInjective(idle'), Pool' = Pool \ {c},
         backend' = [backend EXCEPT ![c] = "up"],
         session' \in [Conns -> SessionStates],
         \A d \in Conns \ {c} : session'[d] = session[d], Rests(session'[c])
  PROVE  Inv'
<1>1. c # NoConn /\ c \notin Pool' /\ conn[t] = NoConn
  BY ConnsAssumption DEF Inv, Hands, Gets
<1>2. TypeOK'
  BY DEF Inv, TypeOK, Gets, Places
<1>3. /\ conn'[t] = c /\ place'[t] \in {"put", "discard"}
      /\ \A u \in Threads \ {t} : conn'[u] = conn[u] /\ place'[u] = place[u]
      /\ UNCHANGED <<call, outer, surface>>
  BY DEF Inv, TypeOK, Gets
<1>4. \A u \in Threads : conn[u] # c /\ outer[u] # c
  BY DEF Holds
<1>5. Hands'
  BY <1>1, <1>3, <1>4 DEF Inv, Hands, Gets
<1>6. Owners'
  <2>1. \A d \in Conns \ {c} : \A u \in Threads : Holds(u, d)' <=> Holds(u, d)
    BY <1>1, <1>3, ConnsAssumption DEF Holds
  <2>2. \A u \in Threads : Holds(u, c)' <=> u = t
    BY <1>3, <1>4 DEF Holds
  <2>3. backend'[c] = "up" /\ \A d \in Conns \ {c} : backend'[d] = backend[d] /\ (d \in Pool' <=> d \in Pool)
    BY DEF Inv, TypeOK
  <2> QED
    BY <1>1, <2>1, <2>2, <2>3 DEF Inv, Owners
<1>7. Sessions'
  <2>1. \A d \in Conns : backend'[d] # "up" => session'[d] = FreshSession
    BY DEF Inv, TypeOK, Sessions
  <2>2. \A d \in Pool' : Rests(session'[d])
    BY HandsAndPool DEF Inv, Sessions
  <2>3. \A u \in Threads : outer'[u] # NoConn => Rests(session'[outer'[u]])
    BY <1>3, <1>4, HandsAndPool DEF Inv, Sessions
  <2>4. ASSUME NEW u \in Threads, conn'[u] # NoConn
        PROVE  /\ Fits(place'[u], call'[u], session'[conn'[u]])
               /\ backend'[conn'[u]] = "up" => Prepared(place'[u], session'[conn'[u]])
    <3>1. CASE u = t
      BY <3>1, <1>3 DEF Fits, Prepared, Rests
    <3>2. CASE u # t
      <4>1. conn[u] \in Conns \ {c} /\ conn'[u] = conn[u] /\ place'[u] = place[u] /\ call' = call
        BY <2>4, <3>2, <1>3, <1>4, HandsAndPool
      <4>2. backend'[conn[u]] = backend[conn[u]] /\ session'[conn[u]] = session[conn[u]]
        BY <4>1 DEF Inv, TypeOK
      <4> QED
        BY <2>4, <4>1, <4>2 DEF Inv, Sessions
    <3> QED
      BY <3>1, <3>2
  <2> QED
    BY <2>1, <2>2, <2>3, <2>4 DEF Sessions
<1> QED
  BY <1>2, <1>5, <1>6, <1>7 DEF Inv, Gets

LEMMA CheckoutKeepsInv ==
  ASSUME Inv, NEW t \in Threads, Checkout(t)
  PROVE  Inv'
<1> DEFINE c == Last(idle)
<1>1. /\ idle' \in Seq(Conns) /\ IsInjective(idle') /\ c \in Pool /\ c \in Conns
      /\ Pool' = Pool \ {c}
  BY HandsAndPool, PoolShrinks DEF Checkout, Pool
<1>2. \A u \in Threads : ~Holds(u, c)
  BY <1>1 DEF Inv, Owners
<1>3. Gets(t, c)
  BY DEF Checkout, Gets, At, Go
<1>4. Rests(session[c]) /\ session \in [Conns -> SessionStates] /\ UNCHANGED session
  BY <1>1 DEF Inv, Sessions, TypeOK, Checkout
<1>5. backend' = [backend EXCEPT ![c] = "up"]
  BY <1>1 DEF Checkout, Inv, TypeOK
<1> HIDE DEF c
<1> QED
  BY <1>1, <1>2, <1>3, <1>4, <1>5, GetsKeepsInv

LEMMA ConnectKeepsInv ==
  ASSUME Inv, NEW t \in Threads, Connect(t)
  PROVE  Inv'
<1>1. PICK c \in Conns : /\ backend[c] = "none"
                         /\ backend' = [backend EXCEPT ![c] = "up"]
                         /\ session' = [session EXCEPT ![c] = FreshSession]
                         /\ conn' = [conn EXCEPT ![t] = c]
  BY DEF Connect
<1>2. c \notin Pool /\ \A u \in Threads : ~Holds(u, c)
  BY <1>1 DEF Inv, Owners
<1>3. Gets(t, c) /\ idle' = idle /\ Pool' = Pool \ {c}
  BY <1>1, <1>2 DEF Connect, Gets, At, Go, Pool
<1>4. FreshSession \in SessionStates /\ Rests(FreshSession)
  BY DEF FreshSession, SessionStates, Rests, Transactions, HypotheticalIndexes
<1>5. /\ session' \in [Conns -> SessionStates] /\ \A d \in Conns \ {c} : session'[d] = session[d]
      /\ Rests(session'[c])
  BY <1>1, <1>4 DEF Inv, TypeOK
<1> QED
  BY <1>1, <1>2, <1>3, <1>5, HandsAndPool, GetsKeepsInv

LEMMA DropDeadKeepsInv ==
  ASSUME Inv, NEW t \in Threads, DropDead(t)
  PROVE  Inv'
<1> DEFINE c == Last(idle)
<1>1. /\ idle' \in Seq(Conns) /\ IsInjective(idle') /\ c \in Pool /\ c \in Conns
      /\ Pool' = Pool \ {c}
  BY HandsAndPool, PoolShrinks DEF DropDead, Pool
<1>2. \A u \in Threads : ~Holds(u, c)
  BY <1>1 DEF Inv, Owners
<1>3. /\ backend' = [backend EXCEPT ![c] = "none"] /\ backend[c] # "up"
      /\ UNCHANGED <<call, place, conn, outer, after, failed, session, persisted, surface>>
  BY DEF DropDead, thread
<1> HIDE DEF c
<1>4. backend'[c] = "none" /\ \A d \in Conns \ {c} : backend'[d] = backend[d]
  BY <1>1, <1>3 DEF Inv, TypeOK
<1>5. TypeOK'
  BY <1>1, <1>3 DEF Inv, TypeOK
<1>6. Hands'
  BY <1>3 DEF Inv, Hands
<1>7. Owners'
  BY <1>1, <1>2, <1>3, <1>4 DEF Inv, Owners, Holds
<1>8. Sessions'
  <2>1. \A u \in Threads : conn[u] # NoConn => conn[u] \in Conns \ {c}
    BY <1>2, HandsAndPool DEF Holds
  <2> QED
    BY <1>1, <1>3, <1>4, <2>1 DEF Inv, Sessions
<1> QED
  BY <1>3, <1>5, <1>6, <1>7, <1>8 DEF Inv

LEMMA BackendEndsKeepsInv ==
  ASSUME Inv, NEW c \in Conns, BackendEnds(c)
  PROVE  Inv'
<1>1. /\ backend[c] = "up" /\ backend' = [backend EXCEPT ![c] = "gone"]
      /\ session' = [session EXCEPT ![c] = FreshSession] /\ Pool' = Pool
      /\ UNCHANGED <<call, place, conn, outer, after, failed, idle, persisted, surface>>
  BY DEF BackendEnds, thread, Pool
<1>2. FreshSession \in SessionStates /\ Rests(FreshSession)
  BY DEF FreshSession, SessionStates, Rests, Transactions, HypotheticalIndexes
<1>3. /\ backend'[c] = "gone" /\ session'[c] = FreshSession
      /\ \A d \in Conns \ {c} : backend'[d] = backend[d] /\ session'[d] = session[d]
  BY <1>1 DEF Inv, TypeOK
<1>4. TypeOK'
  BY <1>1, <1>2 DEF Inv, TypeOK
<1>5. Hands'
  BY <1>1 DEF Inv, Hands
<1>6. Owners'
  <2>1. \A d \in Conns : backend'[d] = "none" <=> backend[d] = "none"
    BY <1>1, <1>3
  <2> QED
    BY <1>1, <2>1 DEF Inv, Owners, Holds
<1>7. Sessions'
  <2>1. \A d \in Conns : backend'[d] # "up" => session'[d] = FreshSession
    BY <1>3 DEF Inv, Sessions
  <2>2. \A d \in Pool' : Rests(session'[d])
    BY <1>1, <1>2, <1>3, HandsAndPool DEF Inv, Sessions
  <2>3. \A u \in Threads : outer'[u] # NoConn => Rests(session'[outer'[u]])
    BY <1>1, <1>2, <1>3, HandsAndPool DEF Inv, Sessions
  <2>4. ASSUME NEW u \in Threads, conn[u] # NoConn
        PROVE  /\ Fits(place[u], call[u], session'[conn[u]])
               /\ backend'[conn[u]] = "up" => Prepared(place[u], session'[conn[u]])
    <3>1. conn[u] \in Conns
      BY <2>4, HandsAndPool
    <3>2. CASE conn[u] = c
      BY <3>2, <2>4, <1>3 DEF Inv, Sessions, Fits, FreshSession
    <3>3. CASE conn[u] # c
      BY <3>1, <3>3, <2>4, <1>3 DEF Inv, Sessions
    <3> QED
      BY <3>2, <3>3
  <2> QED
    BY <1>1, <2>1, <2>2, <2>3, <2>4 DEF Sessions
<1> QED
  BY <1>1, <1>4, <1>5, <1>6, <1>7 DEF Inv

LEMMA LookUpKeepsInv ==
  ASSUME Inv, NEW t \in Threads, LookUp(t)
  PROVE  Inv'
<1> DEFINE c == conn[t]
<1>1. PICK what \in Lookups : /\ call' = [call EXCEPT ![t] = what]
                             /\ place[t] \in {"inspect", "relations"}
  <2>1. PICK here \in {<<"inspect", "functions">>, <<"relations", "parents">>} :
          At(t, here[1]) /\ call' = [call EXCEPT ![t] = here[2]]
    BY DEF LookUp
  <2>2. CASE here = <<"inspect", "functions">>
    BY <2>1, <2>2 DEF At, Lookups
  <2>3. CASE here = <<"relations", "parents">>
    BY <2>1, <2>3 DEF At, Lookups
  <2> QED
    BY <2>1, <2>2, <2>3
<1>2. place[t] \notin {"idle", "get"}
  BY <1>1
<1>3. /\ outer' = [outer EXCEPT ![t] = c] /\ conn' = [conn EXCEPT ![t] = NoConn]
      /\ place' = [place EXCEPT ![t] = "get"] /\ surface
      /\ UNCHANGED <<after, failed, session, backend, idle, persisted, surface>>
      /\ Pool' = Pool
  BY DEF LookUp, Go, Pool
<1>4. c \in Conns /\ c # NoConn /\ Fits(place[t], call[t], session[c])
  BY <1>2, AtWork
<1>5. outer[t] = NoConn /\ Rests(session[c])
  BY <1>1, <1>4 DEF Fits, Rests, Inv, Hands, Lookups
<1>6. /\ outer'[t] = c /\ conn'[t] = NoConn /\ place'[t] = "get" /\ call'[t] \in Lookups
      /\ \A u \in Threads \ {t} : /\ outer'[u] = outer[u] /\ conn'[u] = conn[u]
                                   /\ place'[u] = place[u] /\ call'[u] = call[u]
  BY <1>1, <1>3 DEF Inv, TypeOK
<1>7. TypeOK'
  BY <1>1, <1>3, <1>4 DEF Inv, TypeOK, Places, Calls, Lookups
<1>8. Hands'
  BY <1>3, <1>4, <1>6 DEF Inv, Hands
<1>9. Owners'
  <2>1. \A d \in Conns, u \in Threads : Holds(u, d)' <=> Holds(u, d)
    BY <1>5, <1>6, ConnsAssumption DEF Holds
  <2> QED
    BY <2>1, <1>3 DEF Inv, Owners
<1>10. Sessions'
  <2>1. \A u \in Threads : outer'[u] # NoConn => Rests(session[outer'[u]])
    BY <1>5, <1>6 DEF Inv, Sessions
  <2>2. ASSUME NEW u \in Threads, conn'[u] # NoConn
        PROVE  /\ Fits(place'[u], call'[u], session[conn'[u]])
               /\ backend[conn'[u]] = "up" => Prepared(place'[u], session[conn'[u]])
    BY <2>2, <1>6 DEF Inv, Sessions
  <2> QED
    BY <1>3, <2>1, <2>2 DEF Inv, Sessions
<1> QED
  BY <1>3, <1>7, <1>8, <1>9, <1>10 DEF Inv

\* A call returns: t has given back the connection it worked on, if any, to the pool
\* or for good, and takes up that of cost_guard again after a lookup.
LEMMA ReturnsFacts ==
  ASSUME Inv, NEW t \in Threads, NEW bad \in BOOLEAN, Returns(t, bad), place[t] # "idle",
         UNCHANGED <<persisted, surface>>
  PROVE  /\ call' \in [Threads -> Calls] /\ after' \in [Threads -> Calls]
         /\ place' \in [Threads -> Places] /\ failed' \in [Threads -> BOOLEAN]
         /\ conn' = [conn EXCEPT ![t] = outer[t]] /\ outer' = [outer EXCEPT ![t] = NoConn]
         /\ \A u \in Threads \ {t} : place'[u] = place[u] /\ call'[u] = call[u]
         /\ call'[t] \in Calls \ Lookups /\ \A u \in Threads : after'[u] \notin Lookups
         /\ place'[t] \in {"idle", "get"} <=> outer[t] = NoConn
         /\ outer[t] # NoConn => call'[t] = "guard" /\ place'[t] \in {"put", "relations", "verdict"}
<1>1. call[t] \in Calls /\ after[t] \in Calls /\ (call[t] \in Lookups <=> outer[t] # NoConn)
      /\ \A u \in Threads : after[u] \notin Lookups
  BY DEF Inv, TypeOK, Hands
<1>2. t \in Threads /\ call \in [Threads -> Calls] /\ after \in [Threads -> Calls]
      /\ place \in [Threads -> Places] /\ failed \in [Threads -> BOOLEAN]
      /\ conn \in [Threads -> Conns \cup {NoConn}] /\ outer \in [Threads -> Conns \cup {NoConn}]
  BY DEF Inv, TypeOK
<1>3. CASE call[t] \in Lookups
  <2> DEFINE fatal == bad /\ call[t] = "functions"
  <2> DEFINE p == IF fatal THEN "put" ELSE IF call[t] = "functions" THEN "relations" ELSE "verdict"
  <2>1. /\ place' = [place EXCEPT ![t] = p] /\ call' = [call EXCEPT ![t] = "guard"]
        /\ failed' = [failed EXCEPT ![t] = fatal]
        /\ conn' = [conn EXCEPT ![t] = outer[t]] /\ outer' = [outer EXCEPT ![t] = NoConn]
        /\ after' = after
    BY <1>3 DEF Returns, Go, Lookups
  <2>2. p \in {"put", "relations", "verdict"} /\ fatal \in BOOLEAN
    OBVIOUS
  <2> HIDE DEF p, fatal
  <2>3. place' \in [Threads -> Places]
    BY <1>2, <2>1, <2>2 DEF Places
  <2>4. failed' \in [Threads -> BOOLEAN]
    BY <1>2, <2>1, <2>2
  <2>5. call' \in [Threads -> Calls] /\ call'[t] = "guard" /\ "guard" \in Calls \ Lookups
    BY <1>2, <2>1 DEF Calls, Lookups
  <2>6. place'[t] = p /\ \A u \in Threads \ {t} : place'[u] = place[u] /\ call'[u] = call[u]
    BY <1>2, <2>1
  <2> QED
    BY <1>1, <1>2, <1>3, <2>1, <2>2, <2>3, <2>4, <2>5, <2>6
<1>4. CASE call[t] = "guard" /\ ~bad
  <2>1. /\ place' = [place EXCEPT ![t] = "get"] /\ call' = [call EXCEPT ![t] = after[t]]
        /\ conn' = [conn EXCEPT ![t] = NoConn] /\ UNCHANGED <<outer, after, failed>>
    BY <1>4 DEF Returns, Go, Lookups
  <2>2. outer[t] = NoConn
    BY <1>1, <1>4 DEF Lookups
  <2> QED
    BY <1>1, <1>2, <2>1, <2>2 DEF Places
<1>5. CASE call[t] \notin Lookups /\ ~(call[t] = "guard" /\ ~bad)
  <2>1. /\ place' = [place EXCEPT ![t] = "idle"] /\ call' = [call EXCEPT ![t] = "probe"]
        /\ after' = [after EXCEPT ![t] = "probe"] /\ failed' = [failed EXCEPT ![t] = FALSE]
        /\ conn' = [conn EXCEPT ![t] = NoConn] /\ outer' = outer
    BY <1>5 DEF Returns, Go
  <2>2. outer[t] = NoConn
    BY <1>1, <1>5
  <2> QED
    BY <1>1, <1>2, <2>1, <2>2 DEF Places, Calls, Lookups
<1> QED
  BY <1>3, <1>4, <1>5

\* What t had in its hands is with nobody now, or in the pool; the rest stays.
LEMMA ReturnsKeepsInv ==
  ASSUME Inv, NEW t \in Threads, NEW bad \in BOOLEAN, Returns(t, bad), place[t] # "idle",
         UNCHANGED <<session, persisted, surface>>,
         idle' \in Seq(Conns), IsInjective(idle'),
         backend' \in [Conns -> {"none", "up", "gone"}],
         \A d \in Conns : d # conn[t] => backend'[d] = backend[d] /\ (d \in Pool' <=> d \in Pool),
         conn[t] # NoConn =>
           /\ backend'[conn[t]] = "none" <=> conn[t] \notin Pool'
           /\ backend'[conn[t]] # "up" => session[conn[t]] = FreshSession
           /\ Rests(session[conn[t]])
  PROVE  Inv'
<1>1. /\ call' \in [Threads -> Calls] /\ after' \in [Threads -> Calls]
      /\ place' \in [Threads -> Places] /\ failed' \in [Threads -> BOOLEAN]
      /\ conn' = [conn EXCEPT ![t] = outer[t]] /\ outer' = [outer EXCEPT ![t] = NoConn]
      /\ \A u \in Threads \ {t} : place'[u] = place[u] /\ call'[u] = call[u]
      /\ call'[t] \in Calls \ Lookups /\ \A u \in Threads : after'[u] \notin Lookups
      /\ place'[t] \in {"idle", "get"} <=> outer[t] = NoConn
      /\ outer[t] # NoConn => call'[t] = "guard" /\ place'[t] \in {"put", "relations", "verdict"}
  BY ReturnsFacts
<1>2. /\ conn'[t] = outer[t] /\ outer'[t] = NoConn
      /\ \A u \in Threads \ {t} : conn'[u] = conn[u] /\ outer'[u] = outer[u]
  BY <1>1 DEF Inv, TypeOK
<1>3. TypeOK'
  BY <1>1 DEF Inv, TypeOK
<1>4. Hands'
  BY <1>1, <1>2 DEF Inv, Hands
<1>5. \A d \in Conns, u \in Threads : Holds(u, d)' <=> Holds(u, d) /\ ~(u = t /\ d = conn[t])
  BY <1>2, ConnsAssumption DEF Holds, Inv, Hands
<1>6. Owners'
  <2>1. \A d \in Conns : \A u, v \in Threads : Holds(u, d)' /\ Holds(v, d)' => u = v
    BY <1>5 DEF Inv, Owners
  <2>2. ASSUME NEW d \in Conns
        PROVE  /\ (\E u \in Threads : Holds(u, d)') => d \notin Pool'
               /\ backend'[d] = "none" <=> d \notin Pool' /\ \A u \in Threads : ~Holds(u, d)'
    <3>1. CASE d = conn[t]
      <4>1. \A u \in Threads : ~Holds(u, d)'
        BY <1>5, <3>1 DEF Inv, Owners, Holds
      <4> QED
        BY <3>1, <4>1, ConnsAssumption
    <3>2. CASE d # conn[t]
      <4>1. \A u \in Threads : Holds(u, d)' <=> Holds(u, d)
        BY <1>5, <3>2
      <4> QED
        BY <3>2, <4>1 DEF Inv, Owners
    <3> QED
      BY <3>1, <3>2
  <2> QED
    BY <2>1, <2>2 DEF Owners
<1>7. Sessions'
  <2>1. \A d \in Conns : backend'[d] # "up" => session[d] = FreshSession
    BY ConnsAssumption DEF Inv, Sessions
  <2>2. \A d \in Pool' : Rests(session[d])
    <3>1. Pool' \subseteq Conns
      BY DEF Pool, Range
    <3> QED
      BY <3>1, ConnsAssumption DEF Inv, Sessions
  <2>3. \A u \in Threads : outer'[u] # NoConn => Rests(session[outer'[u]])
    BY <1>2 DEF Inv, Sessions
  <2>4. ASSUME NEW u \in Threads, conn'[u] # NoConn
        PROVE  /\ Fits(place'[u], call'[u], session[conn'[u]])
               /\ backend'[conn'[u]] = "up" => Prepared(place'[u], session[conn'[u]])
    <3>1. CASE u = t
      <4>1. Rests(session[outer[t]]) /\ place'[t] \in {"put", "relations", "verdict"}
            /\ call'[t] = "guard"
        BY <2>4, <3>1, <1>1, <1>2 DEF Inv, Sessions
      <4> QED
        BY <3>1, <4>1, <1>2 DEF Rests, Fits, Prepared
    <3>2. CASE u # t
      <4>1. conn'[u] = conn[u] /\ conn[u] \in Conns /\ conn[u] # conn[t]
        BY <2>4, <3>2, <1>2, HandsAndPool DEF Inv, Owners, Holds
      <4> QED
        BY <2>4, <3>2, <4>1, <1>1 DEF Inv, Sessions
    <3> QED
      BY <3>1, <3>2
  <2> QED
    BY <2>1, <2>2, <2>3, <2>4 DEF Sessions
<1> QED
  BY <1>3, <1>4, <1>6, <1>7 DEF Inv

LEMMA GetFailsKeepsInv ==
  ASSUME Inv, NEW t \in Threads, GetFails(t)
  PROVE  Inv'
<1>1. Returns(t, TRUE) /\ place[t] # "idle" /\ conn[t] = NoConn
  BY DEF GetFails, At, Inv, Hands
<1>2. UNCHANGED <<session, backend, idle, persisted, surface>> /\ Pool' = Pool
  BY DEF GetFails, Pool
<1>3. backend \in [Conns -> {"none", "up", "gone"}]
  BY DEF Inv, TypeOK
<1> QED
  BY <1>1, <1>2, <1>3, HandsAndPool, ReturnsKeepsInv

LEMMA PutBackKeepsInv ==
  ASSUME Inv, NEW t \in Threads, PutBack(t)
  PROVE  Inv'
<1> DEFINE c == conn[t]
<1>1. place[t] = "put" /\ place[t] \notin {"idle", "get"} /\ Returns(t, failed[t])
      /\ UNCHANGED <<session, persisted, surface>>
  BY DEF PutBack, At
<1>2. /\ c \in Conns /\ c # NoConn /\ Fits("put", call[t], session[c])
      /\ backend[c] # "up" => session[c] = FreshSession
      /\ failed[t] \in BOOLEAN /\ backend \in [Conns -> {"none", "up", "gone"}]
  BY <1>1, AtWork DEF Inv, TypeOK
<1>3. Rests(session[c])
  BY <1>2 DEF Fits, Rests
<1>4. c \notin Pool /\ backend[c] # "none"
  BY <1>2 DEF Inv, Owners, Holds
<1>5. CASE idle' = Append(idle, c) /\ UNCHANGED backend
  <2>1. idle' \in Seq(Conns) /\ IsInjective(idle') /\ Pool' = Pool \cup {c}
    BY <1>2, <1>4, <1>5, HandsAndPool, PoolGrows DEF Pool
  <2> QED
    BY <1>1, <1>2, <1>3, <1>4, <1>5, <2>1, ReturnsKeepsInv
<1>6. CASE ~Up(t) /\ backend' = [backend EXCEPT ![c] = "none"] /\ UNCHANGED idle
  <2>1. idle' \in Seq(Conns) /\ IsInjective(idle') /\ Pool' = Pool
    BY <1>6, HandsAndPool DEF Pool
  <2>2. session[c] = FreshSession
    BY <1>2, <1>6 DEF Up
  <2>3. /\ backend' \in [Conns -> {"none", "up", "gone"}] /\ backend'[c] = "none"
        /\ \A d \in Conns : d # c => backend'[d] = backend[d]
    BY <1>2, <1>6
  <2> QED
    BY <1>1, <1>2, <1>3, <1>4, <2>1, <2>2, <2>3, ReturnsKeepsInv
<1> QED
  BY <1>5, <1>6 DEF PutBack

-----------------------------------------------------------------------------
(* The theorems.                                                             *)

LEMMA StutterKeepsInv ==
  ASSUME Inv, UNCHANGED vars
  PROVE  Inv'
<1>1. UNCHANGED <<call, place, conn, outer, after, failed, session, backend, idle, persisted, surface>>
  BY DEF vars, thread
<1> QED
  BY <1>1 DEF Inv, TypeOK, Hands, Owners, Sessions, Holds, Pool

LEMMA InvStep == Inv /\ [Next]_vars => Inv'
<1> SUFFICES ASSUME Inv, [Next]_vars PROVE Inv'
  OBVIOUS
<1>1. ASSUME NEW t \in Threads, Pooling(t) PROVE Inv'
  BY <1>1, CheckoutKeepsInv, DropDeadKeepsInv, ConnectKeepsInv, GetFailsKeepsInv, PutBackKeepsInv
  DEF Pooling
<1>2. ASSUME NEW t \in Threads, Statements(t) PROVE Inv'
  BY <1>2, DiscardKeepsInv, SetUpKeepsInv, LookKeepsInv, BeginKeepsInv, RunKeepsInv,
     PlanBeforeKeepsInv, CreateKeepsInv, PlanAfterKeepsInv, RollbackKeepsInv, ResetKeepsInv,
     ExplainKeepsInv, LookUpKeepsInv, VerdictKeepsInv
  DEF Statements
<1> QED
  BY <1>1, <1>2, StartKeepsInv, BackendEndsKeepsInv, StutterKeepsInv DEF Next

\* The invariant of every theorem below: types, who has which connection, and what
\* its session may be like there.
THEOREM InvHolds == Spec => []Inv
<1> QED
  BY InvInit, InvStep, PTL DEF Spec

\* Types.
THEOREM PoolTypeCorrect == Spec => []TypeOK
<1>1. Inv => TypeOK
  BY DEF Inv
<1> QED
  BY <1>1, InvHolds, PTL

\* StatementsRunFresh: whatever a session has been through in other hands, DISCARD ALL
\* and BEGIN come between that and the statement of a caller (db.rs:849-880).
THEOREM StatementsAlwaysRunFresh == Spec => []StatementsRunFresh
<1>1. Inv => StatementsRunFresh
  <2> SUFFICES ASSUME Inv, NEW t \in Threads, Up(t)
               PROVE  LET s == session[conn[t]] IN
                        /\ At(t, "run") => s.tx = "open" /\ s.ready /\ ~s.polluted /\ s.hypothetical # "live"
                        /\ At(t, "explain") => s.tx = "none" /\ s.ready /\ ~s.polluted /\ s.hypothetical # "live"
    BY DEF StatementsRunFresh
  <2>1. place[t] \notin {"idle", "get"} /\ backend[conn[t]] = "up"
    BY ConnsAssumption DEF Up, Inv, Hands
  <2>2. Fits(place[t], call[t], session[conn[t]]) /\ Prepared(place[t], session[conn[t]])
    BY <2>1, AtWork
  <2> QED
    BY <2>2 DEF Fits, Prepared, At
<1> QED
  BY <1>1, InvHolds, PTL

\* NothingPersists: no statement of a caller is committed.
THEOREM NothingEverPersists == Spec => []NothingPersists
<1>1. Inv => NothingPersists
  BY DEF Inv, NothingPersists
<1> QED
  BY <1>1, InvHolds, PTL

\* PoolHoldsNoSnapshot: no connection waits in the pool in an open transaction.
THEOREM PoolNeverHoldsASnapshot == Spec => []PoolHoldsNoSnapshot
<1>1. Inv => PoolHoldsNoSnapshot
  BY HandsAndPool DEF Inv, Sessions, Rests, PoolHoldsNoSnapshot
<1> QED
  BY <1>1, InvHolds, PTL

LEMMA InPool ==
  ASSUME Inv, NEW c
  PROVE  Contains(idle, c) <=> c \in Pool
  BY DEF Contains, Pool, Range, Inv, TypeOK

\* ConnectionsAccounted: a connection is in the pool once, in the hands of one thread, or
\* not there at all.
THEOREM ConnectionsAlwaysAccounted == Spec => []ConnectionsAccounted
<1>1. Inv => ConnectionsAccounted
  <2> SUFFICES ASSUME Inv PROVE ConnectionsAccounted
    OBVIOUS
  <2>1. ASSUME NEW c \in Conns
        PROVE  LET hands == {t \in Threads : c \in {conn[t], outer[t]}}
               IN  IF backend[c] = "none" THEN hands = {} /\ ~Contains(idle, c)
                   ELSE Cardinality(hands) = IF Contains(idle, c) THEN 0 ELSE 1
    <3> DEFINE hands == {t \in Threads : c \in {conn[t], outer[t]}}
    <3>1. \A t \in Threads : t \in hands <=> Holds(t, c)
      BY DEF Holds
    <3>2. Contains(idle, c) <=> c \in Pool
      BY InPool
    <3>3. CASE backend[c] = "none"
      BY <3>1, <3>2, <3>3 DEF Inv, Owners
    <3>4. CASE backend[c] # "none" /\ c \in Pool
      <4>1. hands = {}
        BY <3>1, <3>4 DEF Inv, Owners
      <4> QED
        BY <4>1, <3>2, <3>4, FS_EmptySet
    <3>5. CASE backend[c] # "none" /\ c \notin Pool
      <4>1. PICK t \in Threads : Holds(t, c)
        BY <3>5 DEF Inv, Owners
      <4>2. hands = {t}
        BY <3>1, <4>1 DEF Inv, Owners
      <4> QED
        BY <4>2, <3>2, <3>5, FS_Singleton
    <3> QED
      BY <3>3, <3>4, <3>5
  <2> QED
    BY <2>1 DEF ConnectionsAccounted, Inv, Owners
<1> QED
  BY <1>1, InvHolds, PTL

\* PermitMeansConnection: without a surface a thread holds one connection at most, so
\* with no more threads than connections one of them is free for a thread that waits.
THEOREM PermitAlwaysMeansConnection == Spec => []PermitMeansConnection
<1>1. Inv => PermitMeansConnection
  <2> SUFFICES ASSUME Inv, ~surface, Cardinality(Threads) <= Cardinality(Conns),
                      NEW t \in Threads, place[t] = "get", idle = <<>>,
                      \A c \in Conns : backend[c] # "none"
               PROVE  FALSE
    BY DEF PermitMeansConnection, At
  <2>1. Pool = {}
    BY DEF Pool, Range
  <2>2. \A u \in Threads : outer[u] = NoConn
    BY DEF Inv, Hands
  <2>3. \A c \in Conns : \E u \in Threads : conn[u] = c
    BY <2>1, <2>2, ConnsAssumption DEF Inv, Owners, Holds
  <2> DEFINE S == {u \in Threads : conn[u] # NoConn}
  <2> DEFINE f == [u \in S |-> conn[u]]
  <2>4. S \subseteq Threads \ {t}
    BY DEF Inv, Hands
  <2>5. IsFiniteSet(Threads \ {t}) /\ Cardinality(Threads \ {t}) = Cardinality(Threads) - 1
    BY ThreadsAssumption, FS_RemoveElement
  <2>6. IsFiniteSet(S) /\ Cardinality(S) <= Cardinality(Threads) - 1
    BY <2>4, <2>5, FS_Subset
  <2>7. f \in Surjection(S, Conns)
    <3>1. f \in [S -> Conns]
      BY HandsAndPool
    <3>2. \A c \in Conns : \E u \in S : f[u] = c
      BY <2>3, ConnsAssumption
    <3> QED
      BY <3>1, <3>2 DEF Surjection
  <2>8. IsFiniteSet(Conns) /\ Cardinality(Conns) <= Cardinality(S)
    <3> HIDE DEF S, f
    <3> QED
      BY <2>6, <2>7, FS_Surjection
  <2>9. Cardinality(Conns) \in Nat /\ Cardinality(S) \in Nat /\ Cardinality(Threads) \in Nat
    BY <2>6, <2>8, ThreadsAssumption, FS_CardinalityType
  <2> HIDE DEF S, f
  <2> QED
    BY <2>6, <2>8, <2>9
<1> QED
  BY <1>1, InvHolds, PTL
=============================================================================
