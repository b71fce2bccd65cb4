----------------------------- MODULE HttpSessions -----------------------------
(***************************************************************************)
(* The session table of the HTTP transport and the revision of the         *)
(* protocol a request is answered under: mcp_handler and                   *)
(* delete_session_handler of src/src/transport.rs, the revision scopes of  *)
(* src/src/protocol.rs and the caller scope of src/src/audit_log.rs, whose *)
(* thread-locals live on threads that serve one request after another.     *)
(*                                                                         *)
(* The gates between the lookup and the work are those of Admission; here  *)
(* they only let a request by or refuse it, with a record or without.      *)
(* Every client has an identity; without tokens CALLER is None throughout. *)
(***************************************************************************)
EXTENDS Naturals, FiniteSets, Sequences, SequencesExt, Functions

CONSTANTS
  Clients,           \* each has one request at a time (bound), which goes by its name
  Nobody,            \* no identity: CALLER is None
  Ids,               \* bound: the session ids there are to issue; Uuid::new_v4
  NoId,              \* no Mcp-Session-Id
  Workers,           \* threads of the async runtime
  BlockingThreads,   \* threads of its blocking pool
  Revs,              \* the revisions Rev::parse knows
  NoRev,             \* None
  NoThread,          \* no blocking thread works for the request
  Oldest,            \* Rev::V20250618
  Latest,            \* Rev::latest()
  Asked,             \* bound: what clients ask for in an initialize
  Stated,            \* bound: what they state in other requests
  MAX_SESSIONS

ASSUME NamesAssumption == Nobody \notin Clients /\ NoId \notin Ids /\ NoRev \notin Revs
ASSUME RevsAssumption ==
  {Oldest, Latest} \cup Stated \subseteq Revs /\ Asked \subseteq Revs \cup {NoRev}
ASSUME ThreadsAssumption == Workers \cap BlockingThreads = {} /\ NoThread \notin Workers \cup BlockingThreads
ASSUME LimitAssumption == MAX_SESSIONS \in Nat \ {0}

Threads == Workers \cup BlockingThreads

Methods == {"initialize", "call"}
Stages == {"done", "gates", "execute", "settle"}

\* What a request says. asked is the protocolVersion of an initialize, meta the
\* revision in the body and header the one in MCP-Protocol-Version.
Messages == [method : Methods, sid : Ids \cup {NoId}, asked : Revs \cup {NoRev},
             meta : Revs \cup {NoRev}, header : Revs \cup {NoRev}]
Nothing == [method |-> "call", sid |-> NoId, asked |-> NoRev, meta |-> NoRev, header |-> NoRev]

\* A session: the revision it agreed on, and whether it was used within SESSION_IDLE_SECS.
Entries == [rev : Revs, active : BOOLEAN]

\* An audit record: who asked, as far as the server knew, and who it names.
Records == [of : Clients \cup {Nobody}, named : Clients \cup {Nobody}]
Misnamed(of, named) == {a \in {[of |-> of, named |-> named]} : of # named}

VARIABLES
  stage,        \* where each request is
  message,      \* what it says
  session_rev,  \* what the lookup found
  thread,       \* the blocking thread that works for it
  connected,    \* somebody waits for the answer
  rev,          \* the revision the answer is made under, read at the start
  sessions,     \* AppState.sessions
  SESSION_REV,  \* the process-wide revision, meant for stdio
  REQUEST_REV,  \* thread-local: the revision of the request on the thread
  scopes,       \* what the scopes open on each thread will restore
  CALLER,       \* thread-local: the identity for the audit
  \* history
  issued,       \* ids handed out
  ended,        \* ids a DELETE has ended
  agreed,       \* the revisions each session was ever told
  misnamed      \* the audit records that named another than who asked

request == <<stage, message, session_rev, thread, connected, rev>>
locals == <<REQUEST_REV, scopes, CALLER>>
history == <<issued, ended, agreed>>
vars == <<request, sessions, SESSION_REV, locals, history, misnamed>>

At(r, here) == stage[r] = here
Go(r, there) == stage' = [stage EXCEPT ![r] = there]

\* The handler is gone: it has answered, or nobody waits for the answer.
Leave(r) ==
  /\ stage' = [stage EXCEPT ![r] = "done"]
  /\ message' = [message EXCEPT ![r] = Nothing]
  /\ session_rev' = [session_rev EXCEPT ![r] = NoRev]
  /\ thread' = [thread EXCEPT ![r] = NoThread]
  /\ connected' = [connected EXCEPT ![r] = FALSE]
  /\ rev' = [rev EXCEPT ![r] = NoRev]

Or(first, second) == IF first # NoRev THEN first ELSE second

Init ==
  /\ stage = [r \in Clients |-> "done"]
  /\ message = [r \in Clients |-> Nothing]
  /\ session_rev = [r \in Clients |-> NoRev]
  /\ thread = [r \in Clients |-> NoThread]
  /\ connected = [r \in Clients |-> FALSE]
  /\ rev = [r \in Clients |-> NoRev]
  /\ sessions = [s \in {} |-> Nothing]
  /\ SESSION_REV = NoRev
  /\ REQUEST_REV = [t \in Threads |-> NoRev]
  /\ scopes = [t \in Threads |-> <<>>]
  /\ CALLER = [t \in Threads |-> Nobody]
  /\ issued = {} /\ ended = {}
  /\ agreed = [s \in Ids |-> {}]
  /\ misnamed = {}

-----------------------------------------------------------------------------
(* On the worker threads                                                   *)

\* What clients send (bound: Asked and Stated): a session they were once given, or
\* none; an initialize the revision it asks for; another request a revision stated
\* in the body, in the header, or not at all.
Sent(m) ==
  /\ m.sid \in issued \cup {NoId}
  /\ IF m.method = "initialize"
     THEN m.asked \in Asked /\ m.meta = NoRev /\ m.header = NoRev
     ELSE m.asked = NoRev /\ {m.meta, m.header} \subseteq Stated \cup {NoRev}
  /\ m.meta = NoRev \/ m.header = NoRev

\* A request comes in. Under the lock of the table a known session is refreshed
\* and its revision read; one that names no session goes on without, and one that
\* names an unknown session is answered 404, which changes nothing.
Arrive(r, m) ==
  /\ At(r, "done") /\ Sent(m)
  /\ m.sid \in DOMAIN sessions \cup {NoId}
  /\ sessions' = [s \in DOMAIN sessions |->
                    IF s = m.sid THEN [sessions[s] EXCEPT !.active = TRUE] ELSE sessions[s]]
  /\ session_rev' = [session_rev EXCEPT ![r] = IF m.sid = NoId THEN NoRev ELSE sessions[m.sid].rev]
  /\ message' = [message EXCEPT ![r] = m]
  /\ connected' = [connected EXCEPT ![r] = TRUE]
  /\ Go(r, "gates")
  /\ UNCHANGED <<thread, rev, SESSION_REV, locals, history, misnamed>>

\* delete_session_handler: the entry is removed, or it was not there.
Delete(sid) ==
  /\ sid \in issued
  /\ sessions' = Restrict(sessions, DOMAIN sessions \ {sid})
  /\ ended' = ended \cup ({sid} \cap DOMAIN sessions)
  /\ UNCHANGED <<request, SESSION_REV, locals, issued, agreed, misnamed>>

\* A gate refuses on worker w before it is known who asks: the record names
\* whoever CALLER names.
RefuseUnnamed(r, w) ==
  /\ At(r, "gates")
  /\ misnamed' = misnamed \cup Misnamed(Nobody, CALLER[w])
  /\ Leave(r)
  /\ UNCHANGED <<sessions, SESSION_REV, locals, history>>

\* A notification, or a refusal that leaves no record.
TurnAway(r) ==
  /\ At(r, "gates")
  /\ Leave(r)
  /\ UNCHANGED <<sessions, SESSION_REV, locals, history, misnamed>>

\* Mistake: the scope outlives the refusal.
RefuseNamedForGood(r, w) ==
  /\ At(r, "gates")
  /\ CALLER' = [CALLER EXCEPT ![w] = r]
  /\ misnamed' = misnamed \cup Misnamed(r, r)
  /\ Leave(r)
  /\ UNCHANGED <<sessions, SESSION_REV, REQUEST_REV, scopes, history>>

\* Without the scope, or with headers that contradict the body, it is refused by
\* name. The caller scope opens and closes on w with no await in between.
RefuseNamed(r, w) ==
  /\ At(r, "gates")
  /\ CALLER' = [CALLER EXCEPT ![w] = Nobody]
  /\ misnamed' = misnamed \cup Misnamed(r, r)
  /\ Leave(r)
  /\ UNCHANGED <<sessions, SESSION_REV, REQUEST_REV, scopes, history>>

\* Mistake: without a header and a session nothing is set.
WireRevUnlessStated(r) == Or(message[r].meta, Or(message[r].header, session_rev[r]))

\* rev_for_request
WireRev(r) == Or(message[r].meta, Or(message[r].header, Or(session_rev[r], Oldest)))

\* protocol::current(), on a thread with that thread-local.
CurrentUnder(local) == Or(local, Or(SESSION_REV, Oldest))

\* set_request_rev in the transport and, when the body states a revision, again
\* inside handle_request: each scope remembers what it will restore.
OpenScopes(t, wire, meta) ==
  /\ REQUEST_REV' = [REQUEST_REV EXCEPT ![t] = Or(meta, wire)]
  /\ scopes' = [scopes EXCEPT ![t] = IF meta = NoRev THEN <<REQUEST_REV[t]>>
                                      ELSE <<REQUEST_REV[t], wire>>]

\* spawn_blocking: a thread takes the closure, opens the scopes and reads the
\* revision; only the thread itself can see it in between.
Spawn(r, t) ==
  /\ At(r, "gates")
  /\ \A q \in Clients : thread[q] # t
  /\ thread' = [thread EXCEPT ![r] = t]
  /\ CALLER' = [CALLER EXCEPT ![t] = r]
  /\ OpenScopes(t, WireRev(r), message[r].meta)
  /\ rev' = [rev EXCEPT ![r] = CurrentUnder(REQUEST_REV'[t])]
  /\ Go(r, "execute")
  /\ UNCHANGED <<message, session_rev, connected, sessions, SESSION_REV, history, misnamed>>

-----------------------------------------------------------------------------
(* On a blocking thread                                                    *)

\* negotiate_initialize
Chosen(r) == Or(message[r].asked, Latest)

\* Mistake: the scope of the transport is closed before the one inside it.
CloseOuterFirst(t) ==
  /\ REQUEST_REV' = [REQUEST_REV EXCEPT ![t] = Last(scopes[t])]
  /\ scopes' = [scopes EXCEPT ![t] = <<>>]
  /\ CALLER' = [CALLER EXCEPT ![t] = Nobody]

\* The scopes close, the inner one first, on return and on panic: what stays is
\* what the outermost restores.
CloseScopes(t) ==
  /\ REQUEST_REV' = [REQUEST_REV EXCEPT ![t] = Head(scopes[t])]
  /\ scopes' = [scopes EXCEPT ![t] = <<>>]
  /\ CALLER' = [CALLER EXCEPT ![t] = Nobody]

\* The closure is over and its answer goes to the handler, if that still exists.
\* An answer without a result, and one to anything but initialize, changes
\* nothing on its way out.
EndWork(r, negotiated) ==
  /\ CloseScopes(thread[r])
  /\ IF connected[r] /\ negotiated
     THEN /\ thread' = [thread EXCEPT ![r] = NoThread]
          /\ Go(r, "settle")
          /\ UNCHANGED <<message, session_rev, connected, rev>>
     ELSE Leave(r)
  /\ UNCHANGED <<sessions, history>>

\* The envelope is not JSON-RPC or the body names a revision nobody speaks, or the
\* work panics: an error.
Fail(r) ==
  /\ At(r, "execute")
  /\ EndWork(r, FALSE)
  /\ UNCHANGED <<SESSION_REV, misnamed>>

\* handle_initialize agrees on a revision and tells the whole process.
Initialize(r) ==
  /\ At(r, "execute") /\ message[r].method = "initialize"
  /\ SESSION_REV' = Chosen(r)
  /\ EndWork(r, TRUE)
  /\ UNCHANGED misnamed

\* Any other method is audited.
CallTool(r) ==
  /\ At(r, "execute") /\ message[r].method = "call"
  /\ misnamed' = misnamed \cup Misnamed(r, CALLER[thread[r]])
  /\ EndWork(r, FALSE)
  /\ UNCHANGED SESSION_REV

-----------------------------------------------------------------------------
(* On a worker thread again                                                *)

\* Nobody waits any more and the future of the handler is dropped where it awaits
\* something: the spawned work, which goes on, or the lock of the table.
Disconnect(r) ==
  /\ connected[r]
  /\ \/ /\ At(r, "execute")
        /\ connected' = [connected EXCEPT ![r] = FALSE]
        /\ UNCHANGED <<stage, message, session_rev, thread, rev>>
     \/ At(r, "settle") /\ Leave(r)
  /\ UNCHANGED <<sessions, SESSION_REV, locals, history, misnamed>>

\* What the table becomes before a session is added: when it is full the idle
\* ones go, and if it still is, all of them.
Active == {s \in DOMAIN sessions : sessions[s].active}
Full(table) == Cardinality(table) >= MAX_SESSIONS
Kept ==
  CASE ~Full(DOMAIN sessions) -> DOMAIN sessions
    [] Full(DOMAIN sessions) /\ ~Full(Active) -> Active
    [] OTHER -> {}

With(s, entry, kept) == [k \in kept \cup {s} |-> IF k = s THEN entry ELSE sessions[k]]

OpenAs(r, s, told, kept) ==
  /\ At(r, "settle") /\ message[r].sid = NoId
  /\ s \in Ids \ issued
  /\ issued' = issued \cup {s}
  /\ sessions' = With(s, [rev |-> told, active |-> TRUE], kept)
  /\ agreed' = [agreed EXCEPT ![s] = {Chosen(r)}]
  /\ Leave(r)
  /\ UNCHANGED <<SESSION_REV, locals, ended, misnamed>>

\* a full table is found full one session late,
OpenSessionOneOver(r, s) ==
  OpenAs(r, s, Chosen(r), IF Cardinality(DOMAIN sessions) = MAX_SESSIONS THEN DOMAIN sessions ELSE Kept)

\* or cleared at once.
OpenSessionClearing(r, s) ==
  OpenAs(r, s, Chosen(r), IF Full(DOMAIN sessions) THEN {} ELSE DOMAIN sessions)

\* initialize without an id: a session of its own, under what was answered.
OpenSession(r, s) == OpenAs(r, s, Chosen(r), Kept)

\* Mistake: an entry that is gone is put back.
RenegotiateInserting(r) ==
  LET sid == message[r].sid IN
    /\ At(r, "settle") /\ sid # NoId
    /\ sessions' = With(sid, [rev |-> Chosen(r), active |-> TRUE], DOMAIN sessions)
    /\ agreed' = [agreed EXCEPT ![sid] = @ \cup {Chosen(r)}]
    /\ Leave(r)
    /\ UNCHANGED <<SESSION_REV, locals, issued, ended, misnamed>>

\* initialize over a live session: the remembered revision changes with it, unless
\* the session is gone by now.
Renegotiate(r) ==
  LET sid == message[r].sid IN
    /\ At(r, "settle") /\ sid # NoId
    /\ sessions' = IF sid \in DOMAIN sessions
                   THEN [sessions EXCEPT ![sid].rev = Chosen(r)] ELSE sessions
    /\ agreed' = [agreed EXCEPT ![sid] = @ \cup {Chosen(r)}]
    /\ Leave(r)
    /\ UNCHANGED <<SESSION_REV, locals, issued, ended, misnamed>>

\* An hour without a request.
GrowIdle(s) ==
  /\ s \in Active
  /\ sessions' = [sessions EXCEPT ![s].active = FALSE]
  /\ UNCHANGED <<request, SESSION_REV, locals, history, misnamed>>

Next ==
  \/ \E r \in Clients :
       \/ \E m \in Messages : Arrive(r, m)
       \/ \E w \in Workers : RefuseUnnamed(r, w) \/ RefuseNamed(r, w)
       \/ TurnAway(r)
       \/ \E t \in BlockingThreads : Spawn(r, t)
       \/ Initialize(r) \/ CallTool(r) \/ Fail(r)
       \/ Disconnect(r)
       \/ \E s \in Ids : OpenSession(r, s)
       \/ Renegotiate(r)
  \/ \E s \in Ids : Delete(s) \/ GrowIdle(s)

Spec == Init /\ [][Next]_vars

-----------------------------------------------------------------------------
(* Properties                                                              *)

\* Every variable keeps its type: in particular the table remembers a revision the
\* server speaks, whatever the client asked for (transport.rs:546-549).
TypeOK ==
  /\ stage \in [Clients -> Stages]
  /\ message \in [Clients -> Messages]
  /\ session_rev \in [Clients -> Revs \cup {NoRev}]
  /\ thread \in [Clients -> BlockingThreads \cup {NoThread}]
  /\ connected \in [Clients -> BOOLEAN]
  /\ rev \in [Clients -> Revs \cup {NoRev}]
  /\ DOMAIN sessions \subseteq issued
  /\ \A s \in DOMAIN sessions : sessions[s] \in Entries
  /\ SESSION_REV \in Revs \cup {NoRev}
  /\ REQUEST_REV \in [Threads -> Revs \cup {NoRev}]
  /\ scopes \in [Threads -> Seq(Revs \cup {NoRev})]
  /\ CALLER \in [Threads -> Clients \cup {Nobody}]
  /\ issued \subseteq Ids /\ ended \subseteq issued
  /\ agreed \in [Ids -> SUBSET Revs]
  /\ misnamed \subseteq Records

\* However many clients initialize at once, the table holds MAX_SESSIONS entries
\* at most: initialize needs no credentials, so nothing else bounds it
\* (main.rs:56-61, transport.rs:545-551).
TableBounded == Cardinality(DOMAIN sessions) <= MAX_SESSIONS

\* A session a DELETE has ended is never in the table again, not even when an
\* initialize over it was under way when it ended (transport.rs:186, 561-563).
EndedStayEnded == ended \cap DOMAIN sessions = {}

\* A session somebody used within the hour is lost only to a DELETE, or when as
\* many as the table holds were (transport.rs:545-551).
ActiveLostOnlyWhenFull ==
  [][\A s \in Active \ DOMAIN sessions' :
       s \in ended' \/ Full(Active)]_sessions

\* Whatever other clients of the process negotiate meanwhile, a request is answered
\* under the revision it states, else under one its own session was told, else the
\* oldest; and its result is still shaped under that one when the method is done
\* (protocol.rs:308-315, handlers.rs:58, 73).
NoForeignContract ==
  \A r \in Clients : At(r, "execute") =>
    LET m == message[r]
        stated == Or(m.meta, m.header)
    IN /\ IF stated # NoRev THEN rev[r] = stated
          ELSE IF m.sid = NoId THEN rev[r] = Oldest
          ELSE rev[r] \in agreed[m.sid]
       /\ CurrentUnder(REQUEST_REV[thread[r]]) = rev[r]

\* A thread that serves nobody has nothing left of the request it served: no
\* revision and no identity, also after a panic (protocol.rs:288-295,
\* audit_log.rs:550-558).
ThreadsLeftClean ==
  \A t \in Threads : (\A r \in Clients : thread[r] # t) =>
    REQUEST_REV[t] = NoRev /\ scopes[t] = <<>> /\ CALLER[t] = Nobody

\* An audit record names the caller the server had established for that request,
\* and nobody where it had established none (audit_log.rs:545-564).
RecordNamesItsCaller == misnamed = {}
=============================================================================
