# Verification of postgres-mcp-hardened

A read-only PostgreSQL server for agents (MCP over stdio and Streamable HTTP), written in Rust.
This directory holds TLA+ models of its concurrent and failure-prone parts and of the decisions it
takes about a statement, the TLC runs that check them on small instances, and proofs checked by
TLAPS for every value of their constants. Paths below are relative to the repository
(`src/audit_log.rs` is the Rust file); the manifest `PROJECT.json` names them with the checkout's
prefix, `src/src/audit_log.rs`.

## 1. Inventory

| Part | State it keeps | Operations | What makes it correct |
|---|---|---|---|
| Audit log (`audit_log.rs`) | `AUDIT_SEQ`, `AUDIT_PREV` under a mutex, `RESUME`; on disk the log and `<log>.hwm` | `audit_extra`, `write_hwm`, `resume_state_of`, `verify_audit_file` | no link breaks by itself, losses are announced, no false alarms |
| Admission (`pipeline.rs`, `ratelimit.rs`) | `DB_SEM`, `IN_FLIGHT`, `LIMITER` | `gate_rate`, `gate_in_flight`, `gate_pool`, `SlotGuard::drop`, `allow_for`, `client_key_with` | guards neither leak nor are released early, caps, rate and reserve hold |
| HTTP handler (`transport.rs`) | session table, one task per request | `mcp_handler`, `delete_session_handler` | guards follow the work, a session keeps its revision |
| stdio loop (`transport.rs`) | the line buffer | `run_stdio` | one answer for every request |
| Database work (`db.rs`) | one pool of 16 connections per database, the PostgreSQL session behind each | `execute_readonly`, `query_catalog`, `simulate_index` | nothing is committed, nothing crosses from call to call, no connection is lost |
| Cost and surface guard (`tools.rs`, `surface.rs`) | none of its own, up to two connections at once | `cost_guard`, `permitted_in`, `refused_in` | fails closed, does not block for ever, no spelling gets around it |
| Tool handlers (`handlers.rs`, `tools.rs`) | none | `handle_query_tool`, `handle_explain_tool` and nine more | what was judged is what runs, answers say whether they are whole, the record tells what happened |
| Validator (`validate.rs`) | none | `validate_readonly`, `enforce_limit_offset` | every check reaches every depth of a statement; the rewritten text means the same |
| Start-up (`main.rs`, `startup.rs`) | none | `preflight_config`, `audit_startup`, `spawn_redaction_verification` | order; a setting that was accepted is in force |
| Start policy and posture (`posture.rs`) | `FACTS`, `PENDING` | `enforce_start_policy` and its retry thread, `audit_posture` | nothing is served before the role is checked, serving starts in the end, the record does not flatter |
| Protocol (`protocol.rs`) | `SESSION_REV`, the thread-locals `REQUEST_REV`, `CALLER` | `set_request_rev`, `negotiate_initialize` | one client's revision never shapes another's answer |
| Auth (`auth.rs`, `authz.rs`) | read-only configuration | `enforce_auth` | pure given the token |
| `setup_sql.rs`, `cli.rs`, `fuzz.rs`, npm launcher, CI | none | text generation, packaging | outside the models |

How they interact: `main` runs preflight (which opens the log), writes the startup record (which
reads the files back), checks the start policy, and only then starts the posture and verification
threads and the transport. An HTTP request runs through the gates on a worker of the async runtime;
the two guards it has acquired move with it to a blocking thread, where the tool handler validates
the statement, has it priced and compared with the surface on a pooled connection, and runs it on
another. Every refusal and every decision calls `audit_extra`, so all threads meet at the audit mutex.

Where it is hard: threads that overtake each other between an atomic counter and a mutex; process
exits between two writes to two files; writes that stop half way; checks and acquisitions that are
two steps; clients that go away while uncancellable work goes on; database sessions that keep state
from caller to caller; nested use of a bounded pool; two locks written one after the other; a
table that makes room by dropping entries in use; a verdict about one text and the execution of
another; a check that a construct at the wrong depth never meets; a setting that one place accepts
and another ignores. `PROJECT.json` lists each of these hazards at the line where it bites.

## 2. Modules

| Module | Models | Composes or refines |
|---|---|---|
| `AuditTrail` | what the audit file promises a reader | |
| `AuditLog` | `audit_log.rs`, its files, and the start | refines `AuditTrail` |
| `Admission` | the gates of `mcp_handler`, both guards | |
| `RateLimit` | `ratelimit.rs` | |
| `PooledSessions` | `db.rs` on a pool, `cost_guard`'s connections | |
| `HttpSessions` | the session table, revisions and caller names | |
| `Preflight` | `preflight_config` and the readers of the settings it checks | |
| `StartPolicy` | `main.rs`, `posture.rs`, the verification thread | extends `Preflight` |
| `Names` | names and how the code reads them | |
| `Validator` | `validate.rs` | extends `Names` |
| `SurfaceRules` | `surface.rs` | extends `Names` |
| `ToolCalls` | `handlers.rs`, `tools.rs` | extends `Validator` and `SurfaceRules` |
| `...Proofs` | theorems about the module they are named after | |
| `MC...` | the instances TLC checks | |

### AuditTrail and AuditLog

`AuditLog` has one action per step of `audit_extra` that another thread, a crash or a failing disk
can come between: `TakeSeq` (the `fetch_add`), `LockAndLink` (the mutex, the hash, `AUDIT_PREV`),
`AppendOk`/`AppendFails`, `MarkOpen` and `MarkWrite` (`fs::write` truncates, then writes),
`MarkFails`. `PreflightOpen` and `AuditStartup` are the start; `AuditStartup` forces `RESUME` and so
evaluates `resume_state_of` on the files. `Crash` ends the process at any point and may leave part
of the line being written. `TailLost`, `LogGone`, `MarkGone` and `LastRewritten` are other hands on
the files while the server is down.

A hash is the sequence of bodies it commits to, so equality of hashes means equality of histories
(collisions are excluded by construction). A line is a whole entry, an entry without its newline,
a fragment, or junk (what a line becomes when an append lands behind a fragment). The variables
`acked`, `acks`, `failed`, `tears`, `cut`, `foreign` and the three counters are history: no guard of
the code's actions reads them, apart from the bound on mishaps.

`AuditTrail` is what the file promises a reader: the trail that can be followed from GENESIS grows by
one entry per acknowledged call until a write goes wrong, and the server itself never shortens it.
`AuditLog!ImplementsTrail` is the refinement, with the longest linked prefix of the log as the trail.

### Admission

`mcp_handler` from `gate_in_flight` to the end of the blocking work. What comes before holds nothing.
There is no await between the gates, so a request occupies a worker of the runtime until it is
spawned or refused, and `Workers` of them run side by side; each access to `DB_SEM` or `IN_FLIGHT`
is one action. `ReadPressure` reads the semaphore outside the lock of the map, `CheckReserve` reads
it before `TakePermit` takes from it. On the blocking thread `WorkEnds` drops the slot and `PermitBack` the
permit, in the order Rust drops the closure's locals. `Disconnect` drops the future, and nothing
else. A panic of the handler's work unwinds through the same drops and is `WorkEnds`.

### RateLimit

`Request` is `allow_for` under the mutex: refill, clean-up of a full table, the decision. Time and tokens are
whole numbers; a tick adds `RATE` units and a request costs `COST`, so that a fraction of a token
survives from request to request as it does in the code. `Tick` is the clock. `client_key_with` is a
function of the list behind X-Forwarded-For, of which the client may have invented all but the entry
its own proxy wrote. The clean-up drops what is idle for `IDLE_SECS` and, if that frees nothing, the
oldest quarter; `forgiven` remembers whom. `IdleRefills` (an assumption, true of the defaults, false
of a large `MCP_RATE_BURST`) says that an idle bucket would have been full anyway.

### PooledSessions

Threads that execute `execute_readonly` (`rows` and `plain`, its two branches), `query_catalog`,
`simulate_index`, `cost_guard` and the probe of `/ready`, one action per statement, on an r2d2 pool (last in
first out, tests a connection by an empty query, opens up to `max_size`). Each statement succeeds,
fails, or finds its backend gone; an error follows the code's `?` or its explicit ROLLBACK. A session
carries the state of its transaction, whether this call's settings are in force, whether something is
left that ROLLBACK does not undo, and whether a hypothetical index exists. `cost_guard` keeps its
connection (`outer`) during its lookups and gives it back before the call it guards takes its own
(`after`). `surface`, chosen once, says whether it has lookups at all.

PostgreSQL and r2d2 are external and modelled from how `db.rs` uses them: DISCARD ALL is refused in a
transaction and does not remove hypopg's indexes, an error aborts an open transaction, ROLLBACK ends
any, a connection whose backend is gone is not handed out.

### HttpSessions

The table `AppState.sessions` and what a request on a reused thread leaves behind. `Arrive` is the
lookup under the table's lock (a 404 changes nothing and is no action), `Delete` is
`delete_session_handler`, `Spawn` the closure opening its scopes on a blocking thread,
`Initialize`/`CallTool`/`Fail` the method, after which `CloseScopes` runs the drops (also on a panic).
`settle` is the await after the work: `OpenSession` and `Renegotiate` take the table's lock again, and
anything may have happened to the session meanwhile. `OpenSession` clears the table as the code does:
nothing while there is room, the idle ones when it is full, all of them when that freed nothing.
`GrowIdle` is `SESSION_IDLE_SECS` passing for one session. The gates of `Admission` appear only as
refusals, with an audit record (`RefuseUnnamed`, `RefuseNamed`) or without (`TurnAway`). `issued`, `ended`,
`agreed` and `misnamed` are history; of these the code's actions read `issued` only, where a new id is drawn.
The steps a thread takes between opening its scopes and reading its revision, and between the method
and the drops, touch nothing another thread reads or writes, so each is part of the action it belongs to.

`Admission` and `HttpSessions` are two views of the same handler. They meet in the stages: `gates` here
is everything from `pressure` to `headers` there, `execute` is `queued` and `working`.

### Preflight and StartPolicy

`Preflight` is pure: an environment has a *form* for each setting. Of a number these are what the check,
which trims and parses a float, and the readers, which parse the raw text as a float, a `u32` or a
`usize`, tell apart: plain, zero, negative, `1.5`, `1e3`, beyond `u32`, `inf`, `nan`, between blanks, a
word, unset. `fatal` is the list `preflight_config` collects, and `InForce` what the code that reads the
setting later makes of the same text. `MCP_RATE_RPM_STDIO` is among the numbers although nothing checks
it (`ratelimit.rs:80`). `LimiterOff` says for which rate and burst no request of a transport is refused.

`StartPolicy` has the four threads of the start. `evaluate` is three questions, each a step (`Ask`),
because the database may go away, come back or be altered between them. `RoleChecked`,
`RoleUnknown`, `RetryDecides`, `RetryReleases` write `FACTS` and `PENDING` one after the other.
`report` is reduced to its grade. The question about TLS is asked of one database: with none to choose, or
when it fails, the report goes on without it (`tls_fact` is `None`), which the place `role only` of the poster keeps. `VerifyNext` asks one database after the other, as
`spawn_redaction_verification` does, and `VerifyEnds` speaks its verdict. `GoesAway`, `ComesUp` and
`RoleAltered` are the world; they are bounded by `MaxChanges`, which no action of the server reads.

### Validator, SurfaceRules and ToolCalls

A text is what the tokenizer and the parser say of it (a trailing second statement, a
comment that hides an ending, a tree per statement), together with what rendering and re-reading it
may give (`again`); a statement is a small tree: expressions in the projection, in WHERE and its like, in
ORDER BY and as arguments; factors, set operations, WITH, row locks, limits. `Shape` and `Inside` say what is
directly inside a part of it, `Layers` what is at each depth, and `Nodes` collects the parts a visitor is handed. There are no more than `PARSE_RECURSION_LIMIT` layers of
a statement that was parsed (`Shallow`): the parser gives up on the others, and of `Wide` and `Widest` in
`MCToolCalls` it is the rewritten text, or the caller's own, that goes beyond. What the code asks in a recursion of its own
(`query_is_readonly`, `setexpr_is_readonly`) is asked of every part such a recursion comes to
(`part_is_readonly`). `validate_readonly` is the token checks, the shape, names and functions, constant
sizes and redacted columns; which of several reasons a refusal gives is left out, and with it
`leading_write_keyword`, which only words one. `enforce_limit_offset` is the three ways a statement gets its
cap. Lists of names are represented by one member each; a name the list of prefixes covers and the list of
exceptions excepts is one of them. The layers are a recursive function of the depth, so that proofs can
reason about them, and the two estimates of sizes (`const_integer`, `folded_size_estimate`) are functions
on the expressions below one.

`LATERAL f(..)` is a factor of a kind of its own (`lateral`), because it is to the parser
(`TableFactor::Function`): the arguments are visited, the function is neither judged by
`pre_visit_table_factor` nor collected by `functions_called`, which look at `TableFactor::Table`. A cap
has `ties` for `FETCH .. WITH TIES`, which the code treats as any other FETCH with a readable number
(`cap_rows` reads its quantity only); what PostgreSQL keeps of the rows then is `Kept`, with the ties of
the last row given by `Tied`, a constant of which only `TiesAssumption` is known.

`Names` has `Lower`, the code's `to_lowercase`, as a parameter: the validator and the allowlist compare names
without regard to case, PostgreSQL does not, and the instances have quoted names in capitals
beside the same names without. A part of a name that is itself a call cannot be read and is refused.

`SurfaceRules` reads patterns as sets of relations. `ToolCalls` takes one call through its handler:
from its arguments to the validator, the final text, `cost_guard` question by question
(`GuardNames`, `GuardExplains`, `GuardFunctions`, `GuardVerdict`, each of which may fail), and the
statement (`Runs`, `RunFails`); or through the catalogue tools (`Describe`, `SchemaMissing`, `Catalog`,
`Overview`). Each exit says which audit records were written. Calls share nothing but the
configuration, so one call is enough; how its connections meet those of others is `PooledSessions`.

What PostgreSQL makes of a text is external: what it resolves a name to, what it plans and what a view,
a function or a partition really reads (`Reaches`), what the foreign keys of a table refer to
(`References`), how many rows the body of a query has
(`RowsOfBody`, a constant of which only `RowsAssumption` is known: SELECT * FROM (q) has the rows of q).
The fixed queries of `database_health` and `top_queries` may tell of any relations (`Overview`).
Plans may be empty, because a condition folds to false, and their cost unreadable.

## 3. Runs

| Run | Instance | Shows |
|---|---|---|
| `audit_log` | 2 threads, `MaxSeq` 4, `MaxMishaps` 3 | chain, mark, alarm and the refinement |
| `audit_gap` (violated) | the same module | "sequence gap" without a removal |
| `admission` | 4 requests, 2 clients, 3 permits, 2 reserved, cap 2, 2 workers | guards, caps, reserve |
| `admission_live` | 3 requests, 1 client, 2 permits, cap off | every permit comes back |
| `rate_limit` | 5 addresses, 4 buckets, 5 ticks, forged headers | the rate holds, a crowd alone is forgiven, patience is enough |
| `start_policy` | 1 database, 12 listeners and an environment with each setting in every form in turn, 2 changes | the door opens when it may, and is decided in the end |
| `start_several` (violated) | 2 databases, exposed | serving is held for ever |
| `redaction_claim` (violated) | 1 database | a claim about a database that did not answer |
| `tool_calls` | every tool, 111 texts with statements of at most 11 layers (64 in the code) and beyond, 7 configurations | validator, cap, price, surface and record agree |
| `pooled_sessions` | 2 threads, 2 connections, surface on and off | session hygiene, nothing persists, no connection lost, calls end |
| `sessions_rollback` (violated) | the same module | an aborted transaction in the pool |
| `http_sessions` | 2 clients, 2 blocking threads, 1 worker, table of 2, 3 ids, 2 revisions | sessions, revisions and names stay apart, the table is bounded |

Why the bounds are enough. Two threads are what it takes for one to overtake another; four numbers
allow two entries before a mishap, one after it, and the startup record; three mishaps allow a tear,
a crash and a change of the files in one behaviour. Three permits with two reserved leave one that is
not, so that two anonymous requests overshoot and a third finds the reserve; four requests fill the
pool and leave one to be refused; two clients keep the counts of the map apart. Five addresses fill a table of
four buckets and ask for one more, a quarter of four is one bucket, and five ticks are longer than
the four that empty or fill one, so that every kind of clean-up occurs after every kind of history. Two
connections and two threads are the smallest pool that can be exhausted by nested use. A table of two
sessions with three ids is full once and is found full by the third; two revisions are the oldest and
the latest, between which every wrong choice shows. There a client has one request at a time, asks for
the oldest revision or an unknown one, states the latest or none, and `OneTroubled` (a state
constraint) lets one session be ended or told both revisions. Two changes let the database go away and
the role be altered in one start; the settings do not depend on each other in the code, so they are
wrong one at a time, but for the rates and the burst, which switch the limiter off together, and the listeners cover each combination the policy and the grade tell apart. The
statements of `tool_calls` have each construct the visitor or a check distinguishes, at the top, in a
subquery, under a set operation, in an expression, below EXPLAIN; more of the same adds nothing. Eleven layers
hold each of them, and three derived tables within each other do not fit. Each of the patterns of a surface, one of
which names a relation that does not exist, meets each relation, one of them a quoted name in capitals. `FETCH .. WITH TIES` meets
the limit from below, at it and beyond, with ties that end at it and ties that go on.

Symmetry is used in safety runs only: threads and connections (or requests, clients, the unwatched
addresses) are interchangeable and no property names one of them; `rate_limit` and `http_sessions` state
action properties and no liveness.

`CHECK_DEADLOCK FALSE` is set where the system really may stop: the bounds of `audit_log` and
`audit_gap` end every behaviour, a process of `start_policy`, `start_several` and `redaction_claim` has
exited, or serves and nothing more changes, and the call of `tool_calls` has been answered. In the other
runs something can always happen.

Fairness. `Admission` assumes that a handler that has no await runs on, and that a blocking thread
starts and finishes what it was given: `statement_timeout`, the 5 s of the pool and the connect
timeout end every step of the work. Nothing is assumed of clients. `PooledSessions` assumes that a
thread takes its next step while it can, and that `Pool::get` gives up after `connection_timeout`
even if connections come and go meanwhile. `StartPolicy` assumes that its threads run on and that
a database that is away comes back; not that it stays. `AuditLog`, `RateLimit`, `HttpSessions` and
`ToolCalls` have no liveness property and no fairness.

Type invariants are theorems instead of properties of runs (section 5), where there is a proof
module. Each property of a passing run has a mutant: an operator marked "Mistake" in the module stands
for a plausible slip at the line it is mapped to, and TLC finds the property violated when it replaces
the definition.

## 4. What the violated runs say

1. `audit_gap`: entries may be written out of numerical order by concurrent callers; the offline
   verifier calls that a removal (`audit_log.rs:276`, `:303`, comment at `:398`).
2. `sessions_rollback`: an EXPLAIN or SHOW that fails returns its connection without ROLLBACK
   (`db.rs:980`, comment at `:1007`). The connection answers pings, so it is handed out, and DISCARD ALL
   fails on it until `idle_in_transaction_session_timeout` ends the backend. `NothingPersists` and
   `StatementsRunFresh` hold nonetheless: DISCARD ALL refuses to go on.
3. `start_several`: with more than one database the check of the role asks "the" database and is
   always refused, so an exposed server never serves (`posture.rs:328`).
4. `redaction_claim`: a database that did not answer is left out, and the verdict says
   "anywhere" (`startup.rs:55`, `:79`).

Behaviour that the properties allow and a reader should know of:

- The reserve for authenticated clients is checked before the permit is taken; concurrent anonymous
  requests can take up to `Workers - 1` of it (`transport.rs:374`). `OvershootBounded` is the exact bound.
- `preflight_config` creates the log before `resume_state_of` looks for it, so a first run is reported
  as an unusable log (`startup.rs:446`, comments at `audit_log.rs:39` and `:129`).
- Under a surface a request takes two connections for one permit (`tools.rs:678`); `CallsEnd` shows
  that the timeout resolves it, `PermitMeansConnection` that without a surface it cannot happen.
- A call leaves no record when an argument is missing, too; `RecordTellsTruth` shows that the database has then
  not been asked anything.
- `list_schemas` goes by the patterns and not by the relations: it names the schema of a pattern none of whose
  relations exists (`filter_visible_schemas`). It tells nothing the operator has not written into the pattern.
- The body of `TABLE t` carries a name the visitor is not handed; the plan shows it, and the surface
  is judged there.

Where the code does less than a text of the repository says. The models follow the code; the properties name the
exception, so that they are exact about the rest, and each exception is reached by a state of the run:

- **A grade A over a plaintext connection.** `posture.rs:570`: "A is: a role that cannot write, authentication where it
  is exposed, a keyed audit, and an encrypted connection." A question about TLS that was not answered adds
  no finding (`None => {}`, `posture.rs:532`), so an exposed listener with TLS off can be graded A. `GradeIsHonest`
  says what A and B mean with that case (`role only`) excepted.
- **Settings that are not in force as written.** `startup.rs:330`: "numbers: a typo must not silently change a
  threshold or switch a limit off". `MCP_RATE_RPM_STDIO` is in no list of the checks and read raw
  (`ratelimit.rs:80`): a word silently becomes 600, and a negative rate switches the limiter of stdio off.
  Of the checked ones (`startup.rs:337`), a value between blanks passes and is not in force, and for
  `MCP_MAX_INFLIGHT_PER_CLIENT` neither is any float that is no `u32` (`1.5`, `1e3`, `5000000000`, `inf`, `nan`). A
  rate or burst of `nan` or `inf` can switch the limiter off, as a cost ceiling of `nan` or `inf` refuses nothing.
  `SettingsHold` lists these forms and shows that there are no others.
- **`LATERAL f(..)` is not judged.** `validate.rs:652`: "A TABLE FUNCTION in `FROM` (`FROM f(...)`) — recognised by the
  presence of arguments. Full classification applies here". The match (`:669`) is on `TableFactor::Table`, and so is
  that of `FunctionCollector` (`:1260`), which promises "Every function called in the statement" (`:1238`).
  `OnlyReadsRun` and `AnswersInside` except the function of that one kind of factor. What it writes in
  the transaction is still not committed (`NothingPersists`).
- **`FETCH .. WITH TIES` is not wrapped.** The comment at `validate.rs:1806` counts WITH TIES among the FETCHes without a
  readable literal; the match above it reads `fetch.quantity` only and leaves such a FETCH as it is, or lowers its
  number. More rows than the cap come from the database; `RowsHonest` shows that the answer is cut
  to the limit all the same and says so.
- **Some tools tell of relations outside the surface.** `surface.rs:75` has "Whether a single relation may be
  described, listed, or otherwise talked about." `describe_table` of a table inside names what its foreign keys
  refer to, inside or not (`tools.rs:490`); `database_health` lists tables, indexes and sequences of every schema
  (`handlers.rs:598-646`), `top_queries` texts of statements (`handlers.rs:692`); and `resources/list` and
  `analyze_indexes` run fixed queries that no surface filters. `HiddenNotDescribed` speaks of the tools that ask the
  allowlist and of the foreign keys.
- **Some decisions are not recorded, one is recorded early.** `README.md:824`: "every tool decision is logged".
  A `describe_table` of a hidden table (`tools.rs:471`) and a `query` that cannot be capped (`handlers.rs:994`) leave no
  record, and `resources/read` has "allowed" in the log before it may be refused (`tools.rs:415`).
  `RecordTellsTruth` names the calls without a record (`Unrecorded`) and says what the records of the others are.

## 5. Proofs

All theorems hold for any sets of threads, requests, clients and any bounds, under the ASSUMEs of the
modules: `Main` is one of the threads and `Free` is none; the bounds are naturals; `Requests`,
`Addresses` and `Databases` are finite, `NoClient` is no client, `Workers` is positive and
`Reserved < MAX_DB_CONNS` (with as many reserved as there are permits, anonymous requests never get
in and the bound on the overshoot is void), `MAX_KEYS >= 4` and `IdleRefills` for the limiter. The
values that stand for nothing (`NoMark`, `NoThread`, `Nobody`, `NoId`, `NoRev`) are none of the
things they stand in for; `MAX_SESSIONS` is positive; the pool's threads are finite, for its counts. For calls
of tools: the recursion limit and the sizes are naturals; there is at least one database and a pattern is a schema
with a name (`ConfigsAssumption`); a view of server state is in `pg_catalog` and stands for itself
(`ServerStateAssumption`); a text and the cap of a query have the fields the parser gives them, and arguments
the types the handlers read them as (`CallsAssumption`); and `RowsAssumption` and `TiesAssumption` above; the names in the lists of the validator and in patterns are in lower
case (`LowerAssumption`). Nothing else is assumed of `Lower`, of the trees, of the configured names or of
the catalogue.

`AuditLogProofs`
- `TypeCorrect`: `TypeOK` is inductive; one lemma per action.
- `MutexHeld`: a thread past the lock is the `holder`; while the server is down or in preflight every thread is
  idle; once preflight is over the log exists. Inductive over types.
- `MarkTrustworthy`: `MarkNeverAhead` alone is not inductive, because `MarkWrite` stores what `pending`
  holds; it needs that a thread past its append has its line acknowledged, under the number it took.
- `LinksHold`: `BrokenLinkHasFailedAppend` needs that `AUDIT_PREV` is the hash of the last readable line,
  or of a failed append, whenever no line is being written, and that `pending` continues it.

`AuditFileProofs`, what the log and the mark look like after crashes, restarts and other hands
- `TearCostIsBounded`: an acknowledged line is whole unless a fragment was at the end of the file when it was written;
  one fragment can spoil one line, and a fragment still at the end has not spoilt any yet (`Owed`).
- `MarkAlwaysLastWhenQuiet`: needs what the holder of the mutex carries from place to place (`Carried`).
- `MarkedLossAlwaysNoticed`: over `MarkNeverAhead`; lines written in order have growing numbers, so what is
  left after the cut is behind the mark or at its number with another hash.
- `NoticedLossAlwaysScars`: after a noticed loss the file either has a line that is not the successor of the one before
  it (`Scarred`) or its next line will be such (`Waiting`), because numbering goes on from the mark and
  never falls back. The verifier stops at the least offending line, which exists since Nat is well founded.
- `MissingAlarmAlwaysEarned`: without interference the history of the last readable line continues the marked
  one or began after it (`FollowInv`), so its number is below the mark's only if callers overtook
  each other.

- `LogImplementsTrail`: the refinement of `AuditTrail`. While nothing failed no hash belongs to a failed append and every
  line is whole (`CleanInv`), so an acknowledged `Append` lengthens the readable entries by the one that is pending.
  Every other step leaves them alone, ends the promise (a fault), or is another hand's.

`AdmissionProofs`
- `WorkAlwaysPaidFor`: holders of permits and free permits add up to `MAX_DB_CONNS`, and every request on a
  blocking thread holds one.
- `OvershootAlwaysBounded`, `TokensRefusedOnlyByPeers`: with n anonymous requests past the reserve check,
  `n + Reserved + 1 <= MAX_DB_CONNS + Workers`, by the accounting of permits and because no more than
  `Workers` requests are between the gates at once: whoever passes the check has seen more than
  `Reserved` permits free, and only those others can have passed it since.
- `SlotsAlwaysExact`, `ClientAlwaysCapped`: the map has the key of every live guard with the number of
  guards; a cap that was read is never above the configured one, and the check under the lock counts.

`RateLimitProofs`
- `RateTypeCorrect`, `TableAlwaysBounded`: types, and never more than `MAX_KEYS` buckets.
- `RateAlwaysHolds`: what an address was granted since the counting began, plus what its bucket holds, is at most what
  a full bucket and the time since then allow; a bucket dropped for idleness would be full
  (`IdleRefills`), and one dropped by a crowd starts the counting again. It rests on `KeyIsTheAddress`: whatever a
  client writes into the header, its requests share one key.
- `ForgivenOnlyWhenCrowdedOut`, `PatienceAlwaysEnough`: action properties, from the types and from how many stay.

`StartPolicyProofs`
- The invariant joins types with four facts about the threads: what a checker has found so far is true of the
  role unless it was altered since (`Honest`); no thread is past a place the ones before it have not
  reached (`Order`); whoever serves on an exposed listener was let through with facts that pass (`Gate`);
  and what the verifier found is exposed (`Verification`). `StartTypeCorrect`, `ExposureAlwaysEarned`,
  `ExitAlwaysHasCause`, `GradeAlwaysHonest`, `VerdictAlwaysCovers`, `SettingsAlwaysHold` follow, for
  any number of databases and any configurations.

`PooledSessionsProofs`
- The invariant has three parts: where a thread is and what it holds (`Hands`); that a connection is in the
  pool once or with exactly one thread, as its own or as the `outer` one of `cost_guard` (`Owners`); and what
  the session of a connection looks like in each of these places (`Sessions`): after DISCARD ALL succeeded nothing is
  left, after BEGIN the transaction is this call's, at rest it is not open. `StatementsAlwaysRunFresh`,
  `NothingEverPersists`, `PoolNeverHoldsASnapshot`, `ConnectionsAlwaysAccounted` and `PermitAlwaysMeansConnection` (by
  counting threads against connections) follow.

`HttpSessionsProofs`
- `Work`: which thread works for whom, and that the outermost of its scopes restores "no revision", so that
  nothing is left after the drops. `Contract`: the revision a request runs under is one its session agreed to, also if it was
  ended or renegotiated meanwhile. `Table`: never above `MAX_SESSIONS`, and no ended session in it.
  `ActiveAlwaysLostOnlyWhenFull` is an action property over these.

`ToolCallsProofs`
- Layers: `LayersDef` says that the recursive function exists and what it is at each depth, by well-founded
  induction over the depth (`ByDepth`), which is induction over a number: the shape of a tree is never
  inducted over. By it, too, nothing is below an empty layer (`StaysEmpty`), so that a shallow statement has all its
  parts within the limit (`NodesOf`); and two trees whose tops have the same parts have the same layers below
  (`SameChildren`, `OnlyChild`).
- `AcceptedReads`, of everything but the function of `LATERAL f(..)`: from `BodiesRead` (every body the visitor is handed, at whatever depth, passes
  `part_is_readonly`: the check of one query reaches down to the next, which starts one of its own) and from
  `AcceptedFunctions` (a call of something that acts is refused in expressions and in FROM).
- `Rewritten`, `RowsOfRewriting`: every way out of `enforce_limit_offset` ends in a text that was validated
  itself and is the caller's, the same with a smaller cap, or a SELECT around it; and it has no more rows than the
  caller's has from the offset on, and all of those or at least as many as the cap (WITH TIES
  they may be more: `MostIsNat` and `NestedCaps`, from `TiesAssumption`).
- `RewritingCovers`: every relation, function and body of the caller's statement is one of the rewritten
  one (`Covered`). It is why a guard that judged the text the server renders has judged what the
  caller wrote, which `explain_query` plans, and, for `EXPLAIN (...)`, what is inside it.
- `CallsAreInOrder`: the inductive invariant `CallInv`. `TypeOK`; `Proceeding`, a
  statement is worked with after it was accepted, in the text `final_sql` gives; `Judged`, what `cost_guard` has
  found of the text it was asked about at each of its stages; `Priced`, what is about to run has a price; `Quiet`,
  nothing was asked, answered or recorded before its stage; `Visible`, the catalogue is asked by the tools that name
  a relation, and of none that is hidden. None of the five properties is inductive: each speaks of what
  was asked or answered, and holds because of what the stages before have established about it.
- `OnlyReadsAlwaysRun`, `NothingEverRunsUnpriced`, `RowsAlwaysHonest`, `SurfaceAlwaysHolds`,
  `RecordAlwaysTellsTruth` follow. The hardest is the surface: `RunIsInside` goes from what a statement really
  reaches through views, functions and partitions to what the guard saw of it, with a plan and without
  one; `HiddenStays` goes through the filters of the catalogue tools.

Only model-checked: liveness (`PermitsComeBack`, `ServesInTheEnd`, `CallsEnd`), which the prover does not
support. Not proved either is what `const_integer` and `folded_size_estimate` compute, which would take
induction over trees: the theorems use of them only that a statement they refuse is refused. TLC runs both
on the constants of `Guarding`. The counterexamples of section 4 are TLC's.

## 6. Not modelled

- The masking of redacted values in rows (`redact_rows`); the models have what the validator refuses
  because of redaction and what the verification of columns says.
- `run_stdio` and its size limits; the probes' bodies, the metrics page, the origin check.
- Verifying signatures and claims of tokens (a library call), the table of scopes (data).
- The shape of answers per protocol revision (`decorate_result`, `shape_tool_result`): functions without state.
- Connection strings and TLS; the generated setup SQL; the command line; the fuzzing entry; packaging.
- HMAC keys, their rotation and the off-host anchor of the audit log: the chain is modelled for one hash
  function. A panic under the audit mutex, which poisons it.
- What changes between the plan that is judged and the statement that runs: the catalogue is fixed
  during a call. The columns of `pg_catalog`, and more than 50 exposed ones, in the verification's question.
