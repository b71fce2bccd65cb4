------------------------------ MODULE ToolCalls ------------------------------
(***************************************************************************)
(* One call of a tool from its arguments to its answer: the handlers of    *)
(* src/src/handlers.rs and src/src/tools.rs, with the validator and the    *)
(* surface allowlist they ask. A step goes from one question to the        *)
(* database to the next; each may fail. Calls share nothing here but the   *)
(* configuration: their connections are in PooledSessions.                 *)
(***************************************************************************)
EXTENDS Validator, SurfaceRules

CONSTANTS
  MAX_LIMIT,       \* the most rows a caller may ask for
  DefaultLimit,    \* and what it gets without asking
  MaxRows,         \* bound: rows of a table
  Configs,         \* what the operator has configured; databases is how many
  Calls,           \* the calls, with their arguments
  Relations,       \* the relations the role may read
  ServerState,     \* those of them that scan a function of the pg_ family
  Base(_),         \* what the planner expands a relation to: itself, or a view's tables
  Parent(_),       \* pg_inherits: the set of what it is a partition of
  UserFunctions,   \* functions outside pg_catalog,
  Body(_),         \* and the relations the body of one reads
  References(_),   \* what the foreign keys of a table refer to
  SearchPath,      \* the schema a name without one is looked for in
  RowsOfBody(_, _), \* the rows of the body of a query, its cap aside, when a table has so many
  Tied(_)          \* the last of its rows that ties with the one at a place

ASSUME SizesAssumption == MAX_LIMIT \in Nat /\ DefaultLimit \in Nat /\ MaxRows \in Nat

\* There is a database; a pattern has a schema and a name, and is kept in lower case.
ASSUME ConfigsAssumption ==
  \A c \in Configs :
    /\ c.databases \in Nat \ {0}
    /\ \A p \in c.patterns : p = <<p[1], p[2]>> /\ Lower(p[2]) = p[2]

\* Server state is shown by relations of the catalogue, each of which stands for itself.
ASSUME ServerStateAssumption == \A r \in ServerState : r = <<"pg_catalog", r[2]>> /\ Base(r) = {r}

\* What a caller may ask for, and how the parser describes a text and the cap of a query.
ASSUME CallsAssumption ==
  \A c \in Calls :
    /\ c.limit \subseteq Nat /\ c.offset \in Nat /\ c.analyze \in BOOLEAN
    /\ DOMAIN c.text = {"trailing", "long", "parses", "hidden", "comment", "folds", "again", "stmts"}
    /\ c.text.stmts \in Seq(ToSet(c.text.stmts))
    /\ \A s \in ToSet(c.text.stmts) :
         s.kind = "query" => /\ DOMAIN s = {"kind", "q"}
                             /\ DOMAIN s.q = {"locks", "ctes", "body", "order", "cap"}
                             /\ s.q.cap \in Caps

VARIABLES
  cfg, call,
  stage,     \* what is asked next
  final,     \* the text the server works with: none when there is no way to cap the caller's
  asked,     \* what the database was asked of the caller's: to plan it, or to run it
  priced,    \* the texts whose cost was found to be within MCP_MAX_COST
  plan,      \* the plan cost_guard judges
  answer,    \* what the caller gets
  records    \* the decisions in the audit log

vars == <<cfg, call, stage, final, asked, priced, plan, answer, records>>

NoPlan == [scans |-> {}, calls |-> {}, cost |-> "none"]
NoAnswer == [kind |-> "none"]
Error == [kind |-> "error"]
Shown(rels) == [kind |-> "list", shown |-> rels]

Queries == {"query", "explain_query", "simulate_index"}
Named == {"list_tables", "describe_table", "resources/read", "analyze_indexes"}

Init ==
  /\ cfg \in Configs /\ call \in Calls
  /\ stage = "received"
  /\ final = {} /\ asked = {} /\ priced = {} /\ plan = NoPlan
  /\ answer = NoAnswer /\ records = <<>>

Asks(next) == stage' = next /\ UNCHANGED <<cfg, call, final, asked, priced, plan, answer, records>>

\* The handler returns, with a record in the audit log or without.
Returns(decisions, ans) ==
  /\ stage' = "answered"
  /\ records' = records \o decisions
  /\ answer' = ans
  /\ UNCHANGED <<cfg, call, final, asked, priced, plan>>

-----------------------------------------------------------------------------
(* External: what PostgreSQL says of a text                                *)

Resolved(n) == IF n[1] = "" THEN <<SearchPath, n[2]>> ELSE n

RelationsIn(s) ==
  {Resolved(<<f.name.schema, f.name.name>>) : f \in {g \in Nodes(s, "factor") : g.kind = "table"}}
  \cup {Resolved(<<b.name.schema, b.name.name>>) : b \in {x \in Nodes(s, "body") : x.kind = "table"}}

\* The functions called in expressions, and in FROM by the factors of some kinds.
FunctionsIn(s, factors) ==
  {e.f : e \in {x \in Nodes(s, "expr") : x.kind = "call"}}
  \cup {f.name : f \in {g \in Nodes(s, "factor") : g.kind \in factors}}

pg_family(f) == f \in {"pg_typeof", "pg_stat_reset", "pg_new_in_this_release", "pg_advisory_lock"}

\* It has no LIMIT a, b and explains only a query.
Understood(t) ==
  /\ t.parses /\ t.stmts[1].kind \in {"query", "explain", "show"}
  /\ \A q \in Nodes(t.stmts[1], "query") : q.cap.form # "comma"

\* The functions a plan scans: those behind views of server state, and of those called in
\* FROM the ones that are not folded.
Scans(s) ==
  LET called == {f.name.name : f \in {g \in Nodes(s, "factor") : g.kind \in {"call", "lateral"}}}
      views == {[name |-> r[2], server_state |-> TRUE] : r \in RelationsIn(s) \cap ServerState}
  IN  {views \cup {[name |-> f, server_state |-> pg_family(f)] : f \in some} :
         some \in SUBSET called}

\* The plan scans what views expand to and what is called in FROM, and is empty when a
\* condition folds to false.
Plans(t) ==
  LET s == t.stmts[1]
      tables == UNION {Base(r) : r \in RelationsIn(s) \ ServerState}
  IN  {[scans |-> IF t.folds THEN {} ELSE tables, calls |-> calls, cost |-> c] :
         calls \in IF t.folds THEN {{}} ELSE Scans(s), c \in {"within", "beyond", "unreadable"}}

\* What running or planning a text tells of: what the plan scans, and what the bodies
\* of functions read that the operator has not vouched for; in FROM, of the factors of
\* some kinds.
Reaches(t, factors) ==
  (IF t.folds THEN {} ELSE UNION {Base(r) : r \in RelationsIn(t.stmts[1])})
  \cup UNION {Body(f.name) : f \in {g \in FunctionsIn(t.stmts[1], factors) :
                                     g.name \in UserFunctions /\ Lower(g.name) \notin cfg.allowed}}

\* What a cap keeps of some rows: with ties, those too that tie with the last one.
Kept(cap, rows) ==
  LET left == IF cap.skip >= rows THEN 0 ELSE rows - cap.skip
      most == IF cap.ties /\ cap.n > 0 THEN Tied(cap.skip + cap.n) - cap.skip ELSE cap.n
  IN  IF cap.form \in {"none", "all"} THEN left ELSE AtMost(left, most)

\* The rows of a query when a table has n.
RowsOf(q, n) == Kept(q.cap, RowsOfBody(q.body, n))

\* A query has some rows, and SELECT * FROM (query) has the same.
ASSUME RowsAssumption ==
  \A c \in Calls, n \in 0..MaxRows, alias \in {"_mcp_cap", "_mcp_page"} :
    \A s \in ToSet(c.text.stmts) :
      s.kind = "query" => /\ RowsOfBody(s.q.body, n) \in Nat
                          /\ RowsOfBody(Wrapped(s, alias, NoCap).q.body, n) = RowsOf(s.q, n)

\* A row ties with itself or with a later one, and a later one not with an earlier.
ASSUME TiesAssumption ==
  \A c \in Calls : \A s \in ToSet(c.text.stmts) :
    s.kind = "query" /\ s.q.cap.ties =>
      LET cap == s.q.cap IN
      \A k \in 0..cap.n :
        /\ Tied(cap.skip + k) \in Nat
        /\ cap.skip + k <= Tied(cap.skip + k) /\ Tied(cap.skip + k) <= Tied(cap.skip + cap.n)

-----------------------------------------------------------------------------
(* query, explain_query, simulate_index: before the database is asked      *)

Limit == AtMost(IF call.limit = {} THEN DefaultLimit ELSE CHOOSE l \in call.limit : TRUE, MAX_LIMIT)

\* Mistake: no row more than is returned, so that nothing tells a cut.
MistakeNoSpareRow ==
  CASE call.tool = "query" -> enforce_limit_offset(cfg, call.text, Limit, call.offset)
    [] call.tool = "explain_query" -> enforce_limit_offset(cfg, call.text, MAX_LIMIT, 0)
    [] OTHER -> {call.text}

\* The text the server works with: one row more than is returned.
final_sql ==
  CASE call.tool = "query" -> enforce_limit_offset(cfg, call.text, Limit + 1, call.offset)
    [] call.tool = "explain_query" -> enforce_limit_offset(cfg, call.text, MAX_LIMIT, 0)
    [] OTHER -> {call.text}

Final == CHOOSE t \in final : TRUE

\* What cost_guard is asked about, if anything: a row query, and under a surface what
\* an EXPLAIN explains and the query of simulate_index.
guarded ==
  IF call.tool = "simulate_index" THEN (IF active(cfg) THEN {call.text} ELSE {})
  ELSE IF is_row_query(Final) THEN {Final}
  ELSE IF call.tool = "query" /\ active(cfg) THEN explained_statement(Final)
  ELSE {}

Guarded == CHOOSE t \in guarded : TRUE

\* The price is no reason to refuse a plan, only to refuse running it.
Ceiling ==
  \/ call.tool = "query" /\ is_row_query(Final)
  \/ call.tool = "explain_query" /\ call.analyze

\* An argument is missing.
Incomplete ==
  /\ stage = "received"
  /\ \/ call.tool \in Queries /\ "sql" \notin call.given
     \/ call.tool = "describe_table" /\ "table" \notin call.given
     \/ call.tool = "unknown"
  /\ Returns(<<>>, Error)

Refuse ==
  /\ stage = "received" /\ call.tool \in Queries /\ "sql" \in call.given
  /\ ~validate_readonly(cfg, call.text)
  /\ Returns(<<"denied_validation">>, Error)

Accept ==
  /\ stage = "received" /\ call.tool \in Queries /\ "sql" \in call.given
  /\ validate_readonly(cfg, call.text)
  /\ final' = final_sql /\ stage' = "accepted"
  /\ UNCHANGED <<cfg, call, asked, priced, plan, answer, records>>

\* What comes last of the arguments of simulate_index.
IndexComplete == call.tool = "simulate_index" => {"table", "columns"} \subseteq call.given

IncompleteIndex ==
  /\ stage = "accepted" /\ ~IndexComplete
  /\ Returns(<<>>, Error)

CannotCap ==
  /\ stage = "accepted" /\ final = {}
  /\ Returns(IF call.tool = "explain_query" THEN <<"denied_validation">> ELSE <<>>, Error)

Proceed ==
  /\ stage = "accepted" /\ final # {} /\ IndexComplete
  /\ Asks(IF guarded = {} THEN "run" ELSE "guard")

-----------------------------------------------------------------------------
(* cost_guard                                                              *)

\* Nobody is asked for a parent, or the question fails.
NoParents(rels) == [r \in rels |-> {}]

\* The qualified names outside the surface, as the statement has them.
NamedOutside(t) ==
  LET named == {n \in relations_named(t) : n[1] # ""} IN refused_in(cfg, named, NoParents(named))

GuardRefuses(decision) == Returns(<<decision>>, Error)

\* The connection, or EXPLAIN itself: the database does not answer, or with an error.
GuardFails ==
  /\ stage \in {"guard", "functions"}
  /\ stage = "functions" => functions_called(Guarded) # {}
  /\ GuardRefuses("error")

\* A name outside the surface is refused before the database is asked.
GuardNames ==
  /\ stage = "guard" /\ active(cfg) /\ NamedOutside(Guarded) # {}
  /\ GuardRefuses("denied_surface")

\* EXPLAIN (FORMAT JSON, VERBOSE): the plan, which must have a cost.
GuardExplains ==
  /\ stage = "guard" /\ (active(cfg) => NamedOutside(Guarded) = {})
  /\ Understood(Guarded) /\ Guarded.stmts[1].kind = "query"
  /\ asked' = asked \cup {[how |-> "plan", text |-> Guarded]}
  /\ \E p \in Plans(Guarded) :
       IF p.cost = "unreadable"
       THEN /\ stage' = "answered" /\ answer' = Error
            /\ records' = Append(records, "error")
            /\ UNCHANGED plan
       ELSE /\ stage' = IF active(cfg) THEN "functions" ELSE "verdict"
            /\ plan' = p
            /\ UNCHANGED <<answer, records>>
  /\ UNCHANGED <<cfg, call, final, priced>>

\* Built-in functions that read the server: the pg_ family, and some by name.
reads_server(f) == pg_family(f) \/ f = "current_setting"

\* Mistake: a function of the database's owner is as good as a built-in one.
MistakeAnyFunction(t) == ~catalog_allowed(cfg) /\ \E f \in functions_called(t) : reads_server(f)

\* A function that reads the server, or one whose body no plan shows.
FunctionsOutside(t) ==
  \/ ~catalog_allowed(cfg) /\ \E f \in functions_called(t) : reads_server(f)
  \/ \E f \in UserFunctions : Lower(f) \in functions_called(t) /\ ~operator_allowed(cfg, f)

GuardFunctions ==
  /\ stage = "functions"
  /\ IF FunctionsOutside(Guarded) THEN GuardRefuses("denied_surface") ELSE Asks("verdict")

\* The relations of the plan outside, or those of the statement when the plan has none.
Outside(parents) ==
  LET found == relations_in_plan(plan) IN
  IF found = {} THEN NamedOutside(Guarded) ELSE refused_in(cfg, found, parents)

\* What pg_inherits says of the relations of the plan.
Parents == [r \in relations_in_plan(plan) |-> Parent(r)]

GuardVerdict ==
  /\ stage = "verdict"
  /\ \/ /\ active(cfg) /\ (Outside(Parents) # {} \/ Outside(NoParents(relations_in_plan(plan))) # {})
        /\ GuardRefuses("denied_surface")
     \/ /\ active(cfg) => Outside(Parents) = {}
        /\ Ceiling /\ plan.cost = "beyond"
        /\ GuardRefuses("denied_cost")
     \/ /\ active(cfg) => Outside(Parents) = {}
        /\ Ceiling => plan.cost = "within"
        /\ stage' = "run" /\ priced' = priced \cup {t \in guarded : plan.cost = "within"}
        /\ UNCHANGED <<cfg, call, final, asked, plan, answer, records>>

-----------------------------------------------------------------------------
(* The statement itself                                                    *)

\* simulate_index asks the surface about the table, too.
IndexOutside ==
  active(cfg) /\ call.tool = "simulate_index" /\ refused_in(cfg, {call.rel}, NoParents({call.rel})) # {}

IndexHidden ==
  /\ stage = "run" /\ IndexOutside
  /\ Returns(<<"denied_surface">>, Error)

\* What is planned is the caller's text, what is run the capped one.
Statement == IF call.tool = "explain_query" /\ ~call.analyze THEN call.text ELSE Final

How == IF call.tool = "query" \/ (call.tool = "explain_query" /\ call.analyze) THEN "run" ELSE "plan"

Sent == asked' = asked \cup {[how |-> How, text |-> Statement]}

\* Mistake: the call is recorded before its outcome is known.
MistakeRecordedFirst ==
  /\ stage = "run" /\ ~IndexOutside
  /\ Sent /\ stage' = "answered" /\ answer' = Error
  /\ records' = Append(records, "allowed")
  /\ UNCHANGED <<cfg, call, final, priced, plan>>

\* The result is too large, a row does not fit, or the database refuses.
RunFails ==
  /\ stage = "run" /\ ~IndexOutside
  /\ Sent /\ stage' = "answered" /\ answer' = Error
  /\ records' = Append(records, "error")
  /\ UNCHANGED <<cfg, call, final, priced, plan>>

mark_truncation(n, rows) ==
  [kind |-> "rows", table |-> n, returned |-> AtMost(rows, Limit), truncated |-> rows > Limit]

\* The rows of the statement, or the plan. n is what a table has, or the lines of a plan.
Runs ==
  /\ stage = "run" /\ ~IndexOutside
  /\ Understood(Statement)
  /\ call.tool # "query" => Statement.stmts[1].kind = "query"
  /\ Sent /\ stage' = "answered"
  /\ \E n \in 0..MaxRows :
       LET s == Statement.stmts[1]
           rows == IF s.kind = "query" THEN RowsOf(s.q, n) ELSE n
       IN  answer' = IF call.tool = "query" THEN mark_truncation(n, rows) ELSE [kind |-> "plan"]
  /\ records' = Append(records, "allowed")
  /\ UNCHANGED <<cfg, call, final, priced, plan>>

-----------------------------------------------------------------------------
(* The catalogue tools. Each of them asks fixed queries.                   *)

\* resources/read decodes its address and records the call before anything is asked;
\* what follows is describe_table.
ReadResource ==
  /\ stage = "received" /\ call.tool = "resources/read"
  /\ \/ "table" \notin call.given /\ Returns(<<>>, Error)
     \/ /\ "table" \in call.given
        /\ records' = Append(records, "allowed")
        /\ stage' = "describe"
        /\ UNCHANGED <<cfg, call, final, asked, priced, plan, answer>>

Hidden == ~relation_visible(cfg, call.rel)

Describe ==
  /\ stage = "describe" \/ (stage = "received" /\ call.tool = "describe_table"
                            /\ "table" \in call.given)
  /\ \/ Hidden /\ Returns(<<>>, Error)
     \/ ~Hidden /\ Asks("schema")

List ==
  /\ stage = "received" /\ call.tool \in {"list_tables", "analyze_indexes"}
  /\ Asks("schema")

SchemaExists == \E r \in Relations : r[1] = call.rel[1]

\* schema_missing: an error of the question is no answer to it.
SchemaMissing ==
  /\ stage = "schema"
  /\ \/ ~SchemaExists /\ Returns(<<"error">>, Error)
     \/ Asks("catalog")

InSchema == {r \in Relations : r[1] = call.rel[1]}

filter_visible_rows(rels) == {r \in rels : relation_visible(cfg, r)}

\* Of a schema that is listed, the name is all that is told.
filter_visible_schemas(schemas) == {s \in schemas : schema_visible(cfg, s)}

Catalog ==
  /\ stage = "catalog"
  /\ CASE call.tool = "list_tables" ->
            Returns(<<"allowed">>, Shown(filter_visible_rows(InSchema)))
       [] call.tool = "analyze_indexes" ->
            Returns(<<"allowed">>, Shown(InSchema))
       [] OTHER ->   \* with what its foreign keys refer to
            IF call.rel \in Relations
            THEN Returns(<<"allowed">>, Shown({call.rel} \cup References(call.rel)))
            ELSE Returns(<<"error">>, Error)

\* A part of analyze_indexes and of database_health that fails is left out.
CatalogFails ==
  /\ stage = "catalog"
  /\ IF call.tool = "analyze_indexes" THEN Returns(<<"allowed">>, Shown({}))
     ELSE Returns(<<"error">>, Error)

\* The tools that take no table. The health of the database is told of by its tables and
\* indexes, and the top queries by their texts, of whatever schema.
Overview ==
  /\ stage = "received"
  /\ \/ /\ call.tool = "list_schemas"
        /\ \/ LET schemas == filter_visible_schemas({r[1] : r \in Relations})
              IN  Returns(<<"allowed">>, [kind |-> "schemas", shown |-> schemas])
           \/ Returns(<<"error">>, Error)
     \/ call.tool = "security_posture" /\ Returns(<<"allowed">>, Shown({}))
     \/ /\ call.tool \in {"database_health", "top_queries"}
        /\ \E rels \in SUBSET Relations : Returns(<<"allowed">>, Shown(rels))
     \/ call.tool = "top_queries" /\ Returns(<<"error">>, Error)

\* resources/list asks every database. Each is recorded with its own outcome; with
\* several of them the whole is answered and recorded whatever they say.
ResourcesOf(outcome) ==
  CASE outcome = "answers" -> "allowed"
    [] outcome = "unreachable" -> "degraded"
    [] outcome = "fails" -> "error"

ListResources ==
  /\ stage = "received" /\ call.tool = "resources/list"
  /\ \E outcome \in [1..cfg.databases -> {"answers", "unreachable", "fails"}] :
       LET one == cfg.databases = 1
           each == [i \in DOMAIN outcome |-> ResourcesOf(outcome[i])]
           some == \E i \in DOMAIN outcome : outcome[i] = "answers"
       IN  Returns(IF one THEN each ELSE Append(each, "allowed"),
                   IF one /\ outcome[1] = "fails" THEN Error
                   ELSE Shown(IF some THEN Relations ELSE {}))

Next ==
  \/ Incomplete \/ Refuse \/ Accept \/ IncompleteIndex \/ CannotCap \/ Proceed
  \/ GuardFails \/ GuardNames \/ GuardExplains \/ GuardFunctions \/ GuardVerdict
  \/ IndexHidden \/ RunFails \/ Runs
  \/ ReadResource \/ Describe \/ List \/ SchemaMissing \/ Catalog \/ CatalogFails
  \/ Overview \/ ListResources

Spec == Init /\ [][Next]_vars

-----------------------------------------------------------------------------
(* What must hold                                                          *)

\* Whatever the database is asked to plan or run of a caller's is one statement that was
\* written in the form it was judged in, and reads: nowhere in it, at any depth, is a
\* lock, a write, an INTO, an EXPLAIN that runs, or a call, in an expression or as f(..)
\* in FROM, of a function that changes something and that the operator has not vouched
\* for. (validate_readonly: "No multi-statement", and the round-trip gate of
\* enforce_limit_inner.) The function of LATERAL f(..) is excepted: the code looks only
\* at TableFactor::Table (validate.rs:669-684), and the parser makes of it another kind.
Changing == {"setval", "drop_chunks", "lo_export", "pg_advisory_lock", "pg_stat_reset"}

OnlyReadsRun ==
  \A a \in asked :
    LET s == a.text.stmts[1] IN
    /\ a.text.parses /\ ~a.text.trailing /\ ~a.text.hidden /\ Len(a.text.stmts) = 1
    /\ s.kind = "explain" => ~s.analyze /\ ~s.analyze_in_options
    /\ \A q \in Nodes(s, "query") : ~q.locks
    /\ \A b \in Nodes(s, "body") : b.kind # "write" /\ (b.kind = "select" => ~b.into)
    /\ \A f \in FunctionsIn(s, {"call"}) :
         f.schema \notin DENY_SCHEMAS /\ f.name \notin Changing \ cfg.allowed

\* No query runs, be it for its rows or under EXPLAIN ANALYZE, unless the very text that
\* runs was priced within MCP_MAX_COST: no spelling of it passes by cost_guard.
NothingRunsUnpriced ==
  \A a \in asked :
    a.how = "run" /\ a.text.stmts[1].kind = "query" => a.text \in priced

\* An answer has as many rows as the caller's own statement has from the offset on, up
\* to the limit and never beyond MAX_LIMIT, and says that it was cut exactly when more of
\* them exist: whatever LIMIT or FETCH the statement has, WITH TIES included, whose rows
\* may be more than its number, and however it was rewritten.
\* (mark_truncation: "states plainly whether anything was cut".)
RowsHonest ==
  answer.kind = "rows" =>
    LET s == call.text.stmts[1]
        all == IF s.kind = "query" THEN RowsOf(s.q, answer.table) ELSE answer.table
        left == IF all > call.offset THEN all - call.offset ELSE 0
    IN  /\ answer.returned = AtMost(left, Limit) /\ answer.returned <= MAX_LIMIT
        /\ answer.truncated <=> left > Limit

\* Under a surface, what a caller learns from rows or from a plan is about relations
\* inside it or partitions of those: through views, functions, EXPLAIN and
\* simulate_index, and also when the plan shows nothing. What the body of the function
\* of LATERAL f(..) reads is excepted: functions_called does not see it
\* (validate.rs:1259-1269).
AnswersInside ==
  active(cfg) /\ answer.kind \in {"rows", "plan"} =>
    /\ NamedOutside(Statement) = {}
    /\ \A r \in Reaches(Statement, {"call"}) :
         permitted_in(cfg, r) \/ \E parent \in Parent(r) : permitted_in(cfg, parent)

\* list_tables shows only what is inside the surface; describe_table and resources/read
\* only a table that is, with what its foreign keys refer to, be that inside or not
\* (tools.rs:490-496); and list_schemas names a schema only if a relation of it, be it
\* there or not, would be inside. (analyze_indexes, resources/list, database_health and
\* top_queries run fixed queries that no surface filters.)
HiddenNotDescribed ==
  /\ answer.kind = "list" /\ call.tool \in {"list_tables", "describe_table", "resources/read"} =>
       \A r \in answer.shown :
         \/ relation_visible(cfg, r)
         \/ /\ call.tool # "list_tables" /\ relation_visible(cfg, call.rel)
            /\ r \in References(call.rel)
  /\ answer.kind = "schemas" =>
       \A s \in answer.shown :
         active(cfg) => \E p \in cfg.patterns : relation_visible(cfg, <<s, p[2]>>)

\* The surface holds for what a caller's statement reads (cost_guard, tools.rs:539-772),
\* and for the catalogue tools that ask it (tools.rs:62-105, 458-537).
SurfaceHolds == AnswersInside /\ HiddenNotDescribed

\* The calls of which nothing is recorded: an argument is missing, a query cannot be
\* capped (handlers.rs:994), or describe_table is asked about a table that is hidden
\* (tools.rs:471-473).
Unrecorded ==
  \/ call.tool = "unknown"
  \/ call.tool \in Queries /\ "sql" \notin call.given
  \/ call.tool \in {"describe_table", "resources/read"} /\ "table" \notin call.given
  \/ call.tool = "describe_table" /\ Hidden
  \/ call.tool = "simulate_index" /\ final # {} /\ ~IndexComplete
  \/ call.tool = "query" /\ final = {} /\ validate_readonly(cfg, call.text)

Denials == {"denied_validation", "denied_cost", "denied_surface"}

\* The audit log tells what happened, on every exit that leaves a record: those without
\* one are the calls above, which get an error and have asked nothing of the caller's.
\* Any other call has one record, which is "allowed" exactly when it was answered; what
\* was denied has not run, for its cost only when the plan is beyond the ceiling
\* (tools.rs:539: "so the audit never confuses denied_cost with a SQL error"), and for
\* the surface only under one. resources/list has a record for each database.
\* resources/read has "allowed" before anything is looked at (tools.rs:415), with a
\* second record that tells the outcome, or with none when the table is hidden.
RecordTellsTruth ==
  stage = "answered" =>
    LET said == ToSet(records)
        answered == answer.kind # "error"
    IN
    /\ records = <<>> <=> Unrecorded
    /\ records = <<>> => ~answered /\ asked = {}
    /\ call.tool \notin {"resources/list", "resources/read"} /\ records # <<>> =>
         Len(records) = 1 /\ (records[1] = "allowed" <=> answered)
    /\ call.tool = "resources/list" =>
         /\ Len(records) = IF cfg.databases = 1 THEN 1 ELSE cfg.databases + 1
         /\ ~answered => records = <<"error">>
    /\ call.tool = "resources/read" /\ records # <<>> =>
         /\ records[1] = "allowed" /\ Len(records) = IF Hidden THEN 1 ELSE 2
         /\ answered <=> Len(records) = 2 /\ records[2] = "allowed"
    /\ said \cap Denials # {} => ~answered /\ \A a \in asked : a.how = "plan"
    /\ "denied_cost" \in said => Ceiling /\ plan.cost = "beyond"
    /\ "denied_surface" \in said => active(cfg)
=============================================================================
