------------------------------ MODULE Validator ------------------------------
(***************************************************************************)
(* The statement validator of src/src/validate.rs: what is refused before  *)
(* the database is asked anything, and how an accepted statement is        *)
(* rewritten to return no more rows than were asked for.                   *)
(*                                                                         *)
(* A text is what a caller or this server wrote, abstracted to what the    *)
(* tokenizer and the parser say of it. A statement is a small syntax tree; *)
(* a list of names is abstracted to one member, which stands for them all. *)
(* A refusal has one of several reasons, which only its wording depends on: *)
(* here it is a refusal.                                                   *)
(***************************************************************************)
EXTENDS Integers, FiniteSets, SequencesExt, Names

CONSTANTS
  PARSE_RECURSION_LIMIT,   \* the parser gives up on a statement nested deeper
  MAX_RESULT_BYTES, CAP    \* the largest result, the largest estimate

ASSUME DepthAssumption == PARSE_RECURSION_LIMIT \in Nat

-----------------------------------------------------------------------------
(* The names that are listed, each list by one member or a few of it        *)

SAFE_DESPITE_FAMILY == {"lo_get"}
RAW_STORAGE_FUNCS == {"get_raw_page"}
RAW_STORAGE_RELATIONS == {"pg_statistic"}
RAW_STORAGE_SCHEMAS == {"pg_toast"}
EXTENSION_WRITE_FUNCS == {"drop_chunks"}
SIDE_EFFECT_FUNCS == {"setval"}
StatisticResets == {"pg_stat_reset"}
DENY_SCHEMAS == {"cron"}
SENSITIVE_SHOW_VARS == {"data_directory"}
STATISTIC_VALUE_COLUMNS == {"most_common_vals"}

\* The names that start with a prefix of the list.
DENY_FAMILIES == {"lo_get", "lo_export", "pg_advisory_lock"}

\* What is listed is written in lower case.
ASSUME LowerAssumption ==
  \A n \in DENY_SCHEMAS \cup SIDE_EFFECT_FUNCS \cup EXTENSION_WRITE_FUNCS \cup DENY_FAMILIES
          \cup StatisticResets : Lower(n) = n

is_catalog_namespace(f) ==
  f \in {"lo_get", "lo_export", "pg_advisory_lock", "pg_stat_reset", "pg_statistic",
         "pg_typeof", "pg_new_in_this_release", "pg_settings"}

is_known_read(f) == f \in {"pg_typeof"}

\* A configuration: redacted and allowed are MCP_REDACT_COLUMNS and
\* MCP_ALLOW_FUNCTIONS as sets of names in lower case.
expand_with_statistic_columns(v) == IF v = {} THEN {} ELSE v \cup STATISTIC_VALUE_COLUMNS
redacted_names(cfg) == expand_with_statistic_columns(cfg.redacted)
redaction_configured(cfg) == redacted_names(cfg) # {}
is_redacted(cfg, n) == Lower(n) \in redacted_names(cfg)
operator_allowed(cfg, f) == Lower(f) \in cfg.allowed

classify_function(cfg, f) ==
  IF f \in SAFE_DESPITE_FAMILY \/ operator_allowed(cfg, f) THEN "Allowed"
  ELSE IF f \in RAW_STORAGE_FUNCS THEN "RawStorage"
  ELSE IF f \in SIDE_EFFECT_FUNCS \cup EXTENSION_WRITE_FUNCS \cup DENY_FAMILIES \cup StatisticResets
       THEN "SideEffect"
  ELSE IF is_catalog_namespace(f) /\ ~is_known_read(f) THEN "UnknownCatalog"
  ELSE "Allowed"

function_rejection(cfg, f) == classify_function(cfg, f) # "Allowed"

qualified_function_rejection(cfg, n) ==
  Lower(n.schema) \in DENY_SCHEMAS \/ function_rejection(cfg, last_part_name(n))

is_raw_storage_relation(n) ==
  Lower(n.schema) \in RAW_STORAGE_SCHEMAS \/ Lower(n.name) \in RAW_STORAGE_RELATIONS

-----------------------------------------------------------------------------
(* The parts of a statement, each a pair of its sort and itself, and what  *)
(* is directly inside one. A SELECT has items, what it selects, and where, *)
(* the expressions of its WHERE, GROUP BY, HAVING and ON; a query has      *)
(* order, those of its ORDER BY, LIMIT and OFFSET. What stands in FROM is  *)
(* a table, a call f(..), a lateral LATERAL f(..), or a derived query.     *)

\* What makes up a query, down to its SELECTs.
Shape(part) ==
  LET sort == part[1]
      it == part[2]
  IN
  CASE sort = "query" -> {<<"query", c.q>> : c \in ToSet(it.ctes)} \cup {<<"body", it.body>>}
    [] sort = "body" /\ it.kind = "setop" -> {<<"body", it.left>>, <<"body", it.right>>}
    [] sort = "body" /\ it.kind = "query" -> {<<"query", it.q>>}
    [] OTHER -> {}

Exprs(seq) == {<<"expr", e>> : e \in ToSet(seq)}

\* What is inside those. The parser takes LATERAL f(..) for a factor of a kind of its
\* own, of which only the arguments are visited. The star of a projection is no
\* expression, and the name in TABLE t is text to the parser, of which no visitor hears.
Inside(part) ==
  LET sort == part[1]
      it == part[2]
  IN
  CASE sort = "statement" /\ it.kind = "query" -> {<<"query", it.q>>}
    [] sort = "statement" /\ it.kind = "explain" -> {<<"statement", it.of>>}
    [] sort = "query" -> Exprs(it.order)
    [] sort = "body" /\ it.kind = "select" ->
         {<<"expr", e>> : e \in {x \in ToSet(it.items) : x.kind # "star"}} \cup Exprs(it.where)
         \cup {<<"factor", f>> : f \in ToSet(it.from)}
    [] sort = "factor" /\ it.kind = "table" -> {<<"relation", it.name>>}
    [] sort = "factor" /\ it.kind = "call" -> {<<"relation", it.name>>} \cup Exprs(it.args)
    [] sort = "factor" /\ it.kind = "lateral" -> Exprs(it.args)
    [] sort = "factor" /\ it.kind = "derived" -> {<<"query", it.q>>}
    [] sort = "expr" /\ it.kind = "call" -> Exprs(it.args)
    [] sort = "expr" /\ it.kind \in {"concat", "times", "plus", "minus"} -> {<<"expr", it.left>>, <<"expr", it.right>>}
    [] sort = "expr" /\ it.kind = "cast" -> {<<"expr", it.arg>>}
    [] sort = "expr" /\ it.kind = "exists" -> {<<"query", it.q>>}
    [] OTHER -> {}

\* One step of the code's own recursion over the shape, or of the parser's visitor.
Children(walk, part) == IF walk = "shape" THEN Shape(part) ELSE Shape(part) \cup Inside(part)

\* The parts at each depth below a part.
Layers(walk, root) ==
  LET layer[d \in Nat] ==
        IF d = 0 THEN {root} ELSE UNION {Children(walk, part) : part \in layer[d - 1]}
  IN  layer

Below(walk, root) == UNION {Layers(walk, root)[d] : d \in 0..PARSE_RECURSION_LIMIT}

Shallow(s) == Layers("visit", <<"statement", s>>)[PARSE_RECURSION_LIMIT] = {}

OfSort(parts, sort) == {part[2] : part \in {p \in parts : p[1] = sort}}

\* What the visitor is handed of a statement.
Nodes(s, sort) == OfSort(Below("visit", <<"statement", s>>), sort)

SubExprs(e) == OfSort(Below("visit", <<"expr", e>>), "expr")

-----------------------------------------------------------------------------
(* The size of what PostgreSQL would fold. A set with at most one number:  *)
(* none when it cannot be worked out.                                      *)

is_constant_expr(e) == \A x \in SubExprs(e) : x.kind \notin {"column", "path"}

AtMost(n, m) == IF n <= m THEN n ELSE m

const_integer(e) ==
  LET value[x \in SubExprs(e)] ==
        CASE x.kind = "number" -> {x.value}
          [] x.kind = "cast" -> value[x.arg]
          [] x.kind = "times" -> {a * b : a \in value[x.left], b \in value[x.right]}
          [] x.kind = "plus" -> {a + b : a \in value[x.left], b \in value[x.right]}
          [] x.kind = "minus" ->
               {IF a > b THEN a - b ELSE 0 : a \in value[x.left], b \in value[x.right]}
          [] OTHER -> {}
  IN  value[e]

folded_size_estimate(e) ==
  LET size[x \in SubExprs(e)] ==
        CASE x.kind \in {"text", "number"} -> {x.size}
          [] x.kind = "cast" -> size[x.arg]
          [] x.kind = "concat" -> {AtMost(a + b, CAP) : a \in size[x.left], b \in size[x.right]}
          [] x.kind = "call" /\ last_part_name(x.f) = "repeat" /\ Len(x.args) = 2 /\ ~x.wild ->
               LET sized == size[x.args[1]]
                   unit == IF sized = {} /\ is_constant_expr(x.args[1]) THEN {1} ELSE sized
               IN  {AtMost(u * n, CAP) : u \in unit, n \in const_integer(x.args[2])}
          [] x.kind = "call" /\ last_part_name(x.f) = "lpad" /\ Len(x.args) = 2 /\ ~x.wild ->
               const_integer(x.args[2])
          [] OTHER -> {}
  IN  size[e]

-----------------------------------------------------------------------------
(* The shape of a statement                                                *)

\* Mistake: what is not known is let through.
MistakeLetThrough(part) ==
  LET it == part[2] IN
  CASE part[1] = "query" -> ~it.locks
    [] part[1] = "body" /\ it.kind = "select" -> ~it.into
    [] OTHER -> TRUE

\* A part of a query that itself neither locks nor writes: INSERT or UPDATE in it is a
\* CTE that writes.
part_is_readonly(part) ==
  LET it == part[2] IN
  CASE part[1] = "query" -> ~it.locks
    [] part[1] = "body" /\ it.kind = "select" -> ~it.into
    [] OTHER -> it.kind \in {"values", "table", "query", "setop"}

setexpr_is_readonly(b) == \A part \in Below("shape", <<"body", b>>) : part_is_readonly(part)
query_is_readonly(q) == \A part \in Below("shape", <<"query", q>>) : part_is_readonly(part)

\* EXPLAIN of EXPLAIN is looked through to the statement explained.
structural_readonly(s) ==
  \A x \in Nodes(s, "statement") :
    CASE x.kind = "query" -> query_is_readonly(x.q)
      [] x.kind = "explain" -> ~x.analyze /\ ~x.analyze_in_options
      [] x.kind = "show" -> Lower(x.variable) \notin SENSITIVE_SHOW_VARS
      [] OTHER -> x.kind \in {"explain table", "show tables"}

-----------------------------------------------------------------------------
(* SecurityScanner: what a part of the statement breaks the walk off with  *)

\* RowRefCollector: the tables and the aliases of the statement.
RowRefs(s) ==
  {last_part_name(n) : n \in Nodes(s, "relation")}
  \cup {Lower(a) : a \in UNION {f.alias : f \in {g \in Nodes(s, "factor") : g.kind # "lateral"}}}

join_constraint_evasion(cfg, q) ==
  /\ redaction_configured(cfg) /\ q.body.kind = "select"
  /\ \E i \in DOMAIN q.body.from :
       LET join == q.body.from[i].join IN
         join.natural \/ \E c \in join.using : is_redacted(cfg, c)

pre_visit_query(cfg, q) ==
  \/ redaction_configured(cfg) /\ \E i \in DOMAIN q.ctes : q.ctes[i].renames
  \/ q.locks \/ ~setexpr_is_readonly(q.body)
  \/ join_constraint_evasion(cfg, q)

pre_visit_expr(cfg, refs, e) ==
  \/ \E size \in folded_size_estimate(e) : size > MAX_RESULT_BYTES
  \/ e.kind \in {"column", "path"} /\ is_redacted(cfg, e.name)
  \/ e.kind = "column" /\ redaction_configured(cfg) /\ Lower(e.name) \in refs
  \/ e.kind = "text" /\ \E n \in e.inside : is_redacted(cfg, n)
  \/ e.kind = "call" /\ \/ redaction_configured(cfg) /\ e.wild /\ last_part_name(e.f) # "count"
                        \/ ~e.f.readable
                        \/ qualified_function_rejection(cfg, e.f)

pre_visit_relation(cfg, n) ==
  \/ ~n.readable
  \/ is_raw_storage_relation(n)
  \/ classify_function(cfg, last_part_name(n)) = "SideEffect"

\* Neither the alias nor the name of LATERAL f(..) is looked at.
pre_visit_table_factor(cfg, f) ==
  \/ redaction_configured(cfg) /\ f.kind # "lateral" /\ f.renames
  \/ f.kind = "call" /\ (~f.name.readable \/ qualified_function_rejection(cfg, f.name))

\* No part breaks the walk off. The order of the walk decides which one speaks first.
Scanned(cfg, s) ==
  /\ \A q \in Nodes(s, "query") : ~pre_visit_query(cfg, q)
  /\ \A e \in Nodes(s, "expr") : ~pre_visit_expr(cfg, RowRefs(s), e)
  /\ \A n \in Nodes(s, "relation") : ~pre_visit_relation(cfg, n)
  /\ \A f \in Nodes(s, "factor") : ~pre_visit_table_factor(cfg, f)

-----------------------------------------------------------------------------
(* Texts. trailing: a token follows a semicolon. long: more than           *)
(* MAX_SQL_LEN. parses: the grammar has it, and stmts is what it says.     *)
(* hidden: an invisible character outside a literal. comment: it starts    *)
(* with one. again: which renderings of it parse again. folds: the planner *)
(* finds that it selects nothing.                                          *)

has_trailing_statement(t) == t.trailing
Parses(t) == ~t.long /\ t.parses /\ \A s \in ToSet(t.stmts) : Shallow(s)
reject_invisible_outside_literals(t) == t.hidden

validate_readonly(cfg, t) ==
  /\ ~has_trailing_statement(t)
  /\ Parses(t)
  /\ Len(t.stmts) = 1
  /\ ~reject_invisible_outside_literals(t)
  /\ structural_readonly(t.stmts[1])
  /\ Scanned(cfg, t.stmts[1])

\* The text of a statement the server renders itself, in one of the forms of t.again.
Rendered(t, form, s) ==
  [t EXCEPT !.stmts = <<s>>, !.parses = form \in t.again,
            !.trailing = FALSE, !.hidden = FALSE, !.comment = FALSE]

-----------------------------------------------------------------------------
(* The row cap. A query's own cap is none, a literal LIMIT or FETCH, one   *)
(* whose number is an expression, all (LIMIT ALL, OFFSET alone), or the    *)
(* reversed form of MySQL; n is its number and skip what it leaves out.    *)
(* ties is FETCH .. WITH TIES, at which nothing below looks: the rows that *)
(* tie with the last one come, too.                                        *)

Caps ==
  {cap \in [form : {"none", "limit", "fetch", "unreadable", "all", "comma"}, n : Nat, skip : Nat,
            ties : BOOLEAN] :
     /\ cap.form = "none" => cap.skip = 0
     /\ cap.ties => cap.form \in {"fetch", "unreadable"}}

NoCap == [form |-> "none", n |-> 0, skip |-> 0, ties |-> FALSE]
LimitOf(n, skip) == [form |-> "limit", n |-> n, skip |-> skip, ties |-> FALSE]

is_count_or_exists(q) ==
  /\ q.body.kind = "select" /\ Len(q.body.items) = 1
  /\ LET e == q.body.items[1] IN
       e.kind = "exists" \/ (e.kind = "call" /\ last_part_name(e.f) = "count")

NeedsWrap(q) == q.cap.form \in {"unreadable", "all", "comma"}

cap_rows(q, max_rows) ==
  CASE q.cap.form \in {"limit", "fetch"} -> [q EXCEPT !.cap.n = AtMost(@, max_rows)]
    [] q.cap.form = "none" /\ ~is_count_or_exists(q) -> [q EXCEPT !.cap = LimitOf(max_rows, 0)]
    [] OTHER -> q

NoJoin == [natural |-> FALSE, using |-> {}]

\* SELECT * FROM (inner) AS alias LIMIT n OFFSET skip
Wrapped(inner, alias, cap) ==
  [kind |-> "query",
   q |-> [locks |-> FALSE, ctes |-> <<>>, order |-> <<>>, cap |-> cap,
          body |-> [kind |-> "select", into |-> FALSE, grouped |-> FALSE,
                    items |-> <<[kind |-> "star"]>>, where |-> <<>>,
                    from |-> <<[kind |-> "derived", q |-> inner.q, alias |-> {alias},
                                renames |-> FALSE, join |-> NoJoin]>>]]]

\* A rewriting ends with the text to send, or with none: {} is a refusal.
Gate(cfg, t) == IF validate_readonly(cfg, t) THEN {t} ELSE {}

\* Mistake: the text of the caller goes on when the query needs no cap of ours.
MistakeCallersText(cfg, t, max_rows) ==
  LET s == t.stmts[1]
  IN  IF s.kind # "query" \/ cap_rows(s.q, max_rows) = s.q THEN {t}
      ELSE Gate(cfg, Rendered(t, "edited", [s EXCEPT !.q = cap_rows(@, max_rows)]))

enforce_limit_inner(cfg, t, max_rows) ==
  LET s == t.stmts[1]
      wraps == s.kind = "query" /\ NeedsWrap(s.q)
      capped == IF s.kind = "query" THEN [s EXCEPT !.q = cap_rows(@, max_rows)] ELSE s
      rendered == IF wraps THEN Rendered(t, "wrapped", Wrapped(s, "_mcp_cap", LimitOf(max_rows, 0)))
                  ELSE Rendered(t, IF capped = s THEN "plain" ELSE "edited", capped)
      fallback == Gate(cfg, Rendered(t, "plain", s))
  IN  IF validate_readonly(cfg, rendered) THEN {rendered} ELSE fallback

enforce_limit_offset(cfg, t, max_rows, offset) ==
  IF offset = 0 THEN enforce_limit_inner(cfg, t, max_rows)
  ELSE IF t.stmts[1].kind # "query" THEN {}   \* SELECT * FROM (EXPLAIN ...) does not parse
  ELSE Gate(cfg, Rendered(t, "wrapped", Wrapped(t.stmts[1], "_mcp_page", LimitOf(max_rows, offset))))

-----------------------------------------------------------------------------
(* What is read from a text for the checks of others                       *)

\* By its first word, after parentheses.
is_row_query(t) == ~t.comment /\ t.stmts[1].kind = "query"

\* The relations named, but for those that are called.
relations_named(t) ==
  IF ~Parses(t) THEN {}
  ELSE {<<Lower(f.name.schema), Lower(f.name.name)>> : f \in {g \in Nodes(t.stmts[1], "factor") : g.kind = "table"}}

\* Those of LATERAL f(..) are not among them.
functions_called(t) ==
  IF ~Parses(t) THEN {}
  ELSE {last_part_name(e.f) : e \in {x \in Nodes(t.stmts[1], "expr") : x.kind = "call"}}
       \cup {last_part_name(f.name) : f \in {g \in Nodes(t.stmts[1], "factor") : g.kind = "call"}}

\* The text after EXPLAIN: of EXPLAIN of a table, one that is no statement.
explained_statement(t) ==
  LET s == t.stmts[1] IN
  IF ~Parses(t) \/ t.comment THEN {}
  ELSE CASE s.kind = "explain" -> {[t EXCEPT !.stmts = <<s.of>>]}
         [] s.kind = "explain table" -> {[t EXCEPT !.stmts = <<>>, !.parses = FALSE]}
         [] OTHER -> {}
=============================================================================
