----------------------------- MODULE MCToolCalls -----------------------------
(* The statements, the callers and the database the runs of ToolCalls use. *)
EXTENDS ToolCalls

MCLower(name) ==
  CASE name = "Orders" -> "orders"
    [] name = "App" -> "app"
    [] name = "SSN" -> "ssn"
    [] name = "Setval" -> "setval"
    [] name = "Secret_Lookup" -> "secret_lookup"
    [] OTHER -> name

\* The rows from the second to the fourth tie.
MCTied(k) == IF k \in 2..4 THEN 4 ELSE k

\* The rows of the body of a query when a table has n.
RECURSIVE MCRowsOfBody(_, _)
MCRowsOfBody(b, n) ==
  CASE b.kind = "query" -> Kept(b.q.cap, MCRowsOfBody(b.q.body, n))
    [] b.kind = "setop" -> MCRowsOfBody(b.left, n) + MCRowsOfBody(b.right, n)
    [] b.kind = "select" ->
         IF ~b.grouped /\ \E i \in DOMAIN b.items :
              b.items[i].kind = "call" /\ b.items[i].f.name = "count" THEN 1
         ELSE IF b.from = <<>> THEN 1
         ELSE IF b.from[1].kind = "derived"
              THEN Kept(b.from[1].q.cap, MCRowsOfBody(b.from[1].q.body, n))
         ELSE n
    [] OTHER -> n

\* A view over a hidden table, a partition, a quoted name, and a view of server state.
MCRelations ==
  {<<"app", "orders">>, <<"app", "part">>, <<"app", "v">>, <<"secret", "pay">>,
   <<"App", "Orders">>, <<"pg_catalog", "pg_settings">>}
MCServerState == {<<"pg_catalog", "pg_settings">>}
MCBase(r) == IF r = <<"app", "v">> THEN {<<"secret", "pay">>} ELSE {r}
MCParent(r) == IF r = <<"app", "part">> THEN {<<"app", "orders">>} ELSE {}
MCReferences(r) == IF r = <<"app", "orders">> THEN {<<"secret", "pay">>} ELSE {}
MCUserFunctions == {"secret_lookup", "Secret_Lookup"}
MCBody(f) == {<<"secret", "pay">>}

Plainly == [redacted |-> {}, allowed |-> {}, patterns |-> {}, catalog |-> FALSE, databases |-> 1]
WholeSchema == {<<"app", "*">>}

\* Without anything, with redaction, and with a surface in several widths.
MCConfigs ==
  {Plainly,
   [Plainly EXCEPT !.redacted = {"ssn"}, !.databases = 2],
   [Plainly EXCEPT !.allowed = {"lo_export"}],
   [Plainly EXCEPT !.patterns = WholeSchema, !.databases = 2],
   [Plainly EXCEPT !.patterns = WholeSchema, !.allowed = {"secret_lookup"}],
   [Plainly EXCEPT !.patterns = WholeSchema \cup {<<"app", "orders">>}, !.catalog = TRUE],
   [Plainly EXCEPT !.patterns = {<<"app", "orders">>, <<"secret", "none">>}]}

-----------------------------------------------------------------------------
(* Expressions, tables, queries                                            *)

Name(schema, name) == [schema |-> schema, name |-> name, readable |-> TRUE]
Unreadable == [schema |-> "", name |-> "f", readable |-> FALSE]

Star == [kind |-> "star"]
Column(name) == [kind |-> "column", name |-> name]
Path(name) == [kind |-> "path", name |-> name]
String(size, inside) == [kind |-> "text", size |-> size, inside |-> inside]
Number(value) == [kind |-> "number", size |-> 1, value |-> value]
Times(left, right) == [kind |-> "times", left |-> left, right |-> right]
Concat(left, right) == [kind |-> "concat", left |-> left, right |-> right]
Plus(left, right) == [kind |-> "plus", left |-> left, right |-> right]
Minus(left, right) == [kind |-> "minus", left |-> left, right |-> right]
Cast(arg) == [kind |-> "cast", arg |-> arg]
Apply(f, args) == [kind |-> "call", f |-> f, args |-> args, wild |-> FALSE]
ApplyToRow(f) == [kind |-> "call", f |-> f, args |-> <<>>, wild |-> TRUE]
Exists(query) == [kind |-> "exists", q |-> query]

Joined(f, join) == [f EXCEPT !.join = join]
Factor(kind, name, args) ==
  [kind |-> kind, name |-> name, args |-> args, alias |-> {}, renames |-> FALSE, join |-> NoJoin]
Table(schema, name) == Factor("table", Name(schema, name), <<>>)
CallOf(name) == Factor("call", name, <<>>)
Lateral(name) == Factor("lateral", name, <<>>)
Derived(query, renames) ==
  [kind |-> "derived", q |-> query, alias |-> {"t"}, renames |-> renames, join |-> NoJoin]

Select(items, from) ==
  [kind |-> "select", into |-> FALSE, grouped |-> FALSE, items |-> items, where |-> <<>>, from |-> from]
Query(body) == [locks |-> FALSE, ctes |-> <<>>, body |-> body, order |-> <<>>, cap |-> NoCap]
Capped(form, n, skip) ==
  [Query(Select(<<Star>>, <<Table("app", "orders")>>))
     EXCEPT !.cap = [form |-> form, n |-> n, skip |-> skip, ties |-> FALSE]]
WithTies(q) == [q EXCEPT !.cap.ties = TRUE]
With(renames, inner, body) ==
  [Query(body) EXCEPT !.ctes = <<[renames |-> renames, q |-> inner]>>]
Union(left, right) == [kind |-> "setop", left |-> left, right |-> right]

Orders == Select(<<Star>>, <<Table("app", "orders")>>)
OrdersInto == [Orders EXCEPT !.into = TRUE]
Locked == [Query(Orders) EXCEPT !.locks = TRUE]
Where(e) == Query([Orders EXCEPT !.where = <<e>>])
OrderedBy(e) == [Query(Orders) EXCEPT !.order = <<e>>]
Of(item) == Query(Select(<<item>>, <<Table("app", "orders")>>))
Value(item) == Query(Select(<<item>>, <<>>))
FromOnly(factor) == Query(Select(<<Star>>, <<factor>>))
Count == Apply(Name("", "count"), <<>>)

\* Tables derived within each other: with Wide, the page around it is nested too deep
\* for the parser, and with Widest the statement is.
Nest(q) == FromOnly(Derived(q, FALSE))
Wide == Nest(Nest(Query(Orders)))
Widest == Nest(Wide)

\* What reads, in the ways a caller may write it.
Reading ==
  {Query(Orders), Of(Path("id")), Of(Count), Value(Exists(Query(Orders))), Of(Exists(Query(Orders))),
   Query([Select(<<Count>>, <<Table("app", "orders")>>) EXCEPT !.grouped = TRUE]),
   Query([Select(<<Path("id"), Count>>, <<Table("app", "orders")>>) EXCEPT !.grouped = TRUE]),
   FromOnly(Table("", "orders")), FromOnly(Table("", "part")), FromOnly(Table("secret", "pay")),
   FromOnly(Table("App", "Orders")), Value(Apply(Name("", "Secret_Lookup"), <<>>)),
   FromOnly(Lateral(Name("", "secret_lookup"))), FromOnly(Lateral(Name("", "pg_advisory_lock"))),
   FromOnly([Lateral(Name("", "pg_typeof")) EXCEPT !.renames = TRUE, !.alias = {"orders"}]),
   OrderedBy(Path("id")), FromOnly(Table("app", "v")), FromOnly(Table("", "v")), FromOnly(Table("pg_catalog", "pg_settings")),
   Query([kind |-> "table", name |-> Name("secret", "pay")]),
   Query(Union(Orders, Orders)), With(FALSE, Query(Orders), Select(<<Star>>, <<Table("", "orders")>>)),
   Value(Apply(Name("", "secret_lookup"), <<String(1, {})>>)), FromOnly(CallOf(Name("", "secret_lookup"))),
   Value(Apply(Name("", "current_setting"), <<String(1, {})>>)), Value(Apply(Name("", "lo_export"), <<>>)),
   Value(Apply(Name("", "pg_typeof"), <<Number(1)>>)), Value(Apply(Name("", "lo_get"), <<Number(1)>>)),
   Capped("limit", 1, 0), Capped("limit", 3, 1), Capped("limit", 5, 0), Capped("fetch", 2, 0),
   Capped("fetch", 5, 0), Capped("unreadable", 2, 0), Capped("unreadable", 5, 0),
   WithTies(Capped("fetch", 0, 0)), WithTies(Capped("fetch", 1, 0)), WithTies(Capped("fetch", 2, 0)),
   WithTies(Capped("fetch", 1, 1)), WithTies(Capped("fetch", 5, 0)), WithTies(Capped("unreadable", 2, 0)),
   Capped("all", 0, 2), Capped("comma", 2, 0), Wide, Widest}

\* What only redaction refuses, and what a constant too large does.
Guarding ==
  {Of(Column("ssn")), Of(Column("SSN")), Where(Path("ssn")), OrderedBy(Column("ssn")), Of(Path("ssn")),
   FromOnly([Lateral(Name("", "pg_typeof")) EXCEPT !.args = <<Path("ssn")>>]), Of(Column("orders")), Of(String(3, {"ssn"})),
   Of(ApplyToRow(Name("", "row_to_json"))), Of(ApplyToRow(Name("", "count"))),
   FromOnly(Derived(Query(Orders), TRUE)), With(TRUE, Query(Orders), Orders),
   Query(Select(<<Star>>, <<Table("app", "orders"),
                            Joined(Table("app", "part"), [natural |-> TRUE, using |-> {}])>>)),
   Query(Select(<<Star>>, <<Table("app", "orders"),
                            Joined(Table("app", "part"), [natural |-> FALSE, using |-> {"ssn"}])>>)),
   Value(Apply(Name("", "repeat"), <<String(2, {}), Times(Number(3), Number(3))>>)),
   Value(Apply(Name("", "repeat"), <<String(2, {}), Plus(Number(3), Minus(Number(5), Number(3)))>>)),
   Value(Apply(Name("", "repeat"), <<String(2, {}), Minus(Number(3), Number(5))>>)),
   Value(Apply(Name("", "repeat"), <<Apply(Name("", "chr"), <<Number(1)>>), Cast(Number(9))>>)),
   Value(Concat(Apply(Name("", "lpad"), <<String(1, {}), Number(5)>>), String(4, {}))),
   Of(Apply(Name("", "repeat"), <<Path("id"), Number(9)>>))}

\* What writes, locks or acts, at some depth.
Acting ==
  {Locked, Query(OrdersInto), Query(Union(Orders, OrdersInto)), Query([kind |-> "write"]),
   FromOnly(Derived(Locked, FALSE)), FromOnly(Derived(Query(Union(Orders, OrdersInto)), FALSE)),
   With(FALSE, Query([kind |-> "write"]), Orders), Query([kind |-> "query", q |-> Locked]),
   Of(Exists(Query(Union(Orders, OrdersInto)))),
   Of(Apply(Name("", "lower"), <<Apply(Name("", "setval"), <<>>)>>)),
   Where(Apply(Name("", "setval"), <<>>)), OrderedBy(Apply(Name("", "Setval"), <<>>)),
   FromOnly([CallOf(Name("", "pg_typeof")) EXCEPT !.args = <<Apply(Name("", "setval"), <<>>)>>]),
   FromOnly([Lateral(Name("", "pg_typeof")) EXCEPT !.args = <<Apply(Name("", "setval"), <<>>)>>]),
   Of(Apply(Name("public", "drop_chunks"), <<>>)), FromOnly(CallOf(Name("cron", "schedule"))),
   FromOnly(CallOf(Name("", "pg_new_in_this_release"))), FromOnly(CallOf(Unreadable)),
   FromOnly(Table("pg_toast", "pg_toast_1")), Of(Apply(Name("", "get_raw_page"), <<>>)),
   Of(Apply(Unreadable, <<>>)), FromOnly(Table("", "pg_stat_reset"))}

-----------------------------------------------------------------------------
(* Texts and calls                                                         *)

Text(s) ==
  [trailing |-> FALSE, long |-> FALSE, parses |-> TRUE, hidden |-> FALSE,
   comment |-> FALSE, folds |-> FALSE, again |-> {"plain", "edited", "wrapped"}, stmts |-> <<s>>]

AsQuery(query) == [kind |-> "query", q |-> query]
Explain(s) == [kind |-> "explain", analyze |-> FALSE, analyze_in_options |-> FALSE, of |-> s]

OrdersText == Text(AsQuery(Query(Orders)))
CountText == Text(AsQuery(Of(Count)))
SecretText == Text(AsQuery(FromOnly(Table("secret", "pay"))))
InParentheses == Text(AsQuery(Query([kind |-> "query", q |-> Query(Orders)])))

OtherTexts ==
  {Text(Explain(AsQuery(Query(Orders)))), Text(Explain(SecretText.stmts[1])),
   Text(Explain(AsQuery(FromOnly(Table("", "v"))))), Text(Explain(AsQuery(Locked))),
   Text([Explain(AsQuery(Query(Orders))) EXCEPT !.analyze = TRUE]),
   Text([Explain(AsQuery(Query(Orders))) EXCEPT !.analyze_in_options = TRUE]),
   Text([kind |-> "explain table"]), Text([kind |-> "show tables"]), Text([kind |-> "other"]),
   Text([kind |-> "show", variable |-> "timezone"]),
   Text([kind |-> "show", variable |-> "data_directory"]),
   [SecretText EXCEPT !.folds = TRUE], [OrdersText EXCEPT !.folds = TRUE],
   [Text(AsQuery(Of(Apply(Name("", "secret_lookup"), <<>>)))) EXCEPT !.folds = TRUE],
   [CountText EXCEPT !.comment = TRUE], [OrdersText EXCEPT !.comment = TRUE],
   [OrdersText EXCEPT !.hidden = TRUE], [OrdersText EXCEPT !.trailing = TRUE],
   [OrdersText EXCEPT !.long = TRUE], [OrdersText EXCEPT !.parses = FALSE],
   [OrdersText EXCEPT !.stmts = <<OrdersText.stmts[1], OrdersText.stmts[1]>>],
   [OrdersText EXCEPT !.stmts = <<>>],
   [InParentheses EXCEPT !.again = {"plain", "wrapped"}], [InParentheses EXCEPT !.again = {}]}

Texts == {Text(AsQuery(query)) : query \in Reading \cup Guarding \cup Acting} \cup OtherTexts

NoCall ==
  [tool |-> "unknown", text |-> OrdersText, given |-> {}, limit |-> {}, offset |-> 0,
   analyze |-> FALSE, rel |-> <<"app", "orders">>]

Paging == {<<{}, 0>>, <<{}, 1>>, <<{0}, 0>>, <<{1}, 0>>, <<{1}, 2>>, <<{9}, 0>>}

MCCalls ==
  {NoCall, [NoCall EXCEPT !.tool = "query"], [NoCall EXCEPT !.tool = "describe_table"],
   [NoCall EXCEPT !.tool = "resources/read"],
   [NoCall EXCEPT !.tool = "simulate_index", !.given = {"sql"}]}
  \cup {[NoCall EXCEPT !.tool = "query", !.given = {"sql"}, !.text = t,
                       !.limit = page[1], !.offset = page[2]] : t \in Texts, page \in Paging}
  \cup {[NoCall EXCEPT !.tool = "explain_query", !.given = {"sql"}, !.text = t,
                       !.analyze = really] : t \in Texts, really \in BOOLEAN}
  \cup {[NoCall EXCEPT !.tool = "simulate_index", !.given = {"sql", "table", "columns"},
                       !.text = t, !.rel = r] : t \in Texts, r \in {<<"app", "orders">>, <<"secret", "pay">>}}
  \cup {[NoCall EXCEPT !.tool = tool, !.given = {"table"}, !.rel = r] :
          tool \in Named, r \in MCRelations \cup {<<"app", "none">>, <<"nowhere", "none">>}}
  \cup {[NoCall EXCEPT !.tool = tool] :
          tool \in {"list_schemas", "database_health", "security_posture", "top_queries",
                    "resources/list"}}
=============================================================================
