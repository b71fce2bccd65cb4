----------------------------- MODULE ToolCallsProofs -----------------------------
(***************************************************************************)
(* What a call of a tool may have the database do, what it may tell of and *)
(* what it leaves in the audit log: for any statements, however deep, any  *)
(* configurations and any database.                                        *)
(***************************************************************************)
EXTENDS ToolCalls, WellFoundedInduction, TLAPS

-----------------------------------------------------------------------------
(* The layers of a statement.                                              *)

\* Induction over the depth, for a set of depths.
LEMMA ByDepth ==
  ASSUME NEW S, 0 \in S, \A n \in Nat : n \in S => n + 1 \in S
  PROVE  Nat \subseteq S
<1> DEFINE less == OpToRel(<, Nat)
           Bad == Nat \ S
<1>1. IsWellFoundedOn(less, Nat) /\ \A i, j \in Nat : j < i => <<j, i>> \in less
  <2>1. \A i, j \in Nat : j < i => <<j, i>> \in less
    BY DEF OpToRel
  <2> QED
    BY <2>1, NatLessThanWellFounded
<1> HIDE DEF less
<1>2. ASSUME Bad # {} PROVE FALSE
  <2>1. PICK i \in Bad : \A j \in Bad : <<j, i>> \notin less
    BY <1>1, <1>2, WFMin
  <2>2. i \in Nat /\ i \notin S /\ i - 1 \in Nat /\ i - 1 < i /\ (i - 1) + 1 = i
    OBVIOUS
  <2>3. <<i - 1, i>> \in less
    BY <1>1, <2>2, Zenon
  <2>4. i - 1 \in S
    BY <2>1, <2>2, <2>3
  <2> QED
    BY <2>2, <2>4
<1> QED
  BY <1>2

\* The layers down to some depth, as a function built up to it.
Grown(walk, root, f, n) ==
  /\ f[0] = {root}
  /\ \A d \in 1..n : f[d] = UNION {Children(walk, part) : part \in f[d - 1]}

LEMMA GrowthExists ==
  ASSUME NEW walk, NEW root
  PROVE  \A n \in Nat : \E f : Grown(walk, root, f, n)
<1> DEFINE S == {n \in Nat : \E f : Grown(walk, root, f, n)}
<1>1. 0 \in S
  <2>1. Grown(walk, root, [d \in {0} |-> {root}], 0)
    BY DEF Grown
  <2> QED
    BY <2>1
<1>2. ASSUME NEW n \in Nat, n \in S PROVE n + 1 \in S
  <2>1. PICK f : Grown(walk, root, f, n)
    BY <1>2
  <2> DEFINE next == UNION {Children(walk, part) : part \in f[n]}
             g == [d \in 0..n + 1 |-> IF d <= n THEN f[d] ELSE next]
  <2>2. g[0] = {root}
    BY <2>1 DEF Grown
  <2>3. ASSUME NEW d \in 1..n + 1 PROVE g[d] = UNION {Children(walk, part) : part \in g[d - 1]}
    <3>1. CASE d <= n
      <4>1. g[d] = f[d] /\ g[d - 1] = f[d - 1] /\ d \in 1..n
        BY <3>1
      <4> QED
        BY <2>1, <4>1 DEF Grown
    <3>2. CASE d = n + 1
      <4>1. g[d] = next /\ g[d - 1] = f[n]
        BY <3>2
      <4> QED
        BY <4>1
    <3>3. d <= n \/ d = n + 1
      OBVIOUS
    <3> HIDE DEF g
    <3> QED
      BY <3>1, <3>2, <3>3
  <2>4. Grown(walk, root, g, n + 1)
    BY <2>2, <2>3 DEF Grown
  <2> QED
    BY <2>4
<1> HIDE DEF S
<1>3. Nat \subseteq S
  BY <1>1, <1>2, ByDepth
<1> QED
  BY <1>3 DEF S

LEMMA GrowthUnique ==
  ASSUME NEW walk, NEW root, NEW f, NEW g, NEW n \in Nat, NEW m \in Nat,
         Grown(walk, root, f, n), Grown(walk, root, g, m)
  PROVE  \A d \in Nat : d <= n /\ d <= m => f[d] = g[d]
<1> DEFINE S == {d \in Nat : d <= n /\ d <= m => f[d] = g[d]}
<1>1. 0 \in S
  BY DEF Grown
<1>2. ASSUME NEW d \in Nat, d \in S PROVE d + 1 \in S
  <2> SUFFICES ASSUME d + 1 <= n, d + 1 <= m PROVE f[d + 1] = g[d + 1]
    OBVIOUS
  <2>1. d + 1 \in 1..n /\ d + 1 \in 1..m /\ (d + 1) - 1 = d
    OBVIOUS
  <2>2. f[d] = g[d]
    BY <1>2
  <2> QED
    BY <2>1, <2>2 DEF Grown
<1> HIDE DEF S
<1>3. Nat \subseteq S
  BY <1>1, <1>2, ByDepth
<1> QED
  BY <1>3 DEF S

\* Layers is well defined: it satisfies the equation it is defined by.
LEMMA LayersDef ==
  ASSUME NEW walk, NEW root
  PROVE  /\ Layers(walk, root)[0] = {root}
         /\ \A d \in Nat : Layers(walk, root)[d + 1]
                             = UNION {Children(walk, part) : part \in Layers(walk, root)[d]}
<1> DEFINE Fits(f) ==
             f = [d \in Nat |-> IF d = 0 THEN {root}
                                ELSE UNION {Children(walk, part) : part \in f[d - 1]}]
           grown(n) == CHOOSE f : Grown(walk, root, f, n)
           all == [n \in Nat |-> grown(n)[n]]
<1>1. \A n \in Nat : Grown(walk, root, grown(n), n)
  BY GrowthExists
<1>2. Fits(all)
  <2>1. all[0] = {root}
    BY <1>1 DEF Grown
  <2>2. ASSUME NEW d \in Nat, d # 0
        PROVE  all[d] = UNION {Children(walk, part) : part \in all[d - 1]}
    <3>1. Grown(walk, root, grown(d), d) /\ Grown(walk, root, grown(d - 1), d - 1) /\ d - 1 \in Nat
      BY <1>1, <2>2
    <3> HIDE DEF grown
    <3>2. grown(d)[d - 1] = grown(d - 1)[d - 1]
      BY <3>1, GrowthUnique
    <3>3. grown(d)[d] = UNION {Children(walk, part) : part \in grown(d)[d - 1]}
      BY <2>2, <3>1 DEF Grown
    <3>4. all[d] = grown(d)[d] /\ all[d - 1] = grown(d - 1)[d - 1]
      BY <3>1
    <3> QED
      BY <3>2, <3>3, <3>4
  <2> HIDE DEF grown
  <2>3. all = [d \in Nat |-> IF d = 0 THEN {root}
                             ELSE UNION {Children(walk, part) : part \in all[d - 1]}]
    <3>1. \A d \in Nat : all[d] = IF d = 0 THEN {root}
                                  ELSE UNION {Children(walk, part) : part \in all[d - 1]}
      BY <2>1, <2>2
    <3> HIDE DEF all
    <3>2. all = [d \in Nat |-> all[d]]
      BY DEF all
    <3> QED
      BY <3>1, <3>2
  <2> QED
    BY <2>3
<1>3. Layers(walk, root) = CHOOSE f : Fits(f)
  BY DEF Layers
<1> HIDE DEF Fits, all
<1>4. Fits(Layers(walk, root))
  BY <1>2, <1>3
<1> QED
  BY <1>4 DEF Fits

\* A part with one child only has below it what the child has.
LEMMA OnlyChild ==
  ASSUME NEW walk, NEW root, NEW child, Children(walk, root) = {child}
  PROVE  \A d \in Nat : Layers(walk, root)[d + 1] = Layers(walk, child)[d]
<1> DEFINE S == {d \in Nat : Layers(walk, root)[d + 1] = Layers(walk, child)[d]}
<1>1. 0 \in S
  <2>1. Layers(walk, root)[0 + 1] = UNION {Children(walk, part) : part \in {root}}
    BY LayersDef
  <2>2. Layers(walk, child)[0] = {child}
    BY LayersDef
  <2> QED
    BY <2>1, <2>2
<1>2. ASSUME NEW d \in Nat, d \in S PROVE d + 1 \in S
  <2>1. Layers(walk, root)[(d + 1) + 1]
          = UNION {Children(walk, part) : part \in Layers(walk, root)[d + 1]}
    BY LayersDef
  <2>2. Layers(walk, child)[d + 1] = UNION {Children(walk, part) : part \in Layers(walk, child)[d]}
    BY LayersDef
  <2> DEFINE inside(parts) == UNION {Children(walk, part) : part \in parts}
  <2>3. /\ Layers(walk, root)[(d + 1) + 1] = inside(Layers(walk, root)[d + 1])
        /\ Layers(walk, child)[d + 1] = inside(Layers(walk, child)[d])
    BY <2>1, <2>2
  <2> HIDE DEF inside
  <2> QED
    BY <1>2, <2>3
<1> HIDE DEF S
<1>3. Nat \subseteq S
  BY <1>1, <1>2, ByDepth
<1> QED
  BY <1>3 DEF S

\* Parts with the same children have the same below them.
LEMMA SameChildren ==
  ASSUME NEW walk, NEW one, NEW other, Children(walk, one) = Children(walk, other)
  PROVE  \A d \in Nat : Layers(walk, one)[d + 1] = Layers(walk, other)[d + 1]
<1> DEFINE S == {d \in Nat : Layers(walk, one)[d + 1] = Layers(walk, other)[d + 1]}
<1>1. 0 \in S
  <2>1. Layers(walk, one)[0 + 1] = UNION {Children(walk, part) : part \in {one}}
    BY LayersDef
  <2>2. Layers(walk, other)[0 + 1] = UNION {Children(walk, part) : part \in {other}}
    BY LayersDef
  <2> QED
    BY <2>1, <2>2
<1>2. ASSUME NEW d \in Nat, d \in S PROVE d + 1 \in S
  <2>1. /\ Layers(walk, one)[(d + 1) + 1]
             = UNION {Children(walk, part) : part \in Layers(walk, one)[d + 1]}
        /\ Layers(walk, other)[(d + 1) + 1]
             = UNION {Children(walk, part) : part \in Layers(walk, other)[d + 1]}
    BY LayersDef
  <2> DEFINE inside(parts) == UNION {Children(walk, part) : part \in parts}
  <2>2. /\ Layers(walk, one)[(d + 1) + 1] = inside(Layers(walk, one)[d + 1])
        /\ Layers(walk, other)[(d + 1) + 1] = inside(Layers(walk, other)[d + 1])
    BY <2>1
  <2> HIDE DEF inside
  <2> QED
    BY <1>2, <2>2
<1> HIDE DEF S
<1>3. Nat \subseteq S
  BY <1>1, <1>2, ByDepth
<1> QED
  BY <1>3 DEF S

\* Below an empty layer there is nothing.
LEMMA StaysEmpty ==
  ASSUME NEW walk, NEW root, NEW n \in Nat, Layers(walk, root)[n] = {}
  PROVE  \A d \in Nat : Layers(walk, root)[n + d] = {}
<1> DEFINE S == {d \in Nat : Layers(walk, root)[n + d] = {}}
<1>1. 0 \in S
  OBVIOUS
<1>2. ASSUME NEW d \in Nat, d \in S PROVE d + 1 \in S
  <2>1. Layers(walk, root)[(n + d) + 1]
          = UNION {Children(walk, part) : part \in Layers(walk, root)[n + d]}
    BY LayersDef
  <2>2. (n + d) + 1 = n + (d + 1)
    OBVIOUS
  <2> QED
    BY <1>2, <2>1, <2>2
<1> HIDE DEF S
<1>3. Nat \subseteq S
  BY <1>1, <1>2, ByDepth
<1> QED
  BY <1>3 DEF S

-----------------------------------------------------------------------------
(* What the visitor is handed of a statement.                              *)

Root(s) == <<"statement", s>>

\* What is one layer down is inside of what is in the layer.
LEMMA Deeper ==
  ASSUME NEW walk, NEW root, NEW d \in Nat, NEW part
  PROVE  part \in Layers(walk, root)[d + 1]
           <=> \E parent \in Layers(walk, root)[d] : part \in Children(walk, parent)
<1> DEFINE layers == Layers(walk, root)
<1>1. layers[d + 1] = UNION {Children(walk, parent) : parent \in layers[d]}
  BY LayersDef
<1> HIDE DEF layers
<1>2. part \in UNION {Children(walk, parent) : parent \in layers[d]}
        <=> \E parent \in layers[d] : part \in Children(walk, parent)
  OBVIOUS
<1>3. part \in layers[d + 1] <=> \E parent \in layers[d] : part \in Children(walk, parent)
  BY <1>1, <1>2
<1> QED
  BY <1>3 DEF layers

\* A part is a sort and what is of that sort.
LEMMA PartsArePairs ==
  ASSUME NEW walk, NEW root, root = <<root[1], root[2]>>
  PROVE  \A d \in Nat : \A part \in Layers(walk, root)[d] : part = <<part[1], part[2]>>
<1> DEFINE S == {d \in Nat : \A part \in Layers(walk, root)[d] : part = <<part[1], part[2]>>}
<1>1. 0 \in S
  BY LayersDef
<1>2. ASSUME NEW d \in Nat, d \in S PROVE d + 1 \in S
  <2> SUFFICES ASSUME NEW part \in Layers(walk, root)[d + 1] PROVE part = <<part[1], part[2]>>
    OBVIOUS
  <2>1. PICK parent \in Layers(walk, root)[d] : part \in Children(walk, parent)
    BY Deeper
  <2>2. ASSUME part \in Shape(parent) PROVE part = <<part[1], part[2]>>
    BY <2>2 DEF Shape
  <2>3. ASSUME part \in Inside(parent) PROVE part = <<part[1], part[2]>>
    <3> DEFINE it == parent[2]
    <3>1. \/ part \in {<<"query", it.q>>} \/ part \in {<<"statement", it.of>>}
          \/ part \in Exprs(it.order)
          \/ part \in {<<"expr", e>> : e \in {x \in ToSet(it.items) : x.kind # "star"}}
          \/ part \in Exprs(it.where)
          \/ part \in {<<"factor", f>> : f \in ToSet(it.from)}
          \/ part \in {<<"relation", it.name>>} \/ part \in Exprs(it.args)
          \/ part \in {<<"expr", it.left>>, <<"expr", it.right>>} \/ part \in {<<"expr", it.arg>>}
      BY <2>3 DEF Inside
    <3> QED
      BY <3>1 DEF Exprs
  <2> QED
    BY <2>1, <2>2, <2>3 DEF Children
<1> HIDE DEF S
<1>3. Nat \subseteq S
  BY <1>1, <1>2, ByDepth
<1> QED
  BY <1>3 DEF S

\* A statement the parser takes: it hands over every part there is, at any depth.
LEMMA NodesOf ==
  ASSUME NEW s, Shallow(s), NEW sort, NEW x
  PROVE  /\ x \in Nodes(s, sort) <=> \E d \in Nat : <<sort, x>> \in Layers("visit", Root(s))[d]
         /\ x \in Nodes(s, sort) <=>
              \E d \in 0..PARSE_RECURSION_LIMIT : <<sort, x>> \in Layers("visit", Root(s))[d]
<1> DEFINE layers == Layers("visit", Root(s))
<1>1. \A d \in Nat : \A part \in layers[d] : part = <<part[1], part[2]>>
  <2>1. Root(s) = <<Root(s)[1], Root(s)[2]>>
    BY DEF Root
  <2> QED
    BY <2>1, PartsArePairs
<1>2. Below("visit", Root(s)) = UNION {layers[d] : d \in 0..PARSE_RECURSION_LIMIT}
  BY DEF Below
<1>3. ASSUME NEW d \in Nat, d > PARSE_RECURSION_LIMIT PROVE layers[d] = {}
  <2>1. layers[PARSE_RECURSION_LIMIT] = {}
    BY DEF Shallow, Root
  <2>2. d - PARSE_RECURSION_LIMIT \in Nat /\ d = PARSE_RECURSION_LIMIT + (d - PARSE_RECURSION_LIMIT)
    BY <1>3, DepthAssumption
  <2> QED
    BY <2>1, <2>2, StaysEmpty, DepthAssumption
<1>4. Nodes(s, sort) = {part[2] : part \in {p \in Below("visit", Root(s)) : p[1] = sort}}
  BY DEF Nodes, OfSort, Root
<1>5. 0..PARSE_RECURSION_LIMIT \subseteq Nat
  BY DepthAssumption
<1> HIDE DEF layers
<1>6. ASSUME x \in Nodes(s, sort)
      PROVE  \E d \in 0..PARSE_RECURSION_LIMIT : <<sort, x>> \in layers[d]
  <2>1. PICK part \in Below("visit", Root(s)) : part[1] = sort /\ part[2] = x
    BY <1>4, <1>6
  <2>2. PICK d \in 0..PARSE_RECURSION_LIMIT : part \in layers[d]
    BY <1>2, <2>1
  <2>3. part = <<sort, x>>
    BY <1>1, <1>5, <2>1, <2>2
  <2> QED
    BY <2>2, <2>3
<1>7. ASSUME NEW d \in 0..PARSE_RECURSION_LIMIT, <<sort, x>> \in layers[d]
      PROVE  x \in Nodes(s, sort)
  <2>1. <<sort, x>> \in Below("visit", Root(s))
    BY <1>2, <1>7
  <2> QED
    BY <1>4, <2>1
<1>8. ASSUME NEW d \in Nat, <<sort, x>> \in layers[d]
      PROVE  d \in 0..PARSE_RECURSION_LIMIT
  <2>1. ~(d > PARSE_RECURSION_LIMIT)
    BY <1>3, <1>8
  <2> QED
    BY <2>1, DepthAssumption
<1> QED
  BY <1>5, <1>6, <1>7, <1>8 DEF layers

\* What a statement is made of is a part of it.
LEMMA NodesAtTop ==
  ASSUME NEW s, Shallow(s)
  PROVE  /\ s \in Nodes(s, "statement")
         /\ s.kind = "query" => s.q \in Nodes(s, "query")
<1>1. Root(s) \in Layers("visit", Root(s))[0]
  BY LayersDef
<1>2. s \in Nodes(s, "statement")
  BY <1>1, NodesOf DEF Root
<1>3. ASSUME s.kind = "query" PROVE s.q \in Nodes(s, "query")
  <2>1. <<"query", s.q>> \in Children("visit", Root(s))
    BY <1>3 DEF Children, Inside, Root
  <2>2. <<"query", s.q>> \in Layers("visit", Root(s))[0 + 1]
    BY <1>1, <2>1, Deeper
  <2> QED
    BY <2>2, NodesOf
<1> QED
  BY <1>2, <1>3

\* When no query of a statement has a body that writes, no SELECT, however it is combined
\* or put in parentheses, does: the scan of one query reaches down to the next.
LEMMA BodiesRead ==
  ASSUME NEW s, Shallow(s), \A q \in Nodes(s, "query") : setexpr_is_readonly(q.body)
  PROVE  \A b \in Nodes(s, "body") : part_is_readonly(<<"body", b>>)
<1> DEFINE layers == Layers("visit", Root(s))
           within(q) == Layers("shape", <<"body", q.body>>)
           S == {d \in Nat : \A part \in layers[d] :
                   part[1] = "body" =>
                     \E q \in Nodes(s, "query") : \E k \in 0..d : part \in within(q)[k]}
<1>1. 0 \in S
  <2>1. \A part \in layers[0] : part[1] = "statement"
    BY LayersDef DEF Root
  <2> QED
    BY <2>1
<1>2. ASSUME NEW d \in Nat, d \in S PROVE d + 1 \in S
  <2> SUFFICES ASSUME NEW part \in layers[d + 1], part[1] = "body"
               PROVE  \E q \in Nodes(s, "query") : \E k \in 0..d + 1 : part \in within(q)[k]
    OBVIOUS
  <2>1. PICK parent \in layers[d] : part \in Children("visit", parent)
    BY Deeper
  <2>2. parent = <<parent[1], parent[2]>>
    <3>1. Root(s) = <<Root(s)[1], Root(s)[2]>>
      BY DEF Root
    <3> QED
      BY <3>1, PartsArePairs
  <2>3. part \notin Inside(parent)
    BY DEF Inside, Exprs
  <2>4. part \in Shape(parent)
    BY <2>1, <2>3 DEF Children
  <2>5. \/ parent[1] = "query" /\ part = <<"body", parent[2].body>>
        \/ parent[1] = "body"
    BY <2>4 DEF Shape
  <2>6. CASE parent[1] = "query"
    <3>1. parent[2] \in Nodes(s, "query")
      BY <2>2, <2>6, NodesOf
    <3>2. part \in within(parent[2])[0]
      <4>1. part = <<"body", parent[2].body>>
        BY <2>5, <2>6
      <4> QED
        BY <4>1, LayersDef
    <3> HIDE DEF within
    <3> QED
      BY <3>1, <3>2
  <2>7. CASE parent[1] = "body"
    <3>1. PICK q \in Nodes(s, "query"), k \in 0..d : parent \in within(q)[k]
      BY <1>2, <2>7
    <3>2. part \in Children("shape", parent)
      BY <2>4 DEF Children
    <3>3. k \in Nat /\ k + 1 \in 0..d + 1
      OBVIOUS
    <3>4. part \in within(q)[k + 1]
      BY <3>1, <3>2, <3>3, Deeper
    <3> QED
      BY <3>3, <3>4
  <2> QED
    BY <2>5, <2>6, <2>7
<1>3. Nat \subseteq S
  <2> HIDE DEF S
  <2> QED
    BY <1>1, <1>2, ByDepth
<1>4. ASSUME NEW b \in Nodes(s, "body") PROVE part_is_readonly(<<"body", b>>)
  <2>1. PICK d \in 0..PARSE_RECURSION_LIMIT : <<"body", b>> \in layers[d]
    BY NodesOf
  <2>2. d \in Nat
    BY DepthAssumption
  <2>3. PICK q \in Nodes(s, "query"), k \in 0..d : <<"body", b>> \in within(q)[k]
    BY <1>3, <2>1, <2>2
  <2>4. k \in 0..PARSE_RECURSION_LIMIT
    BY <2>2, DepthAssumption
  <2>5. <<"body", b>> \in Below("shape", <<"body", q.body>>)
    BY <2>3, <2>4 DEF Below
  <2> QED
    BY <2>5 DEF setexpr_is_readonly
<1> QED
  BY <1>4

-----------------------------------------------------------------------------
(* What the validator lets through.                                        *)

\* A text whose statements are a sequence.
Described(t) == t.stmts \in Seq(ToSet(t.stmts))

LEMMA AcceptedIsShallow ==
  ASSUME NEW c, NEW t, validate_readonly(c, t), Described(t)
  PROVE  Shallow(t.stmts[1])
<1>1. Len(t.stmts) = 1 /\ \A s \in ToSet(t.stmts) : Shallow(s)
  BY DEF validate_readonly, Parses
<1>2. 1 \in DOMAIN t.stmts
  BY <1>1 DEF Described
<1>3. t.stmts[1] \in ToSet(t.stmts)
  BY <1>2 DEF ToSet
<1> QED
  BY <1>1, <1>3

\* What the checker says of one text.
ReadsOnly(c, t) ==
  LET s == t.stmts[1] IN
  /\ t.parses /\ ~t.trailing /\ ~t.hidden /\ Len(t.stmts) = 1
  /\ s.kind = "explain" => ~s.analyze /\ ~s.analyze_in_options
  /\ \A q \in Nodes(s, "query") : ~q.locks
  /\ \A b \in Nodes(s, "body") : b.kind # "write" /\ (b.kind = "select" => ~b.into)
  /\ \A f \in FunctionsIn(s, {"call"}) :
       f.schema \notin DENY_SCHEMAS /\ f.name \notin Changing \ c.allowed

\* A function that is not refused is not in a list of those that change something.
LEMMA NotRefused ==
  ASSUME NEW c, NEW f, f.readable, ~qualified_function_rejection(c, f)
  PROVE  f.schema \notin DENY_SCHEMAS /\ f.name \notin Changing \ c.allowed
<1>1. Lower(f.schema) \notin DENY_SCHEMAS /\ ~function_rejection(c, Lower(f.name))
  BY DEF qualified_function_rejection, last_part_name
<1>2. f.schema \notin DENY_SCHEMAS
  BY <1>1, LowerAssumption
<1>3. classify_function(c, Lower(f.name)) = "Allowed"
  BY <1>1 DEF function_rejection
<1>4. ASSUME f.name \in Changing, f.name \notin c.allowed PROVE FALSE
  <2>1. Lower(f.name) = f.name
    BY <1>4, LowerAssumption DEF Changing, SIDE_EFFECT_FUNCS, EXTENSION_WRITE_FUNCS, DENY_FAMILIES,
                                 StatisticResets
  <2>2. /\ f.name \notin SAFE_DESPITE_FAMILY /\ ~operator_allowed(c, f.name)
        /\ f.name \in SIDE_EFFECT_FUNCS \cup EXTENSION_WRITE_FUNCS \cup DENY_FAMILIES \cup StatisticResets
    BY <1>4, <2>1 DEF Changing, SAFE_DESPITE_FAMILY, operator_allowed, SIDE_EFFECT_FUNCS,
                      EXTENSION_WRITE_FUNCS, DENY_FAMILIES, StatisticResets
  <2> QED
    BY <1>3, <2>1, <2>2 DEF classify_function
<1> QED
  BY <1>2, <1>4

LEMMA AcceptedFunctions ==
  ASSUME NEW c, NEW t, validate_readonly(c, t), NEW f \in FunctionsIn(t.stmts[1], {"call"})
  PROVE  /\ f.readable /\ ~qualified_function_rejection(c, f)
         /\ Lower(f.name) \in functions_called(t)
<1> DEFINE s == t.stmts[1]
<1>1. Scanned(c, s) /\ Parses(t)
  BY DEF validate_readonly
<1>2. \/ \E e \in Nodes(s, "expr") : e.kind = "call" /\ e.f = f
      \/ \E g \in Nodes(s, "factor") : g.kind = "call" /\ g.name = f
  BY DEF FunctionsIn
<1>3. CASE \E e \in Nodes(s, "expr") : e.kind = "call" /\ e.f = f
  <2>1. PICK e \in Nodes(s, "expr") : e.kind = "call" /\ e.f = f
    BY <1>3
  <2>2. ~pre_visit_expr(c, RowRefs(s), e)
    BY <1>1 DEF Scanned
  <2>3. e.f.readable /\ ~qualified_function_rejection(c, e.f)
    BY <2>1, <2>2 DEF pre_visit_expr
  <2>4. last_part_name(e.f) \in functions_called(t)
    BY <1>1, <2>1 DEF functions_called
  <2> QED
    BY <2>1, <2>3, <2>4 DEF last_part_name
<1>4. CASE \E g \in Nodes(s, "factor") : g.kind = "call" /\ g.name = f
  <2>1. PICK g \in Nodes(s, "factor") : g.kind = "call" /\ g.name = f
    BY <1>4
  <2>2. ~pre_visit_table_factor(c, g)
    BY <1>1 DEF Scanned
  <2>3. g.name.readable /\ ~qualified_function_rejection(c, g.name)
    BY <2>1, <2>2 DEF pre_visit_table_factor
  <2>4. last_part_name(g.name) \in functions_called(t)
    BY <1>1, <2>1 DEF functions_called
  <2> QED
    BY <2>1, <2>3, <2>4 DEF last_part_name
<1> QED
  BY <1>2, <1>3, <1>4

\* An accepted text is one statement that at any depth neither locks nor writes, nor
\* calls, in an expression or as f(..) in FROM, what acts and was not vouched for. Of the
\* function of LATERAL f(..) nothing is said: the code does not look at it.
THEOREM AcceptedReads ==
  ASSUME NEW c, NEW t, validate_readonly(c, t), Described(t)
  PROVE  ReadsOnly(c, t)
<1> DEFINE s == t.stmts[1]
<1>1. Shallow(s)
  BY AcceptedIsShallow
<1>2. t.parses /\ ~t.trailing /\ ~t.hidden /\ Len(t.stmts) = 1
  BY DEF validate_readonly, Parses, has_trailing_statement, reject_invisible_outside_literals
<1>3. ASSUME s.kind = "explain" PROVE ~s.analyze /\ ~s.analyze_in_options
  <2>1. s \in Nodes(s, "statement")
    BY <1>1, NodesAtTop
  <2>2. structural_readonly(s)
    BY DEF validate_readonly
  <2> QED
    BY <1>3, <2>1, <2>2 DEF structural_readonly
<1>4. ASSUME NEW q \in Nodes(s, "query") PROVE ~q.locks /\ setexpr_is_readonly(q.body)
  <2>1. ~pre_visit_query(c, q)
    BY DEF validate_readonly, Scanned
  <2> QED
    BY <2>1 DEF pre_visit_query
<1>5. ASSUME NEW b \in Nodes(s, "body") PROVE b.kind # "write" /\ (b.kind = "select" => ~b.into)
  <2>1. part_is_readonly(<<"body", b>>)
    BY <1>1, <1>4, BodiesRead
  <2> QED
    BY <2>1 DEF part_is_readonly
<1>6. ASSUME NEW f \in FunctionsIn(s, {"call"})
      PROVE  f.schema \notin DENY_SCHEMAS /\ f.name \notin Changing \ c.allowed
  BY AcceptedFunctions, NotRefused
<1> QED
  BY <1>2, <1>3, <1>4, <1>5, <1>6 DEF ReadsOnly

-----------------------------------------------------------------------------
(* What a statement of the server's has of the caller's.                   *)

\* All the tables, the calls and the bodies of the one are in the other.
Covered(s, u) == \A sort \in {"factor", "expr", "body"} : Nodes(s, sort) \subseteq Nodes(u, sort)

\* Below a statement that is a query is what is below the query.
LEMMA BelowAQuery ==
  ASSUME NEW s, s.kind = "query"
  PROVE  \A d \in Nat : Layers("visit", Root(s))[d + 1] = Layers("visit", <<"query", s.q>>)[d]
<1>1. Children("visit", Root(s)) = {<<"query", s.q>>}
  BY DEF Children, Shape, Inside, Root
<1> QED
  BY <1>1, OnlyChild

\* A table, a call or a body is neither the statement nor its query.
LEMMA TwoDown ==
  ASSUME NEW s, s.kind = "query", Shallow(s), NEW sort \in {"factor", "expr", "body"},
         NEW x \in Nodes(s, sort)
  PROVE  \E d \in Nat : <<sort, x>> \in Layers("visit", <<"query", s.q>>)[d + 1]
<1>1. PICK d \in Nat : <<sort, x>> \in Layers("visit", Root(s))[d]
  BY NodesOf
<1>2. d # 0
  BY <1>1, LayersDef DEF Root
<1>3. d - 1 \in Nat /\ (d - 1) + 1 = d
  BY <1>2
<1>4. <<sort, x>> \in Layers("visit", <<"query", s.q>>)[d - 1]
  BY <1>1, <1>3, BelowAQuery
<1>5. d - 1 # 0
  <2>1. Layers("visit", <<"query", s.q>>)[0] = {<<"query", s.q>>}
    BY LayersDef
  <2>2. <<sort, x>> # <<"query", s.q>>
    OBVIOUS
  <2> QED
    BY <1>4, <2>1, <2>2
<1>6. d - 2 \in Nat /\ (d - 2) + 1 = d - 1
  BY <1>3, <1>5
<1> QED
  BY <1>4, <1>6

\* Another cap leaves everything else where it is.
LEMMA CappedCovers ==
  ASSUME NEW s, NEW u, s.kind = "query", u.kind = "query", Shallow(s), Shallow(u),
         s.q.ctes = u.q.ctes, s.q.body = u.q.body, s.q.order = u.q.order
  PROVE  Covered(s, u)
<1> SUFFICES ASSUME NEW sort \in {"factor", "expr", "body"}, NEW x \in Nodes(s, sort)
             PROVE  x \in Nodes(u, sort)
  BY DEF Covered
<1>1. PICK d \in Nat : <<sort, x>> \in Layers("visit", <<"query", s.q>>)[d + 1]
  BY TwoDown
<1>2. Children("visit", <<"query", s.q>>) = Children("visit", <<"query", u.q>>)
  BY DEF Children, Shape, Inside
<1>3. <<sort, x>> \in Layers("visit", <<"query", u.q>>)[d + 1]
  BY <1>1, <1>2, SameChildren
<1>4. d + 1 \in Nat /\ (d + 1) + 1 \in Nat
  OBVIOUS
<1>5. <<sort, x>> \in Layers("visit", Root(u))[(d + 1) + 1]
  BY <1>3, <1>4, BelowAQuery
<1> QED
  BY <1>4, <1>5, NodesOf

\* SELECT * FROM (query) has the query three layers down.
LEMMA BelowAWrapping ==
  ASSUME NEW s, s.kind = "query", NEW alias, NEW cap
  PROVE  LET u == Wrapped(s, alias, cap) IN
         /\ u.kind = "query"
         /\ \A d \in Nat : Layers("visit", <<"query", u.q>>)[((d + 1) + 1) + 1]
                             = Layers("visit", <<"query", s.q>>)[d]
<1> DEFINE u == Wrapped(s, alias, cap)
           derived == [kind |-> "derived", q |-> s.q, alias |-> {alias}, renames |-> FALSE,
                       join |-> NoJoin]
           body == [kind |-> "select", into |-> FALSE, grouped |-> FALSE,
                    items |-> <<[kind |-> "star"]>>, where |-> <<>>, from |-> <<derived>>]
<1>1. u.kind = "query" /\ u.q.ctes = <<>> /\ u.q.body = body /\ u.q.order = <<>>
  BY DEF Wrapped
<1>2. Children("visit", <<"query", u.q>>) = {<<"body", body>>}
  <2>1. {<<"query", x.q>> : x \in ToSet(u.q.ctes)} = {}
    BY <1>1 DEF ToSet
  <2> HIDE DEF body, u
  <2>2. Shape(<<"query", u.q>>) = {<<"body", body>>}
    BY <1>1, <2>1 DEF Shape
  <2>3. Inside(<<"query", u.q>>) = {}
    <3>1. Exprs(<<>>) = {}
      BY DEF Exprs, ToSet
    <3> QED
      BY <1>1, <3>1 DEF Inside
  <2> QED
    BY <2>2, <2>3 DEF Children
<1>3. Children("visit", <<"body", body>>) = {<<"factor", derived>>}
  <2>1. {x \in ToSet(body.items) : x.kind # "star"} = {} /\ Exprs(body.where) = {}
    BY DEF ToSet, Exprs
  <2> HIDE DEF derived
  <2>2. ToSet(body.from) = {derived} /\ body.kind = "select"
    <3>1. ToSet(<<derived>>) = {derived}
      BY DEF ToSet
    <3> QED
      BY <3>1
  <2> HIDE DEF body
  <2>3. Inside(<<"body", body>>) = {<<"factor", derived>>}
    BY <2>1, <2>2 DEF Inside
  <2>4. Shape(<<"body", body>>) = {}
    BY <2>2 DEF Shape
  <2> QED
    BY <2>3, <2>4 DEF Children
<1>4. Children("visit", <<"factor", derived>>) = {<<"query", s.q>>}
  BY DEF Children, Shape, Inside
<1> HIDE DEF u, body, derived
<1>5. ASSUME NEW d \in Nat
      PROVE  Layers("visit", <<"query", u.q>>)[((d + 1) + 1) + 1] = Layers("visit", <<"query", s.q>>)[d]
  <2>1. Layers("visit", <<"query", u.q>>)[((d + 1) + 1) + 1] = Layers("visit", <<"body", body>>)[(d + 1) + 1]
    BY <1>2, OnlyChild
  <2>2. Layers("visit", <<"body", body>>)[(d + 1) + 1] = Layers("visit", <<"factor", derived>>)[d + 1]
    BY <1>3, OnlyChild
  <2>3. Layers("visit", <<"factor", derived>>)[d + 1] = Layers("visit", <<"query", s.q>>)[d]
    BY <1>4, OnlyChild
  <2> QED
    BY <2>1, <2>2, <2>3
<1> QED
  BY <1>1, <1>5 DEF u

LEMMA WrappedCovers ==
  ASSUME NEW s, s.kind = "query", NEW alias, NEW cap, Shallow(s), Shallow(Wrapped(s, alias, cap))
  PROVE  Covered(s, Wrapped(s, alias, cap))
<1> DEFINE u == Wrapped(s, alias, cap)
<1> SUFFICES ASSUME NEW sort \in {"factor", "expr", "body"}, NEW x \in Nodes(s, sort)
             PROVE  x \in Nodes(u, sort)
  BY DEF Covered
<1>1. u.kind = "query"
  BY BelowAWrapping
<1>2. PICK d \in Nat : <<sort, x>> \in Layers("visit", <<"query", s.q>>)[d + 1]
  BY TwoDown
<1> DEFINE e == d + 1
           g == ((e + 1) + 1) + 1
<1>3. e \in Nat /\ g \in Nat /\ g + 1 \in Nat
  OBVIOUS
<1>4. Layers("visit", <<"query", u.q>>)[g] = Layers("visit", <<"query", s.q>>)[e]
  BY <1>3, BelowAWrapping
<1> HIDE DEF u, g, e
<1>5. Layers("visit", Root(u))[g + 1] = Layers("visit", <<"query", u.q>>)[g]
  BY <1>1, <1>3, BelowAQuery
<1>6. <<sort, x>> \in Layers("visit", Root(u))[g + 1]
  BY <1>2, <1>4, <1>5 DEF e
<1> QED
  BY <1>3, <1>6, NodesOf DEF u

\* EXPLAIN is its statement, one layer down.
LEMMA ExplainedCovers ==
  ASSUME NEW s, s.kind = "explain", Shallow(s)
  PROVE  /\ Shallow(s.of)
         /\ \A sort \in {"factor", "expr", "body", "query"} : Nodes(s.of, sort) = Nodes(s, sort)
<1>1. Children("visit", Root(s)) = {Root(s.of)}
  BY DEF Children, Shape, Inside, Root
<1>2. \A d \in Nat : Layers("visit", Root(s))[d + 1] = Layers("visit", Root(s.of))[d]
  BY <1>1, OnlyChild
<1>3. Layers("visit", Root(s))[PARSE_RECURSION_LIMIT] = {}
  BY DEF Shallow, Root
<1>4. Layers("visit", Root(s))[PARSE_RECURSION_LIMIT + 1] = {}
  BY <1>3, StaysEmpty, DepthAssumption
<1>5. Shallow(s.of)
  BY <1>2, <1>4, DepthAssumption DEF Shallow, Root
<1>6. ASSUME NEW sort \in {"factor", "expr", "body", "query"}, NEW x
      PROVE  x \in Nodes(s.of, sort) <=> x \in Nodes(s, sort)
  <2>1. ASSUME x \in Nodes(s.of, sort) PROVE x \in Nodes(s, sort)
    <3>1. PICK d \in Nat : <<sort, x>> \in Layers("visit", Root(s.of))[d]
      BY <1>5, <2>1, NodesOf
    <3>2. d + 1 \in Nat /\ <<sort, x>> \in Layers("visit", Root(s))[d + 1]
      BY <1>2, <3>1
    <3> QED
      BY <3>2, NodesOf
  <2>2. ASSUME x \in Nodes(s, sort) PROVE x \in Nodes(s.of, sort)
    <3>1. PICK d \in Nat : <<sort, x>> \in Layers("visit", Root(s))[d]
      BY <2>2, NodesOf
    <3>2. d # 0
      BY <3>1, LayersDef DEF Root
    <3>3. d - 1 \in Nat /\ (d - 1) + 1 = d
      BY <3>2
    <3>4. <<sort, x>> \in Layers("visit", Root(s.of))[d - 1]
      BY <1>2, <3>1, <3>3
    <3> QED
      BY <1>5, <3>3, <3>4, NodesOf
  <2> QED
    BY <2>1, <2>2
<1>7. ASSUME NEW sort \in {"factor", "expr", "body", "query"}
      PROVE  Nodes(s.of, sort) = Nodes(s, sort)
  BY <1>6, <1>7
<1> QED
  BY <1>5, <1>7

\* SHOW has nothing inside.
LEMMA ShowIsBare ==
  ASSUME NEW s, s.kind = "show", Shallow(s), NEW sort \in {"factor", "expr", "body"}
  PROVE  Nodes(s, sort) = {}
<1> SUFFICES ASSUME NEW x \in Nodes(s, sort) PROVE FALSE
  OBVIOUS
<1>1. PICK d \in Nat : <<sort, x>> \in Layers("visit", Root(s))[d]
  BY NodesOf
<1>2. Layers("visit", Root(s))[0] = {Root(s)}
  BY LayersDef
<1>3. d # 0
  BY <1>1, <1>2 DEF Root
<1>4. Layers("visit", Root(s))[0 + 1] = {}
  <2>1. Children("visit", Root(s)) = {}
    BY DEF Children, Shape, Inside, Root
  <2>2. ASSUME NEW part \in Layers("visit", Root(s))[0 + 1] PROVE FALSE
    <3>1. \E parent \in Layers("visit", Root(s))[0] : part \in Children("visit", parent)
      BY Deeper
    <3> QED
      BY <1>2, <2>1, <3>1
  <2> QED
    BY <2>2
<1>5. d - 1 \in Nat /\ d = 1 + (d - 1)
  BY <1>3
<1>6. Layers("visit", Root(s))[1 + (d - 1)] = {}
  <2>1. Layers("visit", Root(s))[1] = {}
    BY <1>4
  <2> QED
    BY <1>5, <2>1, StaysEmpty
<1> QED
  BY <1>1, <1>5, <1>6

\* What is in a covered statement is read and called by what covers it.
LEMMA CoveredNames ==
  ASSUME NEW s, NEW u, Covered(s, u)
  PROVE  RelationsIn(s) \subseteq RelationsIn(u) /\ FunctionsIn(s, {"call"}) \subseteq FunctionsIn(u, {"call"})
<1>1. /\ Nodes(s, "factor") \subseteq Nodes(u, "factor")
      /\ Nodes(s, "expr") \subseteq Nodes(u, "expr")
      /\ Nodes(s, "body") \subseteq Nodes(u, "body")
  BY DEF Covered
<1> QED
  BY <1>1 DEF RelationsIn, FunctionsIn

LEMMA CoveredNamed ==
  ASSUME NEW t, NEW u, Covered(t.stmts[1], u.stmts[1]), Parses(u)
  PROVE  relations_named(t) \subseteq relations_named(u)
<1>1. Nodes(t.stmts[1], "factor") \subseteq Nodes(u.stmts[1], "factor")
  BY DEF Covered
<1> QED
  BY <1>1 DEF relations_named

-----------------------------------------------------------------------------
(* The texts the server writes.                                            *)

\* A text as the parser describes it: what is assumed of those of the callers.
IsText(t) ==
  /\ DOMAIN t = {"trailing", "long", "parses", "hidden", "comment", "folds", "again", "stmts"}
  /\ t.stmts \in Seq(ToSet(t.stmts))
  /\ \A s \in ToSet(t.stmts) :
       s.kind = "query" => /\ DOMAIN s = {"kind", "q"}
                           /\ DOMAIN s.q = {"locks", "ctes", "body", "order", "cap"}
                           /\ s.q.cap \in Caps

LEMMA CallersText ==
  ASSUME NEW c \in Calls
  PROVE  IsText(c.text) /\ Described(c.text)
BY CallsAssumption DEF IsText, Described

\* Its one statement, when it is accepted.
LEMMA TheStatement ==
  ASSUME NEW c, NEW t, IsText(t), validate_readonly(c, t)
  PROVE  LET s == t.stmts[1] IN
         /\ s \in ToSet(t.stmts)
         /\ s.kind = "query" => /\ DOMAIN s = {"kind", "q"}
                                /\ DOMAIN s.q = {"locks", "ctes", "body", "order", "cap"}
                                /\ s.q.cap \in Caps
<1>1. Len(t.stmts) = 1 /\ t.stmts \in Seq(ToSet(t.stmts))
  BY DEF validate_readonly, IsText
<1>2. 1 \in DOMAIN t.stmts
  BY <1>1
<1>3. t.stmts[1] \in ToSet(t.stmts)
  BY <1>2 DEF ToSet
<1> QED
  BY <1>3 DEF IsText

LEMMA RenderedText ==
  ASSUME NEW t, IsText(t), NEW form, NEW s
  PROVE  LET r == Rendered(t, form, s) IN
         /\ r.stmts = <<s>> /\ r.stmts[1] = s /\ Described(r)
         /\ ~r.comment /\ r.folds = t.folds /\ DOMAIN r = DOMAIN t
<1> DEFINE r == Rendered(t, form, s)
<1>1. r.stmts = <<s>> /\ ~r.comment /\ r.folds = t.folds /\ DOMAIN r = DOMAIN t
  BY DEF Rendered, IsText
<1>2. <<s>> \in Seq(ToSet(<<s>>))
  <2>1. s \in ToSet(<<s>>)
    BY DEF ToSet
  <2> HIDE DEF r
  <2> QED
    BY <2>1
<1> QED
  BY <1>1, <1>2 DEF Described

\* The statement of a rewritten text: the caller's, the caller's with another cap, or a
\* SELECT around it.
Rewriting(s, u, m, offset) ==
  \/ offset = 0 /\ u = s
  \/ offset = 0 /\ s.kind = "query" /\ u = [s EXCEPT !.q = cap_rows(@, m)]
  \/ /\ s.kind = "query"
     /\ \E alias \in {"_mcp_cap", "_mcp_page"} : u = Wrapped(s, alias, LimitOf(m, offset))

\* Every way out of the row cap passes the validator again.
THEOREM Rewritten ==
  ASSUME NEW c, NEW t, IsText(t), NEW m, NEW offset, NEW f \in enforce_limit_offset(c, t, m, offset)
  PROVE  /\ validate_readonly(c, f) /\ Described(f)
         /\ ~f.comment /\ f.folds = t.folds /\ DOMAIN f = DOMAIN t
         /\ Rewriting(t.stmts[1], f.stmts[1], m, offset)
<1> DEFINE s == t.stmts[1]
<1>1. validate_readonly(c, f) /\ \E form, u : f = Rendered(t, form, u) /\ Rewriting(s, u, m, offset)
  <2>1. CASE offset = 0
    <3>1. f \in enforce_limit_inner(c, t, m)
      BY <2>1 DEF enforce_limit_offset
    <3> DEFINE wraps == s.kind = "query" /\ NeedsWrap(s.q)
               capped == IF s.kind = "query" THEN [s EXCEPT !.q = cap_rows(@, m)] ELSE s
               rendered == IF wraps THEN Rendered(t, "wrapped", Wrapped(s, "_mcp_cap", LimitOf(m, 0)))
                           ELSE Rendered(t, IF capped = s THEN "plain" ELSE "edited", capped)
               plain == Rendered(t, "plain", s)
    <3>2. validate_readonly(c, f) /\ (f = rendered \/ f = plain)
      <4> HIDE DEF rendered, plain
      <4>1. enforce_limit_inner(c, t, m)
              = IF validate_readonly(c, rendered) THEN {rendered} ELSE Gate(c, plain)
        BY DEF enforce_limit_inner, rendered, plain
      <4> QED
        BY <3>1, <4>1 DEF Gate
    <3>3. Rewriting(s, s, m, offset)
      BY <2>1 DEF Rewriting
    <3>4. wraps => Rewriting(s, Wrapped(s, "_mcp_cap", LimitOf(m, 0)), m, offset)
      BY <2>1 DEF Rewriting
    <3>5. Rewriting(s, capped, m, offset)
      BY <2>1 DEF Rewriting
    <3>6. \E form, u : rendered = Rendered(t, form, u) /\ Rewriting(s, u, m, offset)
      <4> HIDE DEF capped, wraps
      <4> QED
        BY <3>4, <3>5
    <3> HIDE DEF rendered
    <3> QED
      BY <3>2, <3>3, <3>6
  <2>2. CASE offset # 0
    <3> DEFINE u == Wrapped(s, "_mcp_page", LimitOf(m, offset))
    <3>1. s.kind = "query" /\ f \in Gate(c, Rendered(t, "wrapped", u))
      BY <2>2 DEF enforce_limit_offset
    <3>2. validate_readonly(c, f) /\ f = Rendered(t, "wrapped", u)
      BY <3>1 DEF Gate
    <3>3. Rewriting(s, u, m, offset)
      BY <3>1 DEF Rewriting
    <3> HIDE DEF u
    <3> QED
      BY <3>2, <3>3
  <2> QED
    BY <2>1, <2>2
<1>2. PICK form, u : f = Rendered(t, form, u) /\ Rewriting(s, u, m, offset)
  BY <1>1
<1>3. f.stmts[1] = u /\ Described(f) /\ ~f.comment /\ f.folds = t.folds /\ DOMAIN f = DOMAIN t
  BY <1>2, RenderedText
<1> QED
  BY <1>1, <1>2, <1>3

\* The cap is all that is edited in a query.
LEMMA CapEdited ==
  ASSUME NEW q, DOMAIN q = {"locks", "ctes", "body", "order", "cap"}, q.cap \in Caps, NEW m
  PROVE  LET r == cap_rows(q, m) IN
         /\ r.ctes = q.ctes /\ r.body = q.body /\ r.order = q.order
         /\ \/ r.cap = q.cap
            \/ /\ q.cap.form \in {"limit", "fetch"} /\ r.cap.form = q.cap.form
               /\ r.cap.skip = q.cap.skip /\ r.cap.ties = q.cap.ties
               /\ r.cap.n = AtMost(q.cap.n, m)
            \/ q.cap.form = "none" /\ r.cap = LimitOf(m, 0)
<1>1. DOMAIN q.cap = {"form", "n", "skip", "ties"}
  BY DEF Caps
<1>2. CASE q.cap.form \in {"limit", "fetch"}
  <2>1. cap_rows(q, m) = [q EXCEPT !.cap.n = AtMost(@, m)]
    BY <1>2 DEF cap_rows
  <2> QED
    BY <1>1, <1>2, <2>1
<1>3. CASE q.cap.form = "none" /\ ~is_count_or_exists(q)
  <2>1. cap_rows(q, m) = [q EXCEPT !.cap = LimitOf(m, 0)]
    BY <1>3 DEF cap_rows
  <2> QED
    BY <1>3, <2>1
<1>4. CASE q.cap.form \notin {"limit", "fetch"} /\ ~(q.cap.form = "none" /\ ~is_count_or_exists(q))
  <2>1. cap_rows(q, m) = q
    BY <1>4 DEF cap_rows
  <2> QED
    BY <2>1
<1> QED
  BY <1>2, <1>3, <1>4

\* What the server sends in place of the caller's statement has all of it.
LEMMA RewritingCovers ==
  ASSUME NEW s, NEW u, NEW m, NEW offset, Rewriting(s, u, m, offset), Shallow(s), Shallow(u),
         s.kind = "query" => DOMAIN s = {"kind", "q"} /\ DOMAIN s.q = {"locks", "ctes", "body", "order", "cap"}
                             /\ s.q.cap \in Caps
  PROVE  Covered(s, u) /\ u.kind = s.kind
<1>1. CASE u = s
  BY <1>1 DEF Covered
<1>2. CASE s.kind = "query" /\ u = [s EXCEPT !.q = cap_rows(@, m)]
  <2>1. u.kind = "query" /\ u.q = cap_rows(s.q, m)
    BY <1>2
  <2>2. u.q.ctes = s.q.ctes /\ u.q.body = s.q.body /\ u.q.order = s.q.order
    BY <1>2, <2>1, CapEdited
  <2> QED
    BY <1>2, <2>1, <2>2, CappedCovers
<1>3. CASE s.kind = "query" /\ \E alias \in {"_mcp_cap", "_mcp_page"} : u = Wrapped(s, alias, LimitOf(m, offset))
  <2>1. PICK alias \in {"_mcp_cap", "_mcp_page"} : u = Wrapped(s, alias, LimitOf(m, offset))
    BY <1>3
  <2> QED
    BY <1>3, <2>1, BelowAWrapping, WrappedCovers
<1> QED
  BY <1>1, <1>2, <1>3 DEF Rewriting

-----------------------------------------------------------------------------
(* Rows.                                                                   *)

\* From the offset on.
RowsLeft(rows, offset) == IF rows > offset THEN rows - offset ELSE 0

LEMMA AtMostIsNat ==
  ASSUME NEW n \in Nat, NEW m \in Nat
  PROVE  AtMost(n, m) \in Nat /\ AtMost(n, m) <= m
BY DEF AtMost

\* How many rows a cap lets through when its number is k.
Most(cap, k) == IF cap.ties /\ k > 0 THEN Tied(cap.skip + k) - cap.skip ELSE k

LEMMA KeptDef ==
  ASSUME NEW cap, NEW rows, NEW left, left = IF cap.skip >= rows THEN 0 ELSE rows - cap.skip
  PROVE  Kept(cap, rows) = IF cap.form \in {"none", "all"} THEN left
                           ELSE AtMost(left, Most(cap, cap.n))
BY DEF Kept, Most

\* With ties as many as the number or more, and no more than a greater number lets through.
LEMMA MostIsNat ==
  ASSUME NEW c \in Calls, NEW s \in ToSet(c.text.stmts), s.kind = "query", s.q.cap \in Caps,
         NEW k \in 0..s.q.cap.n
  PROVE  /\ Most(s.q.cap, k) \in Nat /\ k <= Most(s.q.cap, k)
         /\ Most(s.q.cap, k) <= Most(s.q.cap, s.q.cap.n)
<1> DEFINE cap == s.q.cap
<1>1. cap.skip \in Nat /\ cap.n \in Nat /\ cap.ties \in BOOLEAN
  BY DEF Caps
<1>2. CASE ~cap.ties
  BY <1>1, <1>2 DEF Most
<1>3. CASE cap.ties
  <2>1. \A j \in 0..cap.n :
           /\ Tied(cap.skip + j) \in Nat
           /\ cap.skip + j <= Tied(cap.skip + j) /\ Tied(cap.skip + j) <= Tied(cap.skip + cap.n)
    BY <1>3, TiesAssumption
  <2> HIDE DEF cap
  <2>2. /\ Tied(cap.skip + k) \in Nat /\ cap.skip + k <= Tied(cap.skip + k)
        /\ Tied(cap.skip + k) <= Tied(cap.skip + cap.n)
    BY <2>1 DEF cap
  <2>3. Tied(cap.skip + cap.n) \in Nat /\ cap.skip + cap.n <= Tied(cap.skip + cap.n)
    BY <1>1, <2>1
  <2>4. k \in Nat /\ k <= cap.n
    BY <1>1 DEF cap
  <2>5. /\ Most(cap, k) \in Nat /\ k <= Most(cap, k)
        /\ Most(cap, k) <= Most(cap, cap.n)
    BY <1>1, <1>3, <2>2, <2>3, <2>4 DEF Most
  <2> QED
    BY <2>5 DEF cap
<1> QED
  BY <1>1, <1>2, <1>3

LEMMA RowsAreNat ==
  ASSUME NEW c \in Calls, NEW s \in ToSet(c.text.stmts), s.kind = "query", s.q.cap \in Caps,
         NEW n, RowsOfBody(s.q.body, n) \in Nat
  PROVE  RowsOf(s.q, n) \in Nat
<1> DEFINE rows == RowsOfBody(s.q.body, n)
           left == IF s.q.cap.skip >= rows THEN 0 ELSE rows - s.q.cap.skip
<1>1. s.q.cap.skip \in Nat /\ s.q.cap.n \in Nat
  BY DEF Caps
<1>2. left \in Nat
  BY <1>1
<1>3. Most(s.q.cap, s.q.cap.n) \in Nat
  BY <1>1, MostIsNat
<1>4. RowsOf(s.q, n) = IF s.q.cap.form \in {"none", "all"} THEN left
                       ELSE AtMost(left, Most(s.q.cap, s.q.cap.n))
  BY KeptDef DEF RowsOf
<1> HIDE DEF left
<1> QED
  BY <1>2, <1>3, <1>4, AtMostIsNat

\* A smaller number lets through no more, and with m of them at least m.
LEMMA NestedCaps ==
  ASSUME NEW x \in Nat, NEW most \in Nat, NEW fewer \in Nat, NEW n \in Nat, NEW m \in Nat,
         fewer <= most, AtMost(n, m) <= fewer, n <= m => fewer = most
  PROVE  /\ AtMost(AtMost(x, most), m) <= AtMost(x, fewer)
         /\ AtMost(x, fewer) <= AtMost(x, most)
BY DEF AtMost

\* A rewritten query has no more than what the caller's own has from the offset on, and at
\* least the first m rows of it: WITH TIES it may have more than m.
THEOREM RowsOfRewriting ==
  ASSUME NEW c \in Calls, NEW s \in ToSet(c.text.stmts), s.kind = "query",
         NEW m \in Nat, NEW offset \in Nat, NEW u, Rewriting(s, u, m, offset),
         NEW n \in 0..MaxRows
  PROVE  LET left == RowsLeft(RowsOf(s.q, n), offset) IN
         /\ RowsOf(s.q, n) \in Nat /\ RowsOf(u.q, n) \in Nat
         /\ AtMost(left, m) <= RowsOf(u.q, n) /\ RowsOf(u.q, n) <= left
<1> DEFINE body == RowsOfBody(s.q.body, n)
           all == RowsOf(s.q, n)
           Fits(rows) == /\ rows \in Nat /\ AtMost(RowsLeft(all, offset), m) <= rows
                         /\ rows <= RowsLeft(all, offset)
<1>1. /\ DOMAIN s = {"kind", "q"} /\ DOMAIN s.q = {"locks", "ctes", "body", "order", "cap"}
      /\ s.q.cap \in Caps
  BY CallsAssumption
<1>2. body \in Nat
  BY RowsAssumption
<1>3. all \in Nat
  BY <1>1, <1>2, RowsAreNat
<1> SUFFICES Fits(RowsOf(u.q, n))
  BY <1>3
<1>4. RowsLeft(all, offset) \in Nat /\ (offset = 0 => RowsLeft(all, offset) = all)
  <2> HIDE DEF all
  <2> QED
    BY <1>3 DEF RowsLeft
<1>5. ASSUME NEW rows, rows = RowsLeft(all, offset) \/ rows = AtMost(RowsLeft(all, offset), m)
      PROVE  Fits(rows)
  <2> HIDE DEF all
  <2> QED
    BY <1>4, <1>5 DEF AtMost
<1>6. CASE offset = 0 /\ u = s
  BY <1>4, <1>5, <1>6
<1>7. CASE offset = 0 /\ u = [s EXCEPT !.q = cap_rows(@, m)]
  <2> DEFINE r == cap_rows(s.q, m)
             cap == s.q.cap
             left == IF cap.skip >= body THEN 0 ELSE body - cap.skip
  <2>1. u.q = r
    BY <1>1, <1>7
  <2>2. r.body = s.q.body
    BY <1>1, CapEdited
  <2>3. cap.skip \in Nat /\ cap.n \in Nat /\ (cap.form = "none" => cap.skip = 0)
    BY <1>1 DEF Caps
  <2>4. left \in Nat /\ (cap.skip = 0 => left = body)
    BY <1>2, <2>3
  <2>5. all = IF cap.form \in {"none", "all"} THEN left ELSE AtMost(left, Most(cap, cap.n))
    BY KeptDef DEF RowsOf
  <2>6. r.cap.skip = cap.skip => RowsOf(r, n) = IF r.cap.form \in {"none", "all"} THEN left
                                                ELSE AtMost(left, Most(r.cap, r.cap.n))
    <3> SUFFICES ASSUME r.cap.skip = cap.skip
                 PROVE  Kept(r.cap, body) = IF r.cap.form \in {"none", "all"} THEN left
                                            ELSE AtMost(left, Most(r.cap, r.cap.n))
      BY <2>2 DEF RowsOf
    <3> HIDE DEF r, body
    <3> QED
      BY KeptDef
  <2> HIDE DEF r
  <2>7. CASE r.cap = cap
    <3>1. RowsOf(r, n) = all
      BY <2>2, <2>7 DEF RowsOf
    <3> QED
      BY <1>4, <1>5, <1>7, <2>1, <3>1
  <2>8. CASE /\ cap.form \in {"limit", "fetch"} /\ r.cap.form = cap.form
             /\ r.cap.skip = cap.skip /\ r.cap.ties = cap.ties /\ r.cap.n = AtMost(cap.n, m)
    <3> DEFINE k == AtMost(cap.n, m)
    <3>1. k \in 0..cap.n /\ (cap.n <= m => k = cap.n)
      <4> HIDE DEF cap
      <4> QED
        BY <2>3 DEF AtMost
    <3>2. /\ Most(cap, k) \in Nat /\ k <= Most(cap, k) /\ Most(cap, k) <= Most(cap, cap.n)
          /\ Most(cap, cap.n) \in Nat
      BY <1>1, <2>3, <3>1, MostIsNat
    <3>3. Most(r.cap, r.cap.n) = Most(cap, k)
      BY <2>8 DEF Most
    <3>4. RowsOf(r, n) = AtMost(left, Most(cap, k)) /\ all = AtMost(left, Most(cap, cap.n))
      BY <2>5, <2>6, <2>8, <3>3
    <3> HIDE DEF left, all, cap, body
    <3>5. AtMost(all, m) <= RowsOf(r, n) /\ RowsOf(r, n) <= all
      BY <2>3, <2>4, <3>1, <3>2, <3>4, NestedCaps
    <3>6. RowsOf(r, n) \in Nat
      BY <2>4, <3>2, <3>4, AtMostIsNat
    <3>7. RowsLeft(all, offset) = all
      BY <1>4, <1>7
    <3> QED
      BY <2>1, <3>5, <3>6, <3>7
  <2>9. CASE cap.form = "none" /\ r.cap = LimitOf(m, 0)
    <3>1. all = body /\ left = body
      <4> HIDE DEF left, all, body, cap
      <4> QED
        BY <2>3, <2>4, <2>5, <2>9
    <3>2. r.cap.form = "limit" /\ r.cap.skip = 0 /\ Most(r.cap, r.cap.n) = m
      BY <2>9 DEF LimitOf, Most
    <3>3. cap.skip = 0
      BY <2>3, <2>9
    <3> HIDE DEF left, all, body, cap
    <3>4. RowsOf(r, n) = AtMost(all, m)
      BY <2>6, <3>1, <3>2, <3>3
    <3>5. RowsOf(r, n) = AtMost(RowsLeft(all, offset), m)
      BY <1>4, <1>7, <3>4
    <3>6. Fits(RowsOf(r, n))
      BY <1>5, <3>5
    <3> QED
      BY <2>1, <3>6
  <2>10. \/ r.cap = cap
         \/ /\ cap.form \in {"limit", "fetch"} /\ r.cap.form = cap.form
            /\ r.cap.skip = cap.skip /\ r.cap.ties = cap.ties /\ r.cap.n = AtMost(cap.n, m)
         \/ cap.form = "none" /\ r.cap = LimitOf(m, 0)
    BY <1>1, CapEdited DEF r
  <2> HIDE DEF left, all, body, cap
  <2> QED
    BY <2>7, <2>8, <2>9, <2>10
<1>8. CASE \E alias \in {"_mcp_cap", "_mcp_page"} : u = Wrapped(s, alias, LimitOf(m, offset))
  <2>1. PICK alias \in {"_mcp_cap", "_mcp_page"} : u = Wrapped(s, alias, LimitOf(m, offset))
    BY <1>8
  <2>2. RowsOfBody(Wrapped(s, alias, NoCap).q.body, n) = all
    BY RowsAssumption
  <2>3. u.q.body = Wrapped(s, alias, NoCap).q.body /\ u.q.cap = LimitOf(m, offset)
    BY <2>1 DEF Wrapped
  <2>4. u.q.cap.form = "limit" /\ u.q.cap.skip = offset /\ Most(u.q.cap, u.q.cap.n) = m
    BY <2>3 DEF LimitOf, Most
  <2> HIDE DEF all
  <2>5. RowsOfBody(u.q.body, n) = all
    BY <2>2, <2>3
  <2>6. RowsLeft(all, offset) = IF offset >= all THEN 0 ELSE all - offset
    BY <1>3 DEF RowsLeft
  <2>7. RowsOf(u.q, n) = AtMost(RowsLeft(all, offset), m)
    BY <2>4, <2>5, <2>6, KeptDef DEF RowsOf
  <2> QED
    BY <1>5, <2>7
<1> QED
  BY <1>6, <1>7, <1>8 DEF Rewriting

\* One row more than is returned tells a cut.
LEMMA SpareRow ==
  ASSUME NEW x \in Nat, NEW limit \in Nat, NEW rows \in Nat, AtMost(x, limit + 1) <= rows, rows <= x
  PROVE  AtMost(rows, limit) = AtMost(x, limit) /\ (rows > limit <=> x > limit)
BY DEF AtMost

-----------------------------------------------------------------------------
(* The invariants.                                                         *)

Working == {"accepted", "guard", "functions", "verdict", "run"}
Past == Working \ {"accepted"}

\* What the call is and where it stands.
TypeOK ==
  /\ cfg \in Configs /\ call \in Calls
  /\ stage \in Working \cup {"received", "describe", "schema", "catalog", "answered"}

\* The text is worked with after it was accepted, and sent when there is a way to cap it.
Proceeding ==
  /\ stage = "received" => final = {}
  /\ stage \in Working =>
    /\ call.tool \in Queries /\ "sql" \in call.given /\ validate_readonly(cfg, call.text)
    /\ final = final_sql
    /\ stage \in Past => final # {} /\ IndexComplete
    /\ stage \in {"guard", "functions", "verdict"} => guarded # {}

\* What cost_guard has found by the time it goes on.
Judged ==
  stage \in {"functions", "verdict"} \/ (stage = "run" /\ guarded # {}) =>
    /\ plan \in Plans(Guarded)
    /\ stage = "functions" => active(cfg)
    /\ active(cfg) => NamedOutside(Guarded) = {}
    /\ active(cfg) /\ stage # "functions" => ~FunctionsOutside(Guarded)
    /\ active(cfg) /\ stage = "run" => Outside(Parents) = {}

\* Nothing is about to run that has no price.
Priced == stage = "run" /\ How = "run" /\ Final.stmts[1].kind = "query" => Final \in priced

\* What was asked, answered and recorded before the end.
Quiet ==
  /\ stage \in {"received", "accepted", "describe", "schema", "catalog"} => asked = {}
  /\ stage # "answered" =>
       /\ \A a \in asked : a.how = "plan"
       /\ answer = NoAnswer
       /\ records = IF call.tool = "resources/read" /\ stage # "received" THEN <<"allowed">> ELSE <<>>

\* The catalogue is asked by the tools that name a relation, and of none that is hidden.
Visible ==
  /\ stage = "describe" => call.tool = "resources/read"
  /\ stage \in {"describe", "schema", "catalog"} =>
       (call.tool \in {"describe_table", "resources/read"} => "table" \in call.given)
  /\ stage \in {"schema", "catalog"} =>
       call.tool \in Named /\ (call.tool \in {"describe_table", "resources/read"} => ~Hidden)

CallInv == TypeOK /\ Proceeding /\ Judged /\ Priced /\ Quiet /\ Visible

-----------------------------------------------------------------------------
(* The texts of a call.                                                    *)

\* The text to send: the caller's, or one the validator was asked about again.
LEMMA FinalText ==
  ASSUME TypeOK, Proceeding, stage \in Past
  PROVE  /\ validate_readonly(cfg, Final) /\ Described(Final)
         /\ DOMAIN Final = DOMAIN call.text /\ Final.folds = call.text.folds
         /\ Covered(call.text.stmts[1], Final.stmts[1])
         /\ Final.stmts[1].kind = call.text.stmts[1].kind
         /\ call.tool = "query" =>
              Rewriting(call.text.stmts[1], Final.stmts[1], Limit + 1, call.offset)
         /\ call.tool # "simulate_index" => ~Final.comment
         /\ call.tool = "simulate_index" => Final = call.text
<1> DEFINE t == call.text
           s == t.stmts[1]
           u == Final.stmts[1]
<1>1. /\ call.tool \in Queries /\ validate_readonly(cfg, t)
      /\ final = final_sql /\ final # {}
  BY DEF Proceeding, Past
<1>2. Final \in final_sql
  BY <1>1 DEF Final
<1>3. IsText(t) /\ Described(t)
  BY CallersText DEF TypeOK
<1>4. Shallow(s)
  BY <1>1, <1>3, AcceptedIsShallow
<1>5. s.kind = "query" => DOMAIN s = {"kind", "q"} /\ DOMAIN s.q = {"locks", "ctes", "body", "order", "cap"}
                          /\ s.q.cap \in Caps
  BY <1>1, <1>3, TheStatement
<1>6. CASE call.tool = "simulate_index"
  <2>1. Final = t
    BY <1>2, <1>6 DEF final_sql
  <2> QED
    BY <1>1, <1>3, <1>6, <2>1 DEF Covered
<1>7. CASE call.tool # "simulate_index"
  <2>1. \/ call.tool = "query" /\ Final \in enforce_limit_offset(cfg, t, Limit + 1, call.offset)
        \/ call.tool = "explain_query" /\ Final \in enforce_limit_offset(cfg, t, MAX_LIMIT, 0)
    BY <1>1, <1>2, <1>7 DEF final_sql, Queries
  <2>2. PICK m, offset : /\ Final \in enforce_limit_offset(cfg, t, m, offset)
                         /\ call.tool = "query" => m = Limit + 1 /\ offset = call.offset
    BY <2>1
  <2>3. /\ validate_readonly(cfg, Final) /\ Described(Final)
        /\ ~Final.comment /\ Final.folds = t.folds /\ DOMAIN Final = DOMAIN t
        /\ Rewriting(s, u, m, offset)
    BY <1>3, <2>2, Rewritten
  <2>4. Shallow(u)
    BY <2>3, AcceptedIsShallow
  <2>5. Covered(s, u) /\ u.kind = s.kind
    BY <1>4, <1>5, <2>3, <2>4, RewritingCovers
  <2>6. call.tool = "query" => Rewriting(s, u, Limit + 1, call.offset)
    BY <2>2, <2>3
  <2> QED
    BY <1>7, <2>3, <2>5, <2>6
<1> QED
  BY <1>6, <1>7

\* A text without its EXPLAIN names and calls what it did.
LEMMA ExplainedText ==
  ASSUME NEW c, NEW t, validate_readonly(c, t), Described(t), "stmts" \in DOMAIN t,
         t.stmts[1].kind = "explain", NEW g, g = [t EXCEPT !.stmts = <<t.stmts[1].of>>]
  PROVE  /\ g.stmts[1] = t.stmts[1].of /\ g.folds = t.folds /\ Described(g) /\ Parses(g)
         /\ relations_named(g) = relations_named(t)
         /\ functions_called(g) = functions_called(t)
         /\ RelationsIn(g.stmts[1]) = RelationsIn(t.stmts[1])
         /\ FunctionsIn(g.stmts[1], {"call"}) = FunctionsIn(t.stmts[1], {"call"})
         /\ g.stmts[1].kind = "query" => ReadsOnly(c, g)
<1> DEFINE s == t.stmts[1]
<1>1. Shallow(s)
  BY AcceptedIsShallow
<1>2. /\ Shallow(s.of)
      /\ \A sort \in {"factor", "expr", "body", "query"} : Nodes(s.of, sort) = Nodes(s, sort)
  BY <1>1, ExplainedCovers
<1>3. /\ g.stmts = <<s.of>> /\ g.folds = t.folds /\ g.long = t.long /\ g.parses = t.parses
      /\ g.trailing = t.trailing /\ g.hidden = t.hidden
  OBVIOUS
<1>4. g.stmts[1] = s.of /\ ToSet(g.stmts) = {s.of} /\ Len(g.stmts) = 1
  BY <1>3 DEF ToSet
<1>5. Described(g)
  BY <1>3, <1>4 DEF Described
<1>6. Parses(t) /\ Parses(g)
  BY <1>2, <1>3, <1>4 DEF Parses, validate_readonly
<1>7. /\ Nodes(g.stmts[1], "factor") = Nodes(s, "factor")
      /\ Nodes(g.stmts[1], "expr") = Nodes(s, "expr")
      /\ Nodes(g.stmts[1], "body") = Nodes(s, "body")
      /\ Nodes(g.stmts[1], "query") = Nodes(s, "query")
  BY <1>2, <1>4
<1>8. relations_named(g) = relations_named(t) /\ functions_called(g) = functions_called(t)
  BY <1>6, <1>7 DEF relations_named, functions_called
<1>9. RelationsIn(g.stmts[1]) = RelationsIn(s) /\ FunctionsIn(g.stmts[1], {"call"}) = FunctionsIn(s, {"call"})
  BY <1>7 DEF RelationsIn, FunctionsIn
<1>10. ASSUME g.stmts[1].kind = "query" PROVE ReadsOnly(c, g)
  <2>1. ReadsOnly(c, t)
    BY AcceptedReads
  <2> QED
    BY <1>3, <1>4, <1>7, <1>9, <1>10, <2>1 DEF ReadsOnly
<1> QED
  BY <1>3, <1>4, <1>5, <1>6, <1>8, <1>9, <1>10

\* What cost_guard is asked about is the text to send, or what it explains.
LEMMA GuardedText ==
  ASSUME TypeOK, Proceeding, stage \in Past, guarded # {}
  PROVE  \/ Guarded = Final
         \/ /\ call.tool = "query" /\ Final.stmts[1].kind = "explain"
            /\ Guarded = [Final EXCEPT !.stmts = <<Final.stmts[1].of>>]
         \/ ~Guarded.parses
<1>1. Guarded \in guarded
  BY DEF Guarded
<1>2. CASE call.tool = "simulate_index"
  <2>1. Guarded = call.text
    BY <1>1, <1>2 DEF guarded
  <2> QED
    BY <1>2, <2>1, FinalText
<1>3. CASE call.tool # "simulate_index" /\ is_row_query(Final)
  BY <1>1, <1>3 DEF guarded
<1>4. CASE call.tool # "simulate_index" /\ ~is_row_query(Final)
  <2>1. call.tool = "query" /\ Guarded \in explained_statement(Final)
    BY <1>1, <1>4 DEF guarded
  <2>2. "parses" \in DOMAIN Final /\ "stmts" \in DOMAIN Final
    <3>1. DOMAIN Final = DOMAIN call.text
      BY FinalText
    <3> QED
      BY <3>1, CallsAssumption DEF TypeOK
  <2>3. \/ Final.stmts[1].kind = "explain" /\ Guarded = [Final EXCEPT !.stmts = <<Final.stmts[1].of>>]
        \/ Guarded = [Final EXCEPT !.stmts = <<>>, !.parses = FALSE]
    BY <2>1 DEF explained_statement
  <2> QED
    BY <2>1, <2>2, <2>3
<1> QED
  BY <1>2, <1>3, <1>4

\* What is planned by cost_guard reads, and so does what is run.
LEMMA GuardedReads ==
  ASSUME TypeOK, Proceeding, stage \in Past, guarded # {},
         Guarded.parses, Guarded.stmts[1].kind = "query"
  PROVE  ReadsOnly(cfg, Guarded)
<1>1. validate_readonly(cfg, Final) /\ Described(Final) /\ "stmts" \in DOMAIN Final
  <2>1. DOMAIN Final = DOMAIN call.text
    BY FinalText
  <2> QED
    BY <2>1, FinalText, CallsAssumption DEF TypeOK
<1>2. CASE Guarded = Final
  BY <1>1, <1>2, AcceptedReads
<1>3. CASE Final.stmts[1].kind = "explain" /\ Guarded = [Final EXCEPT !.stmts = <<Final.stmts[1].of>>]
  BY <1>1, <1>3, ExplainedText
<1> QED
  BY <1>2, <1>3, GuardedText

LEMMA StatementReads ==
  ASSUME TypeOK, Proceeding, stage \in Past
  PROVE  ReadsOnly(cfg, Statement)
<1>1. ReadsOnly(cfg, Final)
  BY FinalText, AcceptedReads
<1>2. ReadsOnly(cfg, call.text)
  <2>1. validate_readonly(cfg, call.text) /\ Described(call.text)
    BY CallersText DEF TypeOK, Proceeding, Past
  <2> QED
    BY <2>1, AcceptedReads
<1> QED
  BY <1>1, <1>2 DEF Statement

-----------------------------------------------------------------------------
(* The steps.                                                              *)

\* The step that does not answer is one of these.
LEMMA WhoGoesOn ==
  ASSUME Next
  PROVE  \/ stage' = "answered"
         \/ Accept \/ Proceed \/ GuardExplains \/ GuardFunctions \/ GuardVerdict
         \/ ReadResource \/ Describe \/ List \/ SchemaMissing
BY DEF Next, Incomplete, Refuse, IncompleteIndex, CannotCap, GuardFails, GuardNames, GuardRefuses,
       IndexHidden, RunFails, Runs, Catalog, CatalogFails, Overview, ListResources, Returns

\* The configuration and the call never change, the text only when it is accepted.
LEMMA CallStays ==
  ASSUME [Next]_vars
  PROVE  UNCHANGED <<cfg, call>> /\ (stage # "received" => UNCHANGED final)
<1>1. CASE Next
  BY <1>1
     DEF Next, Incomplete, Refuse, Accept, IncompleteIndex, CannotCap, Proceed, GuardFails,
         GuardNames, GuardExplains, GuardFunctions, GuardVerdict, GuardRefuses, IndexHidden,
         RunFails, Runs, ReadResource, Describe, List, SchemaMissing, Catalog, CatalogFails,
         Overview, ListResources, Returns, Asks
<1>2. CASE UNCHANGED vars
  BY <1>2 DEF vars
<1> QED
  BY <1>1, <1>2

\* What is computed from these stays.
LEMMA TextsStay ==
  ASSUME UNCHANGED <<cfg, call, final>>
  PROVE  /\ final_sql' = final_sql /\ Final' = Final /\ guarded' = guarded
         /\ Guarded' = Guarded /\ Statement' = Statement /\ How' = How /\ Limit' = Limit
<1>1. Final' = Final
  BY DEF Final
<1>2. final_sql' = final_sql /\ Limit' = Limit
  BY DEF final_sql, Limit
<1>3. guarded' = guarded
  BY <1>1 DEF guarded
<1>4. Guarded' = Guarded
  BY <1>3 DEF Guarded
<1>5. Statement' = Statement /\ How' = How
  BY <1>1 DEF Statement, How
<1> QED
  BY <1>1, <1>2, <1>3, <1>4, <1>5

\* And so does what cost_guard finds in them.
LEMMA FindingsStay ==
  ASSUME UNCHANGED <<cfg, call, final>>
  PROVE  /\ Plans(Guarded)' = Plans(Guarded)
         /\ NamedOutside(Guarded)' = NamedOutside(Guarded)
         /\ FunctionsOutside(Guarded)' <=> FunctionsOutside(Guarded)
         /\ UNCHANGED plan => Outside(Parents)' = Outside(Parents)
<1>1. Guarded' = Guarded
  BY TextsStay
<1>2. Plans(Guarded)' = Plans(Guarded)
  BY <1>1 DEF Plans
<1>3. NamedOutside(Guarded)' = NamedOutside(Guarded)
  BY <1>1 DEF NamedOutside
<1>4. FunctionsOutside(Guarded)' <=> FunctionsOutside(Guarded)
  BY <1>1 DEF FunctionsOutside
<1>5. UNCHANGED plan => Outside(Parents)' = Outside(Parents)
  BY <1>3 DEF Outside, Parents
<1> QED
  BY <1>2, <1>3, <1>4, <1>5

LEMMA InitHolds ==
  ASSUME Init
  PROVE  CallInv
BY DEF Init, CallInv, TypeOK, Proceeding, Judged, Priced, Quiet, Visible, Working, Past

LEMMA TypeStays ==
  ASSUME TypeOK, [Next]_vars
  PROVE  TypeOK'
<1>1. UNCHANGED <<cfg, call>>
  BY CallStays
<1>2. stage' \in Working \cup {"received", "describe", "schema", "catalog", "answered"}
  <2>1. CASE Next
    BY <2>1, WhoGoesOn
       DEF TypeOK, Working, Accept, Proceed, GuardExplains, GuardFunctions, GuardRefuses,
           GuardVerdict, ReadResource, Describe, List, SchemaMissing, Returns, Asks
  <2>2. CASE UNCHANGED vars
    BY <2>2 DEF TypeOK, vars
  <2> QED
    BY <2>1, <2>2
<1> QED
  BY <1>1, <1>2 DEF TypeOK

LEMMA ProceedingStays ==
  ASSUME Proceeding, [Next]_vars
  PROVE  Proceeding'
<1>0. stage' = "received" => final' = {}
  <2>1. CASE Next
    <3>1. stage' # "received"
      BY <2>1, WhoGoesOn
         DEF Accept, Proceed, GuardExplains, GuardFunctions, GuardRefuses, GuardVerdict,
             ReadResource, Describe, List, SchemaMissing, Returns, Asks
    <3> QED
      BY <3>1
  <2>2. CASE UNCHANGED vars
    BY <2>2 DEF Proceeding, vars
  <2> QED
    BY <2>1, <2>2
<1> SUFFICES ASSUME stage' \in Working
             PROVE  /\ call.tool \in Queries /\ "sql" \in call.given
                    /\ validate_readonly(cfg, call.text)
                    /\ final' = final_sql'
                    /\ stage' \in Past => final' # {} /\ IndexComplete
                    /\ stage' \in {"guard", "functions", "verdict"} => guarded' # {}
  BY <1>0, CallStays DEF Proceeding, IndexComplete
<1>1. CASE Next
  <2>1. CASE Accept
    <3>1. /\ call.tool \in Queries /\ "sql" \in call.given /\ validate_readonly(cfg, call.text)
          /\ UNCHANGED <<cfg, call>> /\ final' = final_sql /\ stage' = "accepted"
      BY <2>1 DEF Accept
    <3>2. final_sql' = final_sql
      BY <3>1 DEF final_sql, Limit
    <3> QED
      BY <3>1, <3>2 DEF Past
  <2>2. CASE Proceed
    <3>1. /\ stage = "accepted" /\ final # {} /\ IndexComplete /\ UNCHANGED <<cfg, call, final>>
          /\ stage' = IF guarded = {} THEN "run" ELSE "guard"
      BY <2>2 DEF Proceed, Asks
    <3>2. final_sql' = final_sql /\ guarded' = guarded
      BY <3>1, TextsStay
    <3> QED
      BY <3>1, <3>2 DEF Proceeding, Working
  <2>3. CASE GuardExplains \/ GuardFunctions \/ GuardVerdict
    <3>1. stage \in {"guard", "functions", "verdict"} /\ UNCHANGED <<cfg, call, final>>
      BY <2>3 DEF GuardExplains, GuardFunctions, GuardVerdict, GuardRefuses, Returns, Asks
    <3>2. final_sql' = final_sql /\ guarded' = guarded
      BY <3>1, TextsStay
    <3> QED
      BY <3>1, <3>2 DEF Proceeding, Working, Past
  <2>4. CASE ReadResource \/ Describe \/ List \/ SchemaMissing
    BY <2>4 DEF ReadResource, Describe, List, SchemaMissing, Returns, Asks, Working
  <2> QED
    BY <1>1, <2>1, <2>2, <2>3, <2>4, WhoGoesOn DEF Working
<1>2. CASE UNCHANGED vars
  <2>1. UNCHANGED <<cfg, call, final, stage>>
    BY <1>2 DEF vars
  <2>2. final_sql' = final_sql /\ guarded' = guarded
    BY <2>1, TextsStay
  <2> QED
    BY <2>1, <2>2 DEF Proceeding
<1> QED
  BY <1>1, <1>2

LEMMA JudgedStays ==
  ASSUME Judged, [Next]_vars
  PROVE  Judged'
<1> DEFINE past(st, some) == st \in {"functions", "verdict"} \/ (st = "run" /\ some)
<1> SUFFICES ASSUME past(stage', guarded' # {})
             PROVE  /\ plan' \in Plans(Guarded)'
                    /\ stage' = "functions" => active(cfg)
                    /\ active(cfg) => NamedOutside(Guarded)' = {}
                    /\ active(cfg) /\ stage' # "functions" => ~FunctionsOutside(Guarded)'
                    /\ active(cfg) /\ stage' = "run" => Outside(Parents)' = {}
  BY CallStays DEF Judged
<1>1. CASE Next
  <2>1. CASE Accept
    BY <2>1 DEF Accept
  <2>2. CASE Proceed
    <3>1. /\ UNCHANGED <<cfg, call, final>>
          /\ stage' = IF guarded = {} THEN "run" ELSE "guard"
      BY <2>2 DEF Proceed, Asks
    <3>2. guarded' = guarded
      BY <3>1, TextsStay
    <3> QED
      BY <3>1, <3>2
  <2>3. CASE GuardExplains
    <3>1. /\ active(cfg) => NamedOutside(Guarded) = {}
          /\ UNCHANGED <<cfg, call, final>>
          /\ \E p \in Plans(Guarded) :
               \/ stage' = "answered"
               \/ stage' = (IF active(cfg) THEN "functions" ELSE "verdict") /\ plan' = p
      BY <2>3 DEF GuardExplains
    <3>2. Plans(Guarded)' = Plans(Guarded) /\ NamedOutside(Guarded)' = NamedOutside(Guarded)
      BY <3>1, FindingsStay
    <3> QED
      BY <3>1, <3>2
  <2>4. CASE GuardFunctions
    <3>1. /\ stage = "functions" /\ UNCHANGED <<cfg, call, final, plan>>
          /\ stage' = "answered" \/ (stage' = "verdict" /\ ~FunctionsOutside(Guarded))
      BY <2>4 DEF GuardFunctions, GuardRefuses, Returns, Asks
    <3>2. /\ Plans(Guarded)' = Plans(Guarded) /\ NamedOutside(Guarded)' = NamedOutside(Guarded)
          /\ FunctionsOutside(Guarded)' <=> FunctionsOutside(Guarded)
      BY <3>1, FindingsStay
    <3> QED
      BY <3>1, <3>2 DEF Judged
  <2>5. CASE GuardVerdict
    <3>1. /\ stage = "verdict" /\ UNCHANGED <<cfg, call, final, plan>>
          /\ stage' = "answered"
             \/ (stage' = "run" /\ (active(cfg) => Outside(Parents) = {}))
      BY <2>5 DEF GuardVerdict, GuardRefuses, Returns
    <3>2. /\ Plans(Guarded)' = Plans(Guarded) /\ NamedOutside(Guarded)' = NamedOutside(Guarded)
          /\ FunctionsOutside(Guarded)' <=> FunctionsOutside(Guarded)
          /\ Outside(Parents)' = Outside(Parents)
      BY <3>1, FindingsStay
    <3> QED
      BY <3>1, <3>2 DEF Judged
  <2>6. CASE ReadResource \/ Describe \/ List \/ SchemaMissing
    BY <2>6 DEF ReadResource, Describe, List, SchemaMissing, Returns, Asks
  <2> QED
    BY <1>1, <2>1, <2>2, <2>3, <2>4, <2>5, <2>6, WhoGoesOn
<1>2. CASE UNCHANGED vars
  <2>1. UNCHANGED <<cfg, call, final, plan, stage>>
    BY <1>2 DEF vars
  <2>2. /\ guarded' = guarded
        /\ Plans(Guarded)' = Plans(Guarded) /\ NamedOutside(Guarded)' = NamedOutside(Guarded)
        /\ FunctionsOutside(Guarded)' <=> FunctionsOutside(Guarded)
        /\ Outside(Parents)' = Outside(Parents)
    BY <2>1, TextsStay, FindingsStay
  <2> QED
    BY <2>1, <2>2 DEF Judged
<1> QED
  BY <1>1, <1>2

\* What runs is what cost_guard was asked about: a query that does not begin with a comment.
LEMMA RowsAreGuarded ==
  ASSUME TypeOK, Proceeding, stage \in Past, How = "run", Final.stmts[1].kind = "query"
  PROVE  guarded = {Final} /\ Guarded = Final /\ Ceiling
<1>1. call.tool # "simulate_index" /\ (call.tool = "query" \/ (call.tool = "explain_query" /\ call.analyze))
  BY DEF How
<1>2. ~Final.comment
  BY <1>1, FinalText
<1>3. is_row_query(Final)
  BY <1>2 DEF is_row_query
<1>4. guarded = {Final}
  BY <1>1, <1>3 DEF guarded
<1>5. Guarded = Final
  BY <1>4 DEF Guarded
<1>6. Ceiling
  BY <1>1, <1>3 DEF Ceiling
<1> QED
  BY <1>4, <1>5, <1>6

LEMMA PricedStays ==
  ASSUME TypeOK, Proceeding, Priced, [Next]_vars
  PROVE  Priced'
<1> SUFFICES ASSUME stage' = "run", How' = "run", Final'.stmts[1].kind = "query"
             PROVE  Final' \in priced'
  BY DEF Priced
<1>1. CASE Proceed
  <2>1. stage = "accepted" /\ guarded = {} /\ UNCHANGED <<cfg, call, final>> /\ final # {}
    BY <1>1 DEF Proceed, Asks
  <2>2. Final' = Final /\ How' = How /\ guarded' = guarded
    BY <2>1, TextsStay
  <2>3. call.tool \in Queries /\ validate_readonly(cfg, call.text) /\ final = final_sql
    BY <2>1 DEF Proceeding, Working
  <2>4. call.tool # "simulate_index" /\ (call.tool = "query" \/ call.tool = "explain_query")
    BY <2>2 DEF How
  <2>5. ~Final.comment
    <3>1. Final \in final_sql
      BY <2>1, <2>3 DEF Final
    <3>2. \/ Final \in enforce_limit_offset(cfg, call.text, Limit + 1, call.offset)
          \/ Final \in enforce_limit_offset(cfg, call.text, MAX_LIMIT, 0)
      BY <2>4, <3>1 DEF final_sql
    <3>3. IsText(call.text)
      BY CallersText DEF TypeOK
    <3> QED
      BY <3>2, <3>3, Rewritten
  <2>6. is_row_query(Final)
    BY <2>2, <2>5 DEF is_row_query
  <2>7. guarded = {Final}
    BY <2>4, <2>6 DEF guarded
  <2> QED
    BY <2>1, <2>7
<1>2. CASE GuardVerdict
  <2>1. /\ stage = "verdict" /\ UNCHANGED <<cfg, call, final>>
        /\ (Ceiling => plan.cost = "within")
        /\ priced' = priced \cup {t \in guarded : plan.cost = "within"}
    BY <1>2 DEF GuardVerdict, GuardRefuses, Returns
  <2>2. Final' = Final /\ How' = How
    BY <2>1, TextsStay
  <2>3. guarded = {Final} /\ Ceiling
    BY <2>1, <2>2, RowsAreGuarded DEF Past, Working
  <2> QED
    BY <2>1, <2>2, <2>3
<1>3. CASE UNCHANGED vars
  <2>1. UNCHANGED <<cfg, call, final, stage, priced>>
    BY <1>3 DEF vars
  <2>2. Final' = Final /\ How' = How
    BY <2>1, TextsStay
  <2> QED
    BY <2>1, <2>2 DEF Priced
<1>4. CASE Next /\ ~Proceed /\ ~GuardVerdict
  BY <1>4, WhoGoesOn
     DEF Accept, GuardExplains, GuardFunctions, GuardRefuses, ReadResource, Describe, List,
         SchemaMissing, Returns, Asks
<1> QED
  BY <1>1, <1>2, <1>3, <1>4

LEMMA QuietStays ==
  ASSUME TypeOK, Quiet, [Next]_vars
  PROVE  Quiet'
<1>1. CASE Next
  <2>1. CASE Accept \/ Proceed
    BY <2>1 DEF Quiet, Accept, Proceed, Asks, Queries
  <2>2. CASE GuardExplains
    BY <2>2 DEF Quiet, GuardExplains
  <2>3. CASE GuardFunctions \/ GuardVerdict
    BY <2>3 DEF Quiet, GuardFunctions, GuardVerdict, GuardRefuses, Returns, Asks
  <2>4. CASE ReadResource \/ Describe \/ List \/ SchemaMissing
    <3>1. CASE ReadResource /\ stage' # "answered"
      <4>1. /\ stage = "received" /\ call.tool = "resources/read" /\ stage' = "describe"
            /\ records' = Append(records, "allowed") /\ UNCHANGED <<call, asked, answer>>
        BY <3>1 DEF ReadResource, Returns
      <4>2. records = <<>>
        BY <4>1 DEF Quiet
      <4>3. records' = <<"allowed">>
        BY <4>1, <4>2
      <4> QED
        BY <4>1, <4>3 DEF Quiet
    <3>2. CASE Describe \/ List \/ SchemaMissing
      BY <3>2 DEF Quiet, Describe, List, SchemaMissing, Returns, Asks
    <3>3. CASE ReadResource /\ stage' = "answered"
      BY <3>3 DEF Quiet
    <3> QED
      BY <2>4, <3>1, <3>2, <3>3
  <2>5. CASE stage' = "answered"
    BY <2>5 DEF Quiet
  <2> QED
    BY <1>1, <2>1, <2>2, <2>3, <2>4, <2>5, WhoGoesOn
<1>2. CASE UNCHANGED vars
  BY <1>2 DEF Quiet, vars
<1> QED
  BY <1>1, <1>2

LEMMA VisibleStays ==
  ASSUME Visible, [Next]_vars
  PROVE  Visible'
<1>1. UNCHANGED <<cfg, call>>
  BY CallStays
<1>2. Hidden' <=> Hidden
  BY <1>1 DEF Hidden
<1>3. CASE Next
  <2>1. CASE ReadResource \/ Describe \/ List \/ SchemaMissing
    BY <1>1, <1>2, <2>1
       DEF Visible, ReadResource, Describe, List, SchemaMissing, Returns, Asks, Named
  <2>2. CASE Accept \/ Proceed \/ GuardExplains \/ GuardFunctions \/ GuardVerdict
    BY <2>2 DEF Visible, Accept, Proceed, GuardExplains, GuardFunctions, GuardVerdict,
                GuardRefuses, Returns, Asks
  <2>3. CASE stage' = "answered"
    BY <2>3 DEF Visible
  <2> QED
    BY <1>3, <2>1, <2>2, <2>3, WhoGoesOn
<1>4. CASE UNCHANGED vars
  BY <1>2, <1>4 DEF Visible, vars
<1> QED
  BY <1>3, <1>4

LEMMA InvStays ==
  ASSUME CallInv, [Next]_vars
  PROVE  CallInv'
BY TypeStays, ProceedingStays, JudgedStays, PricedStays, QuietStays, VisibleStays DEF CallInv

\* A call is where its text, its plan, its price and its records say it is.
THEOREM CallsAreInOrder == Spec => []CallInv
<1>1. Init => CallInv
  BY InitHolds
<1>2. CallInv /\ [Next]_vars => CallInv'
  BY InvStays
<1> QED
  BY <1>1, <1>2, PTL DEF Spec

-----------------------------------------------------------------------------
(* Only what reads is planned or run.                                      *)

LEMMA OnlyReadsStays ==
  ASSUME CallInv, OnlyReadsRun, [Next]_vars
  PROVE  OnlyReadsRun'
<1>1. \A a \in asked : ReadsOnly(cfg, a.text)
  BY DEF OnlyReadsRun, ReadsOnly
<1>2. UNCHANGED cfg
  BY CallStays
<1>3. \A a \in asked' : ReadsOnly(cfg, a.text)
  <2>1. CASE GuardExplains
    <3>1. /\ stage = "guard" /\ Understood(Guarded) /\ Guarded.stmts[1].kind = "query"
          /\ asked' = asked \cup {[how |-> "plan", text |-> Guarded]}
      BY <2>1 DEF GuardExplains
    <3>2. Guarded.parses
      BY <3>1 DEF Understood
    <3>3. stage \in Past /\ guarded # {} /\ TypeOK /\ Proceeding
      BY <3>1 DEF CallInv, Proceeding, Working, Past
    <3>4. ReadsOnly(cfg, Guarded)
      BY <3>1, <3>2, <3>3, GuardedReads
    <3> QED
      BY <1>1, <3>1, <3>4
  <2>2. CASE RunFails \/ Runs
    <3>1. stage = "run" /\ asked' = asked \cup {[how |-> How, text |-> Statement]}
      BY <2>2 DEF RunFails, Runs, Sent
    <3>2. ReadsOnly(cfg, Statement)
      BY <3>1, StatementReads DEF CallInv, Working, Past
    <3> QED
      BY <1>1, <3>1, <3>2
  <2>3. CASE ~GuardExplains /\ ~RunFails /\ ~Runs
    <3>1. UNCHANGED asked
      BY <2>3
         DEF Next, vars, Incomplete, Refuse, Accept, IncompleteIndex, CannotCap, Proceed,
             GuardFails, GuardNames, GuardFunctions, GuardVerdict, GuardRefuses, IndexHidden,
             ReadResource, Describe, List, SchemaMissing, Catalog, CatalogFails,
             Overview, ListResources, Returns, Asks
    <3> QED
      BY <1>1, <3>1
  <2> QED
    BY <2>1, <2>2, <2>3
<1> QED
  BY <1>2, <1>3 DEF OnlyReadsRun, ReadsOnly

\* Whatever the database is asked to plan or to run of a caller's, in whatever form the
\* server sends it, is one statement in which, however deep, nothing locks or writes and
\* no call but that of a LATERAL f(..) acts.
THEOREM OnlyReadsAlwaysRun == Spec => []OnlyReadsRun
<1>1. Init => OnlyReadsRun
  BY DEF Init, OnlyReadsRun
<1>2. CallInv /\ OnlyReadsRun /\ [Next]_vars => OnlyReadsRun'
  BY OnlyReadsStays
<1> QED
  BY <1>1, <1>2, CallsAreInOrder, PTL DEF Spec

-----------------------------------------------------------------------------
(* Nothing runs unpriced.                                                  *)

LEMMA PricesStay ==
  ASSUME CallInv, NothingRunsUnpriced, [Next]_vars
  PROVE  NothingRunsUnpriced'
<1>1. CASE GuardExplains
  <2>1. asked' = asked \cup {[how |-> "plan", text |-> Guarded]} /\ UNCHANGED priced
    BY <1>1 DEF GuardExplains
  <2> QED
    BY <2>1 DEF NothingRunsUnpriced
<1>2. CASE RunFails \/ Runs
  <2>1. /\ stage = "run" /\ UNCHANGED priced
        /\ asked' = asked \cup {[how |-> How, text |-> Statement]}
    BY <1>2 DEF RunFails, Runs, Sent
  <2>2. How = "run" => Statement = Final
    BY DEF How, Statement
  <2>3. How = "run" /\ Statement.stmts[1].kind = "query" => Statement \in priced
    BY <2>1, <2>2 DEF CallInv, Priced
  <2> QED
    BY <2>1, <2>3 DEF NothingRunsUnpriced
<1>3. CASE GuardVerdict
  <2>1. UNCHANGED asked /\ priced \subseteq priced'
    BY <1>3 DEF GuardVerdict, GuardRefuses, Returns
  <2> QED
    BY <2>1 DEF NothingRunsUnpriced
<1>4. CASE ~GuardExplains /\ ~RunFails /\ ~Runs /\ ~GuardVerdict
  <2>1. UNCHANGED <<asked, priced>>
    BY <1>4
       DEF Next, vars, Incomplete, Refuse, Accept, IncompleteIndex, CannotCap, Proceed,
           GuardFails, GuardNames, GuardFunctions, GuardRefuses, IndexHidden,
           ReadResource, Describe, List, SchemaMissing, Catalog, CatalogFails,
           Overview, ListResources, Returns, Asks
  <2> QED
    BY <2>1 DEF NothingRunsUnpriced
<1> QED
  BY <1>1, <1>2, <1>3, <1>4

\* The very text of a query that runs was priced within the maximum.
THEOREM NothingEverRunsUnpriced == Spec => []NothingRunsUnpriced
<1>1. Init => NothingRunsUnpriced
  BY DEF Init, NothingRunsUnpriced
<1>2. CallInv /\ NothingRunsUnpriced /\ [Next]_vars => NothingRunsUnpriced'
  BY PricesStay
<1> QED
  BY <1>1, <1>2, CallsAreInOrder, PTL DEF Spec

-----------------------------------------------------------------------------
(* Rows.                                                                   *)

LEMMA LimitIsNat ==
  ASSUME TypeOK
  PROVE  Limit \in Nat /\ Limit <= MAX_LIMIT
<1> DEFINE asks == IF call.limit = {} THEN DefaultLimit ELSE CHOOSE l \in call.limit : TRUE
<1>1. asks \in Nat /\ MAX_LIMIT \in Nat
  BY CallsAssumption, SizesAssumption DEF TypeOK
<1> HIDE DEF asks
<1>2. AtMost(asks, MAX_LIMIT) \in Nat /\ AtMost(asks, MAX_LIMIT) <= MAX_LIMIT
  BY <1>1, AtMostIsNat
<1> QED
  BY <1>2 DEF Limit, asks

\* What a query answers.
LEMMA RunIsHonest ==
  ASSUME CallInv, Runs, call.tool = "query"
  PROVE  RowsHonest'
<1> DEFINE s == call.text.stmts[1]
           u == Final.stmts[1]
           all(n) == IF s.kind = "query" THEN RowsOf(s.q, n) ELSE n
           rows(n) == IF u.kind = "query" THEN RowsOf(u.q, n) ELSE n
<1>1. stage = "run" /\ stage \in Past /\ TypeOK /\ Proceeding
  BY DEF Runs, CallInv, Past, Working
<1>2. u.kind = s.kind /\ Rewriting(s, u, Limit + 1, call.offset)
  BY <1>1, FinalText
<1>3. PICK n \in 0..MaxRows : answer' = mark_truncation(n, rows(n))
  BY DEF Runs, Statement
<1>4. Limit \in Nat /\ Limit <= MAX_LIMIT /\ call.offset \in Nat /\ n \in Nat
  BY <1>1, LimitIsNat, CallsAssumption, SizesAssumption DEF TypeOK
<1>5. /\ all(n) \in Nat /\ rows(n) \in Nat
      /\ AtMost(RowsLeft(all(n), call.offset), Limit + 1) <= rows(n)
      /\ rows(n) <= RowsLeft(all(n), call.offset)
  <2>1. CASE s.kind = "query"
    <3>1. s \in ToSet(call.text.stmts)
      BY <1>1, TheStatement, CallersText DEF TypeOK, Proceeding, Past
    <3>2. Limit + 1 \in Nat
      BY <1>4
    <3>3. /\ RowsOf(s.q, n) \in Nat /\ RowsOf(u.q, n) \in Nat
          /\ AtMost(RowsLeft(RowsOf(s.q, n), call.offset), Limit + 1) <= RowsOf(u.q, n)
          /\ RowsOf(u.q, n) <= RowsLeft(RowsOf(s.q, n), call.offset)
      BY <1>1, <1>2, <1>4, <2>1, <3>1, <3>2, RowsOfRewriting DEF TypeOK
    <3> QED
      BY <1>2, <2>1, <3>3
  <2>2. CASE s.kind # "query"
    <3>1. call.offset = 0 /\ rows(n) = n /\ all(n) = n
      BY <1>2, <2>2 DEF Rewriting
    <3>2. RowsLeft(n, 0) = n /\ AtMost(n, Limit + 1) <= n
      BY <1>4 DEF RowsLeft, AtMost
    <3> HIDE DEF rows, all
    <3> QED
      BY <1>4, <3>1, <3>2
  <2> QED
    BY <2>1, <2>2
<1> DEFINE left == RowsLeft(all(n), call.offset)
<1>6. left \in Nat
  <2> HIDE DEF all
  <2> QED
    BY <1>4, <1>5 DEF RowsLeft
<1>7. AtMost(rows(n), Limit) = AtMost(left, Limit) /\ (rows(n) > Limit <=> left > Limit)
  <2> HIDE DEF left, rows
  <2> QED
    BY <1>4, <1>5, <1>6, SpareRow DEF left
<1>8. AtMost(left, Limit) <= MAX_LIMIT
  <2> HIDE DEF left
  <2>1. AtMost(left, Limit) \in Nat /\ AtMost(left, Limit) <= Limit
    BY <1>4, <1>6, AtMostIsNat
  <2> QED
    BY <1>4, <2>1, SizesAssumption
<1>9. UNCHANGED <<cfg, call, final>>
  BY DEF Runs
<1>10. Limit' = Limit
  BY <1>9, TextsStay
<1>11. /\ answer'.table = n /\ answer'.returned = AtMost(rows(n), Limit)
       /\ answer'.truncated = (rows(n) > Limit)
  <2> HIDE DEF rows
  <2> QED
    BY <1>3 DEF mark_truncation
<1>12. left = IF all(n) > call.offset THEN all(n) - call.offset ELSE 0
  BY DEF RowsLeft
<1> HIDE DEF left, rows
<1> QED
  BY <1>7, <1>8, <1>9, <1>10, <1>11, <1>12 DEF RowsHonest

LEMMA HonestyStays ==
  ASSUME CallInv, RowsHonest, [Next]_vars
  PROVE  RowsHonest'
<1>1. CASE Runs /\ call.tool = "query"
  BY <1>1, RunIsHonest
<1>2. CASE UNCHANGED answer
  <2>1. UNCHANGED <<cfg, call>>
    BY CallStays
  <2>2. Limit' = Limit
    BY <2>1 DEF Limit
  <2> QED
    BY <1>2, <2>1, <2>2 DEF RowsHonest
<1>3. CASE answer'.kind # "rows"
  BY <1>3 DEF RowsHonest
<1>4. [Next]_vars => (Runs /\ call.tool = "query") \/ UNCHANGED answer \/ answer'.kind # "rows"
  <2>1. CASE Runs /\ call.tool # "query"
    BY <2>1 DEF Runs
  <2>2. CASE Catalog \/ CatalogFails \/ Overview \/ ListResources
    <3>1. Error.kind # "rows" /\ \A rels : Shown(rels).kind # "rows"
      BY DEF Error, Shown
    <3>2. CASE Catalog \/ CatalogFails
      BY <3>1, <3>2 DEF Catalog, CatalogFails, Returns
    <3>3. CASE Overview
      BY <3>1, <3>3 DEF Overview, Returns
    <3>4. CASE ListResources
      BY <3>1, <3>4 DEF ListResources, Returns
    <3> QED
      BY <2>2, <3>2, <3>3, <3>4
  <2>3. CASE \/ Incomplete \/ Refuse \/ IncompleteIndex \/ CannotCap \/ GuardFails \/ GuardNames
             \/ GuardExplains \/ GuardFunctions \/ GuardVerdict \/ IndexHidden \/ RunFails
             \/ ReadResource \/ Describe \/ SchemaMissing
    BY <2>3 DEF Incomplete, Refuse, IncompleteIndex, CannotCap, GuardFails, GuardNames,
                GuardExplains, GuardFunctions, GuardVerdict, GuardRefuses, IndexHidden, RunFails,
                ReadResource, Describe, SchemaMissing, Returns, Asks, Error
  <2>4. CASE Accept \/ Proceed \/ List \/ UNCHANGED vars
    BY <2>4 DEF Accept, Proceed, List, Asks, vars
  <2> QED
    BY <2>1, <2>2, <2>3, <2>4 DEF Next
<1> QED
  BY <1>1, <1>2, <1>3, <1>4

\* Rows are what the caller's own statement has from the offset on, WITH TIES or without,
\* up to the limit, and a cut is told.
THEOREM RowsAlwaysHonest == Spec => []RowsHonest
<1>1. Init => RowsHonest
  BY DEF Init, RowsHonest, NoAnswer
<1>2. CallInv /\ RowsHonest /\ [Next]_vars => RowsHonest'
  BY HonestyStays
<1> QED
  BY <1>1, <1>2, CallsAreInOrder, PTL DEF Spec

-----------------------------------------------------------------------------
(* The surface.                                                            *)

\* After the answer there is nothing.
LEMMA NothingAfter ==
  ASSUME Next
  PROVE  stage # "answered"
BY DEF Next, Incomplete, Refuse, Accept, IncompleteIndex, CannotCap, Proceed, GuardFails,
       GuardNames, GuardExplains, GuardFunctions, GuardVerdict, IndexHidden, RunFails, Runs,
       ReadResource, Describe, List, SchemaMissing, Catalog, CatalogFails, Overview, ListResources

\* The other steps have nothing to tell.
LEMMA NothingTold ==
  ASSUME CallInv, Next, ~Runs, ~Catalog, ~CatalogFails, ~Overview, ~ListResources
  PROVE  answer' = NoAnswer \/ answer' = Error
<1>1. answer = NoAnswer
  BY NothingAfter DEF CallInv, Quiet
<1>2. CASE \/ Incomplete \/ Refuse \/ IncompleteIndex \/ CannotCap \/ GuardFails \/ GuardNames
           \/ GuardExplains \/ GuardFunctions \/ GuardVerdict \/ IndexHidden \/ RunFails
           \/ ReadResource \/ Describe \/ SchemaMissing
  BY <1>1, <1>2
     DEF Incomplete, Refuse, IncompleteIndex, CannotCap, GuardFails, GuardNames,
         GuardExplains, GuardFunctions, GuardVerdict, GuardRefuses, IndexHidden, RunFails,
         ReadResource, Describe, SchemaMissing, Returns, Asks
<1>3. CASE Accept \/ Proceed \/ List
  BY <1>1, <1>3 DEF Accept, Proceed, List, Asks
<1> QED
  BY <1>2, <1>3 DEF Next

\* What a statement reaches is in its plan, or in the body of a function it calls: when
\* none of the plan is outside and no such function is called, it is inside.
LEMMA PlanTellsAll ==
  ASSUME NEW g, plan \in Plans(g), Outside(Parents) = {}, ~FunctionsOutside(g),
         \A f \in FunctionsIn(g.stmts[1], {"call"}) : Lower(f.name) \in functions_called(g),
         NEW r \in Reaches(g, {"call"})
  PROVE  permitted_in(cfg, r) \/ \E parent \in Parent(r) : permitted_in(cfg, parent)
<1> DEFINE rels == RelationsIn(g.stmts[1])
           found == relations_in_plan(plan)
<1>1. ASSUME NEW f \in FunctionsIn(g.stmts[1], {"call"}), f.name \in UserFunctions
      PROVE  Lower(f.name) \in cfg.allowed
  BY <1>1 DEF FunctionsOutside, operator_allowed
<1>2. ~g.folds /\ \E x \in rels : r \in Base(x)
  <2>1. {f \in FunctionsIn(g.stmts[1], {"call"}) :
           f.name \in UserFunctions /\ Lower(f.name) \notin cfg.allowed} = {}
    BY <1>1
  <2>2. r \in IF g.folds THEN {} ELSE UNION {Base(x) : x \in rels}
    BY <2>1 DEF Reaches
  <2> QED
    BY <2>2
<1>3. PICK x \in rels : r \in Base(x)
  BY <1>2
<1>4. /\ plan.scans = UNION {Base(y) : y \in rels \ ServerState}
      /\ {[name |-> y[2], server_state |-> TRUE] : y \in rels \cap ServerState} \subseteq plan.calls
  <2>1. /\ plan.scans = UNION {Base(y) : y \in rels \ ServerState}
        /\ plan.calls \in Scans(g.stmts[1])
    BY <1>2 DEF Plans
  <2>2. {[name |-> y[2], server_state |-> TRUE] : y \in rels \cap ServerState} \subseteq plan.calls
    BY <2>1 DEF Scans
  <2> QED
    BY <2>1, <2>2
<1>5. r \in found
  <2>1. CASE x \in ServerState
    <3>1. r = x /\ r = <<"pg_catalog", x[2]>>
      BY <1>3, <2>1, ServerStateAssumption
    <3>2. [name |-> x[2], server_state |-> TRUE] \in plan.calls
      BY <1>4, <2>1
    <3>3. <<"pg_catalog", x[2]>> \in catalog_functions_in_plan(plan)
      <4> DEFINE f == [name |-> x[2], server_state |-> TRUE]
      <4>1. f \in plan.calls /\ f.server_state /\ f.name = x[2]
        BY <3>2
      <4> HIDE DEF f
      <4> QED
        BY <4>1 DEF catalog_functions_in_plan
    <3> QED
      BY <3>1, <3>3 DEF relations_in_plan
  <2>2. CASE x \notin ServerState
    <3>1. r \in plan.scans
      BY <1>3, <1>4, <2>2
    <3> QED
      BY <3>1 DEF relations_in_plan
  <2> QED
    BY <2>1, <2>2
<1>6. refused_in(cfg, found, Parents) = {}
  BY <1>5 DEF Outside
<1>7. Parents[r] = Parent(r)
  BY <1>5 DEF Parents
<1> QED
  BY <1>5, <1>6, <1>7 DEF refused_in

\* A statement that names no more is inside, too.
LEMMA LessIsInside ==
  ASSUME NEW t, NEW g, relations_named(t) \subseteq relations_named(g), t.folds = g.folds,
         RelationsIn(t.stmts[1]) \subseteq RelationsIn(g.stmts[1]),
         FunctionsIn(t.stmts[1], {"call"}) \subseteq FunctionsIn(g.stmts[1], {"call"})
  PROVE  /\ NamedOutside(g) = {} => NamedOutside(t) = {}
         /\ Reaches(t, {"call"}) \subseteq Reaches(g, {"call"})
<1>1. NamedOutside(g) = {} => NamedOutside(t) = {}
  BY DEF NamedOutside, refused_in, NoParents
<1>2. Reaches(t, {"call"}) \subseteq Reaches(g, {"call"})
  BY DEF Reaches
<1> QED
  BY <1>1, <1>2

\* What runs, or is planned for the caller, names no more than cost_guard was asked about,
\* and cost_guard saw every function of it: or it is a SHOW.
LEMMA GuardSawIt ==
  ASSUME CallInv, Runs, active(cfg)
  PROVE  \/ /\ guarded # {}
            /\ relations_named(Statement) \subseteq relations_named(Guarded)
            /\ RelationsIn(Statement.stmts[1]) \subseteq RelationsIn(Guarded.stmts[1])
            /\ FunctionsIn(Statement.stmts[1], {"call"}) \subseteq FunctionsIn(Guarded.stmts[1], {"call"})
            /\ Statement.folds = Guarded.folds
            /\ \A f \in FunctionsIn(Guarded.stmts[1], {"call"}) : Lower(f.name) \in functions_called(Guarded)
         \/ /\ relations_named(Statement) = {}
            /\ RelationsIn(Statement.stmts[1]) = {} /\ FunctionsIn(Statement.stmts[1], {"call"}) = {}
<1> DEFINE u == Final.stmts[1]
<1>1. /\ stage \in Past /\ TypeOK /\ Proceeding
      /\ Understood(Statement) /\ (call.tool # "query" => Statement.stmts[1].kind = "query")
  BY DEF Runs, CallInv, Past, Working
<1>2. /\ validate_readonly(cfg, Final) /\ Described(Final) /\ Final.folds = call.text.folds
      /\ Covered(call.text.stmts[1], u) /\ u.kind = call.text.stmts[1].kind
      /\ (call.tool # "simulate_index" => ~Final.comment)
      /\ (call.tool = "simulate_index" => Final = call.text)
      /\ "stmts" \in DOMAIN Final
  <2>1. "stmts" \in DOMAIN call.text
    BY <1>1, CallsAssumption DEF TypeOK
  <2> QED
    BY <1>1, <2>1, FinalText
<1>3. Parses(Final) /\ Shallow(u)
  BY <1>2, AcceptedIsShallow DEF validate_readonly
<1>4. call.tool \in Queries
  BY <1>1 DEF Proceeding, Past
<1>5. CASE u.kind = "query"
  <2>1. guarded = {Final}
    BY <1>2, <1>5 DEF guarded, is_row_query
  <2>2. Guarded = Final
    BY <2>1 DEF Guarded
  <2>3. /\ RelationsIn(Statement.stmts[1]) \subseteq RelationsIn(u)
        /\ FunctionsIn(Statement.stmts[1], {"call"}) \subseteq FunctionsIn(u, {"call"})
        /\ relations_named(Statement) \subseteq relations_named(Final)
        /\ Statement.folds = Final.folds
    BY <1>2, <1>3, CoveredNames, CoveredNamed DEF Statement
  <2>4. \A f \in FunctionsIn(u, {"call"}) : Lower(f.name) \in functions_called(Final)
    BY <1>2, AcceptedFunctions
  <2> QED
    BY <2>1, <2>2, <2>3, <2>4
<1>6. CASE u.kind # "query"
  <2>1. call.tool = "query" /\ Statement = Final
    BY <1>1, <1>2, <1>6 DEF Statement
  <2>2. u.kind \in {"explain", "show"}
    BY <1>1, <1>6, <2>1 DEF Understood
  <2>3. CASE u.kind = "explain"
    <3> DEFINE g == [Final EXCEPT !.stmts = <<u.of>>]
    <3>1. guarded = {g}
      <4>1. ~is_row_query(Final)
        BY <1>6 DEF is_row_query
      <4>2. explained_statement(Final) = {g}
        BY <1>2, <1>3, <2>1, <2>3 DEF explained_statement
      <4> QED
        BY <2>1, <4>1, <4>2 DEF guarded
    <3>2. Guarded = g
      BY <3>1 DEF Guarded
    <3>3. /\ g.stmts[1] = u.of /\ g.folds = Final.folds
          /\ relations_named(g) = relations_named(Final)
          /\ functions_called(g) = functions_called(Final)
          /\ RelationsIn(g.stmts[1]) = RelationsIn(u)
          /\ FunctionsIn(g.stmts[1], {"call"}) = FunctionsIn(u, {"call"})
      BY <1>2, <2>3, ExplainedText
    <3>4. \A f \in FunctionsIn(u, {"call"}) : Lower(f.name) \in functions_called(Final)
      BY <1>2, AcceptedFunctions
    <3> HIDE DEF g
    <3> QED
      BY <2>1, <3>1, <3>2, <3>3, <3>4
  <2>4. CASE u.kind = "show"
    <3>1. Nodes(u, "factor") = {} /\ Nodes(u, "expr") = {} /\ Nodes(u, "body") = {}
      BY <1>3, <2>4, ShowIsBare
    <3>2. RelationsIn(u) = {} /\ FunctionsIn(u, {"call"}) = {}
      BY <3>1 DEF RelationsIn, FunctionsIn
    <3>3. relations_named(Final) = {}
      BY <3>1 DEF relations_named
    <3> QED
      BY <2>1, <3>2, <3>3
  <2> QED
    BY <2>2, <2>3, <2>4
<1> QED
  BY <1>5, <1>6

\* What runs tells of nothing outside.
LEMMA RunIsInside ==
  ASSUME CallInv, Runs, active(cfg)
  PROVE  /\ NamedOutside(Statement) = {}
         /\ \A r \in Reaches(Statement, {"call"}) :
              permitted_in(cfg, r) \/ \E parent \in Parent(r) : permitted_in(cfg, parent)
<1>1. CASE /\ guarded # {}
           /\ relations_named(Statement) \subseteq relations_named(Guarded)
           /\ RelationsIn(Statement.stmts[1]) \subseteq RelationsIn(Guarded.stmts[1])
           /\ FunctionsIn(Statement.stmts[1], {"call"}) \subseteq FunctionsIn(Guarded.stmts[1], {"call"})
           /\ Statement.folds = Guarded.folds
           /\ \A f \in FunctionsIn(Guarded.stmts[1], {"call"}) : Lower(f.name) \in functions_called(Guarded)
  <2>1. /\ plan \in Plans(Guarded) /\ NamedOutside(Guarded) = {}
        /\ ~FunctionsOutside(Guarded) /\ Outside(Parents) = {}
    BY <1>1 DEF CallInv, Judged, Runs
  <2>2. NamedOutside(Statement) = {} /\ Reaches(Statement, {"call"}) \subseteq Reaches(Guarded, {"call"})
    BY <1>1, <2>1, LessIsInside
  <2>3. \A r \in Reaches(Guarded, {"call"}) :
          permitted_in(cfg, r) \/ \E parent \in Parent(r) : permitted_in(cfg, parent)
    BY <1>1, <2>1, PlanTellsAll
  <2> QED
    BY <2>2, <2>3
<1>2. CASE /\ relations_named(Statement) = {}
           /\ RelationsIn(Statement.stmts[1]) = {} /\ FunctionsIn(Statement.stmts[1], {"call"}) = {}
  <2>1. NamedOutside(Statement) = {}
    BY <1>2 DEF NamedOutside, refused_in
  <2>2. Reaches(Statement, {"call"}) = {}
    BY <1>2 DEF Reaches
  <2> QED
    BY <2>1, <2>2
<1> QED
  BY <1>1, <1>2, GuardSawIt

LEMMA InsideStays ==
  ASSUME CallInv, AnswersInside, [Next]_vars
  PROVE  AnswersInside'
<1>1. ASSUME UNCHANGED <<cfg, call, final>>
      PROVE  /\ NamedOutside(Statement)' = NamedOutside(Statement)
             /\ Reaches(Statement, {"call"})' = Reaches(Statement, {"call"})
  <2>1. Statement' = Statement
    BY <1>1, TextsStay
  <2>2. NamedOutside(Statement)' = NamedOutside(Statement)
    BY <1>1, <2>1 DEF NamedOutside
  <2>3. Reaches(Statement, {"call"})' = Reaches(Statement, {"call"})
    BY <1>1, <2>1 DEF Reaches
  <2> QED
    BY <2>2, <2>3
<1>2. CASE Runs
  <2>1. UNCHANGED <<cfg, call, final>>
    BY <1>2 DEF Runs
  <2> QED
    BY <1>1, <1>2, <2>1, RunIsInside DEF AnswersInside
<1>3. CASE UNCHANGED vars
  BY <1>1, <1>3 DEF AnswersInside, vars
<1>4. CASE Catalog \/ CatalogFails \/ Overview \/ ListResources
  <2>1. /\ Error.kind = "error" /\ \A rels : Shown(rels).kind = "list"
    BY DEF Error, Shown
  <2>2. CASE Catalog \/ CatalogFails
    BY <2>1, <2>2 DEF AnswersInside, Catalog, CatalogFails, Returns
  <2>3. CASE Overview
    BY <2>1, <2>3 DEF AnswersInside, Overview, Returns
  <2>4. CASE ListResources
    BY <2>1, <2>4 DEF AnswersInside, ListResources, Returns
  <2> QED
    BY <1>4, <2>2, <2>3, <2>4
<1>5. CASE Next /\ ~Runs /\ ~Catalog /\ ~CatalogFails /\ ~Overview /\ ~ListResources
  <2>1. answer' = NoAnswer \/ answer' = Error
    BY <1>5, NothingTold
  <2> QED
    BY <2>1 DEF AnswersInside, NoAnswer, Error
<1> QED
  BY <1>2, <1>3, <1>4, <1>5

\* The catalogue tools tell of nothing hidden.
LEMMA HiddenStays ==
  ASSUME CallInv, HiddenNotDescribed, [Next]_vars
  PROVE  HiddenNotDescribed'
<1>1. UNCHANGED <<cfg, call>>
  BY CallStays
<1>2. CASE UNCHANGED vars
  BY <1>2 DEF HiddenNotDescribed, vars
<1>3. CASE Catalog
  <2>1. stage = "catalog" /\ call.tool \in Named
    BY <1>3 DEF Catalog, CallInv, Visible
  <2>2. CASE call.tool = "list_tables"
    <3>1. answer' = Shown(filter_visible_rows(InSchema))
      BY <1>3, <2>2 DEF Catalog, Returns
    <3> QED
      BY <1>1, <3>1 DEF HiddenNotDescribed, Shown, filter_visible_rows
  <2>3. CASE call.tool = "analyze_indexes"
    <3>1. answer' = Shown(InSchema)
      BY <1>3, <2>3 DEF Catalog, Returns
    <3> QED
      BY <1>1, <2>3, <3>1 DEF HiddenNotDescribed, Shown
  <2>4. CASE call.tool \in {"describe_table", "resources/read"}
    <3>1. relation_visible(cfg, call.rel)
      BY <2>1, <2>4 DEF CallInv, Visible, Hidden
    <3>2. answer' = Shown({call.rel} \cup References(call.rel)) \/ answer' = Error
      BY <1>3, <2>4 DEF Catalog, Returns
    <3>3. relation_visible(cfg, call.rel)'
      BY <1>1, <3>1 DEF relation_visible, active, permitted_in, catalog_allowed
    <3>4. CASE answer' = Error
      BY <3>4 DEF HiddenNotDescribed, Error
    <3>5. CASE answer' = Shown({call.rel} \cup References(call.rel))
      <4>1. /\ answer'.kind = "list" /\ answer'.shown = {call.rel} \cup References(call.rel)
        BY <3>5 DEF Shown
      <4>2. UNCHANGED References(call.rel)
        BY <1>1
      <4> QED
        BY <1>1, <2>4, <3>3, <4>1, <4>2 DEF HiddenNotDescribed
    <3> QED
      BY <3>2, <3>4, <3>5
  <2> QED
    BY <2>1, <2>2, <2>3, <2>4 DEF Named
<1>4. CASE CatalogFails
  <2>1. answer' = Shown({}) \/ answer' = Error
    BY <1>4 DEF CatalogFails, Returns
  <2> QED
    BY <2>1 DEF HiddenNotDescribed, Shown, Error
<1>5. CASE Overview
  <2> DEFINE schemas == filter_visible_schemas({r[1] : r \in Relations})
  <2>1. \/ answer' = [kind |-> "schemas", shown |-> schemas]
        \/ answer' = Error
        \/ /\ call.tool \in {"security_posture", "database_health", "top_queries"}
           /\ \E rels : answer' = Shown(rels)
    BY <1>5 DEF Overview, Returns
  <2>2. ASSUME NEW s \in schemas, active(cfg)
        PROVE  \E p \in cfg.patterns : relation_visible(cfg, <<s, p[2]>>)
    <3>1. schema_visible(cfg, s)
      BY <2>2 DEF filter_visible_schemas
    <3>2. \A p \in cfg.patterns : p = <<p[1], p[2]>> /\ Lower(p[2]) = p[2]
      BY ConfigsAssumption DEF CallInv, TypeOK
    <3>3. CASE Lower(s) \in Catalogs
      <4>1. catalog_allowed(cfg)
        BY <2>2, <3>1, <3>3 DEF schema_visible
      <4>2. PICK p \in cfg.patterns : TRUE
        BY <2>2 DEF active
      <4>3. permitted_in(cfg, <<s, p[2]>>)
        BY <3>3, <4>1 DEF permitted_in
      <4> QED
        BY <4>2, <4>3 DEF relation_visible
    <3>4. CASE Lower(s) \notin Catalogs
      <4>1. PICK p \in cfg.patterns : p[1] = Lower(s)
        BY <2>2, <3>1, <3>4 DEF schema_visible
      <4>2. <<Lower(s), Lower(p[2])>> \in cfg.patterns
        BY <3>2, <4>1
      <4>3. permitted_in(cfg, <<s, p[2]>>)
        BY <3>4, <4>2 DEF permitted_in
      <4> QED
        BY <4>1, <4>3 DEF relation_visible
    <3> QED
      BY <3>3, <3>4
  <2> HIDE DEF schemas
  <2>3. active(cfg)' <=> active(cfg)
    BY <1>1 DEF active
  <2> QED
    BY <1>1, <2>1, <2>2, <2>3 DEF HiddenNotDescribed, Shown, Error
<1>6. CASE ListResources
  <2>1. call.tool = "resources/list"
        /\ (answer' = Error \/ \E rels : answer' = Shown(rels))
    BY <1>6 DEF ListResources, Returns
  <2> QED
    BY <1>1, <2>1 DEF HiddenNotDescribed, Shown, Error
<1>7. CASE Runs
  <2>1. answer'.kind \in {"rows", "plan"}
    BY <1>7 DEF Runs, mark_truncation
  <2> QED
    BY <2>1 DEF HiddenNotDescribed
<1>8. CASE Next /\ ~Runs /\ ~Catalog /\ ~CatalogFails /\ ~Overview /\ ~ListResources
  <2>1. answer' = NoAnswer \/ answer' = Error
    BY <1>8, NothingTold
  <2> QED
    BY <2>1 DEF HiddenNotDescribed, NoAnswer, Error
<1> QED
  BY <1>2, <1>3, <1>4, <1>5, <1>6, <1>7, <1>8

\* Under a surface nothing outside it is told of by what a statement reads, be it through
\* a view, a function it is seen to call or an EXPLAIN, nor by the catalogue tools that ask
\* the surface, but for what the foreign keys of a visible table refer to.
THEOREM SurfaceAlwaysHolds == Spec => []SurfaceHolds
<1>1. Init => SurfaceHolds
  BY DEF Init, SurfaceHolds, AnswersInside, HiddenNotDescribed, NoAnswer
<1>2. CallInv /\ SurfaceHolds /\ [Next]_vars => SurfaceHolds'
  BY InsideStays, HiddenStays DEF SurfaceHolds
<1> QED
  BY <1>1, <1>2, CallsAreInOrder, PTL DEF Spec

-----------------------------------------------------------------------------
(* The audit log.                                                          *)

\* What is said by one word, or by none.
LEMMA OneWord ==
  ASSUME NEW word
  PROVE  /\ <<>> \o <<word>> = <<word>> /\ Append(<<>>, word) = <<word>>
         /\ ToSet(<<word>>) = {word} /\ Len(<<word>>) = 1
         /\ <<>> \o <<>> = <<>> /\ ToSet(<<>>) = {} /\ Len(<<>>) = 0
<1>1. ToSet(<<word>>) = {word} /\ ToSet(<<>>) = {}
  BY DEF ToSet
<1>2. <<>> \o <<word>> = <<word>> /\ Append(<<>>, word) = <<word>> /\ <<>> \o <<>> = <<>>
  OBVIOUS
<1> QED
  BY <1>1, <1>2

\* The address of resources/read is recorded before; then one word more is said.
LEMMA OneWordMore ==
  ASSUME NEW first, NEW word
  PROVE  /\ ToSet(<<first>> \o <<word>>) = {first, word}
         /\ ToSet(<<first>> \o <<>>) = {first}
<1> DEFINE S == {first, word}
<1>1. <<first>> \in Seq(S) /\ <<word>> \in Seq(S) /\ <<>> \in Seq(S)
  OBVIOUS
<1>2. /\ Len(<<first>> \o <<word>>) = 2
      /\ (<<first>> \o <<word>>)[1] = first /\ (<<first>> \o <<word>>)[2] = word
  BY <1>1
<1>3. DOMAIN (<<first>> \o <<word>>) = {1, 2}
  <2>1. <<first>> \o <<word>> \in Seq(S)
    BY <1>1
  <2> QED
    BY <1>2, <2>1
<1>4. <<first>> \o <<>> = <<first>>
  BY <1>1
<1>5. ToSet(<<first>>) = {first}
  BY DEF ToSet
<1> QED
  BY <1>2, <1>3, <1>4, <1>5 DEF ToSet

\* What RecordTellsTruth says of the end of a call.
Truth(told, ans, ask, pl) ==
  LET answered == ans.kind # "error" IN
  /\ told = <<>> <=> Unrecorded
  /\ told = <<>> => ~answered /\ ask = {}
  /\ call.tool \notin {"resources/list", "resources/read"} /\ told # <<>> =>
       Len(told) = 1 /\ (told[1] = "allowed" <=> answered)
  /\ call.tool = "resources/list" =>
       /\ Len(told) = IF cfg.databases = 1 THEN 1 ELSE cfg.databases + 1
       /\ ~answered => told = <<"error">>
  /\ call.tool = "resources/read" /\ told # <<>> =>
       /\ told[1] = "allowed" /\ Len(told) = IF Hidden THEN 1 ELSE 2
       /\ answered <=> Len(told) = 2 /\ told[2] = "allowed"
  /\ ToSet(told) \cap Denials # {} => ~answered /\ \A a \in ask : a.how = "plan"
  /\ "denied_cost" \in ToSet(told) => Ceiling /\ pl.cost = "beyond"
  /\ "denied_surface" \in ToSet(told) => active(cfg)

LEMMA TruthIsTold ==
  ASSUME UNCHANGED <<cfg, call, final>>, Truth(records', answer', asked', plan')
  PROVE  RecordTellsTruth'
<1>1. (Unrecorded' <=> Unrecorded) /\ (Hidden' <=> Hidden) /\ (Ceiling' <=> Ceiling)
  <2>1. Hidden' <=> Hidden
    BY DEF Hidden
  <2>2. Ceiling' <=> Ceiling
    <3>1. Final' = Final
      BY TextsStay
    <3>2. is_row_query(Final)' <=> is_row_query(Final)
      BY <3>1 DEF is_row_query
    <3> QED
      BY <3>2 DEF Ceiling
  <2>3. IndexComplete' <=> IndexComplete
    BY DEF IndexComplete
  <2>4. Unrecorded' <=> Unrecorded
    BY <2>1, <2>3 DEF Unrecorded
  <2> QED
    BY <2>1, <2>2, <2>4
<1>2. active(cfg)' <=> active(cfg)
  BY DEF active
<1> QED
  BY <1>1, <1>2 DEF Truth, RecordTellsTruth

\* A call with nothing recorded.
LEMMA NothingIsTold ==
  ASSUME Unrecorded, call.tool # "resources/list", NEW ans, ans.kind = "error", NEW pl
  PROVE  Truth(<<>>, ans, {}, pl)
<1>1. ToSet(<<>>) = {} /\ Len(<<>>) = 0
  BY OneWord
<1> QED
  BY <1>1 DEF Truth

\* A call of one database tool, with one record.
LEMMA OneIsTold ==
  ASSUME ~Unrecorded, call.tool \notin {"resources/list", "resources/read"}, NEW word, NEW ans,
         NEW ask, NEW pl,
         word = "allowed" <=> ans.kind # "error",
         word \in Denials => \A a \in ask : a.how = "plan",
         word = "denied_cost" => Ceiling /\ pl.cost = "beyond",
         word = "denied_surface" => active(cfg)
  PROVE  Truth(<<word>>, ans, ask, pl)
<1>1. ToSet(<<word>>) = {word} /\ Len(<<word>>) = 1
  BY OneWord
<1>2. <<word>>[1] = word /\ <<word>> # <<>>
  OBVIOUS
<1>3. ToSet(<<word>>) \cap Denials # {} => ans.kind = "error" /\ \A a \in ask : a.how = "plan"
  BY <1>1 DEF Denials
<1> QED
  BY <1>1, <1>2, <1>3 DEF Truth

\* Past the questions about its arguments, a statement is recorded.
LEMMA PastIsRecorded ==
  ASSUME CallInv, stage \in Past
  PROVE  ~Unrecorded /\ call.tool \notin {"resources/list", "resources/read"}
<1>1. /\ call.tool \in Queries /\ "sql" \in call.given /\ final # {} /\ IndexComplete
  BY DEF CallInv, Proceeding, Past
<1> QED
  BY <1>1 DEF Unrecorded, Queries

\* The steps of query, explain_query and simulate_index.
LEMMA QueriesTellTruth ==
  ASSUME CallInv, stage' = "answered", UNCHANGED <<cfg, call, final>>,
         \/ Incomplete \/ Refuse \/ IncompleteIndex \/ CannotCap
         \/ GuardFails \/ GuardNames \/ GuardExplains \/ GuardFunctions \/ GuardVerdict
         \/ IndexHidden \/ RunFails \/ Runs
  PROVE  RecordTellsTruth'
<1> SUFFICES Truth(records', answer', asked', plan')
  BY TruthIsTold
<1>1. stage \in Working => call.tool \in Queries
  BY DEF CallInv, Proceeding
<1>2. \A a \in asked : stage # "answered" => a.how = "plan"
  BY DEF CallInv, Quiet
<1>3. stage # "answered" /\ call.tool # "resources/read" => records = <<>>
  BY DEF CallInv, Quiet
<1>4. \A word : <<>> \o <<word>> = <<word>> /\ Append(<<>>, word) = <<word>> /\ <<>> \o <<>> = <<>>
  BY OneWord, Zenon
<1>5. Error.kind = "error"
  BY DEF Error
<1>6. CASE Incomplete
  <2>1. /\ stage = "received" /\ call.tool \notin {"resources/list", "resources/read"}
        /\ answer' = Error /\ records' = records \o <<>> /\ UNCHANGED asked
    BY <1>6 DEF Incomplete, Returns, Queries
  <2>2. records = <<>> /\ asked = {}
    BY <2>1 DEF CallInv, Quiet
  <2>3. records' = <<>> /\ asked' = {}
    BY <1>4, <2>1, <2>2
  <2>4. Unrecorded
    BY <1>6 DEF Incomplete, Unrecorded
  <2> QED
    BY <1>5, <2>1, <2>3, <2>4, NothingIsTold
<1>7. CASE Refuse
  <2>1. /\ stage = "received" /\ call.tool \notin {"resources/list", "resources/read"}
        /\ answer' = Error /\ records' = records \o <<"denied_validation">> /\ UNCHANGED asked
    BY <1>7 DEF Refuse, Returns, Queries
  <2>2. records' = <<"denied_validation">>
    BY <1>3, <1>4, <2>1
  <2>3. final = {}
    BY <2>1 DEF CallInv, Proceeding
  <2>4. ~Unrecorded
    BY <1>7, <2>3 DEF Refuse, Unrecorded, Queries
  <2> QED
    BY <1>2, <1>5, <2>1, <2>2, <2>4, OneIsTold
<1>8. CASE IncompleteIndex
  <2>1. /\ stage = "accepted" /\ call.tool \notin {"resources/list", "resources/read"}
        /\ answer' = Error /\ records' = records \o <<>> /\ UNCHANGED asked
    BY <1>1, <1>8 DEF IncompleteIndex, Returns, Queries, Working
  <2>2. records = <<>> /\ asked = {}
    BY <2>1 DEF CallInv, Quiet
  <2>3. records' = <<>> /\ asked' = {}
    BY <1>4, <2>1, <2>2
  <2>4. Unrecorded
    <3>1. call.tool = "simulate_index" /\ ~IndexComplete
      BY <1>8 DEF IncompleteIndex, IndexComplete
    <3>2. final = final_sql
      BY <2>1 DEF CallInv, Proceeding, Working
    <3>3. final # {}
      BY <3>1, <3>2 DEF final_sql
    <3> QED
      BY <3>1, <3>3 DEF Unrecorded
  <2> QED
    BY <1>5, <2>1, <2>3, <2>4, NothingIsTold
<1>9. CASE CannotCap
  <2>1. /\ stage = "accepted" /\ final = {} /\ answer' = Error /\ UNCHANGED asked
        /\ records' = records \o (IF call.tool = "explain_query" THEN <<"denied_validation">>
                                  ELSE <<>>)
    BY <1>9 DEF CannotCap, Returns
  <2>2. records = <<>> /\ asked = {} /\ asked' = {}
    <3>1. call.tool # "resources/read"
      BY <1>1, <2>1 DEF Queries, Working
    <3> QED
      BY <1>3, <2>1, <3>1 DEF CallInv, Quiet
  <2>3. /\ call.tool \in {"query", "explain_query"} /\ validate_readonly(cfg, call.text)
        /\ "sql" \in call.given
    <3>1. /\ call.tool \in Queries /\ validate_readonly(cfg, call.text) /\ final = final_sql
          /\ "sql" \in call.given
      BY <2>1 DEF CallInv, Proceeding, Working
    <3>2. call.tool # "simulate_index"
      BY <2>1, <3>1 DEF final_sql
    <3> QED
      BY <3>1, <3>2 DEF Queries
  <2>4. CASE call.tool = "query"
    <3>1. Unrecorded
      BY <2>1, <2>3, <2>4 DEF Unrecorded
    <3>2. records' = <<>>
      BY <1>4, <2>1, <2>2, <2>4
    <3> QED
      BY <1>5, <2>1, <2>2, <2>4, <3>1, <3>2, NothingIsTold
  <2>5. CASE call.tool = "explain_query"
    <3>1. ~Unrecorded
      BY <2>1, <2>3, <2>5 DEF Unrecorded
    <3>2. records' = <<"denied_validation">>
      BY <1>4, <2>1, <2>2, <2>5
    <3> QED
      BY <1>5, <2>1, <2>2, <2>5, <3>1, <3>2, OneIsTold
  <2> QED
    BY <2>3, <2>4, <2>5
<1>10. CASE GuardFails \/ GuardNames \/ GuardFunctions \/ GuardVerdict \/ IndexHidden
  <2>1. /\ stage \in Past /\ answer' = Error /\ UNCHANGED asked
        /\ \E word \in {"error", "denied_surface", "denied_cost"} :
             /\ records' = records \o <<word>>
             /\ word = "denied_cost" => Ceiling /\ plan'.cost = "beyond"
             /\ word = "denied_surface" => active(cfg)
    <3>1. CASE GuardFails \/ GuardNames
      BY <3>1 DEF GuardFails, GuardNames, GuardRefuses, Returns, Past, Working
    <3>2. CASE GuardFunctions
      <4>1. stage = "functions" => active(cfg)
        BY DEF CallInv, Judged
      <4> QED
        BY <3>2, <4>1 DEF GuardFunctions, GuardRefuses, Returns, Asks, Past, Working
    <3>3. CASE GuardVerdict
      BY <3>3 DEF GuardVerdict, GuardRefuses, Returns, Past, Working
    <3>4. CASE IndexHidden
      BY <3>4 DEF IndexHidden, IndexOutside, Returns, Past, Working
    <3> QED
      BY <1>10, <3>1, <3>2, <3>3, <3>4
  <2>2. PICK word \in {"error", "denied_surface", "denied_cost"} :
          /\ records' = records \o <<word>>
          /\ word = "denied_cost" => Ceiling /\ plan'.cost = "beyond"
          /\ word = "denied_surface" => active(cfg)
    BY <2>1
  <2>3. ~Unrecorded /\ call.tool \notin {"resources/list", "resources/read"}
    BY <2>1, PastIsRecorded
  <2>4. records' = <<word>> /\ \A a \in asked' : a.how = "plan"
    BY <1>2, <1>3, <1>4, <2>1, <2>2, <2>3 DEF Past, Working
  <2>5. answer'.kind = "error"
    BY <1>5, <2>1
  <2> QED
    BY <2>2, <2>3, <2>4, <2>5, OneIsTold
<1>11. CASE (GuardExplains \/ RunFails) \/ Runs
  <2>1. /\ stage \in Past
        /\ \/ answer'.kind = "error" /\ records' = Append(records, "error")
           \/ answer'.kind # "error" /\ records' = Append(records, "allowed")
    <3>1. CASE GuardExplains
      BY <1>5, <3>1 DEF GuardExplains, Past, Working
    <3>2. CASE RunFails
      BY <1>5, <3>2 DEF RunFails, Past, Working
    <3>3. CASE Runs
      BY <3>3 DEF Runs, mark_truncation, Past, Working
    <3> QED
      BY <1>11, <3>1, <3>2, <3>3
  <2>2. ~Unrecorded /\ call.tool \notin {"resources/list", "resources/read"}
    BY <2>1, PastIsRecorded
  <2>3. records = <<>>
    BY <1>3, <2>1, <2>2 DEF Past, Working
  <2>4. CASE answer'.kind = "error" /\ records' = Append(records, "error")
    <3>1. records' = <<"error">>
      BY <1>4, <2>3, <2>4
    <3> QED
      BY <2>2, <2>4, <3>1, OneIsTold DEF Denials
  <2>5. CASE answer'.kind # "error" /\ records' = Append(records, "allowed")
    <3>1. records' = <<"allowed">>
      BY <1>4, <2>3, <2>5
    <3> QED
      BY <2>2, <2>5, <3>1, OneIsTold DEF Denials
  <2> QED
    BY <2>1, <2>4, <2>5
<1> QED
  BY <1>6, <1>7, <1>8, <1>9, <1>10, <1>11

\* resources/read: its first record is a word of the call, its last of the outcome.
LEMMA ReadTellsTruth ==
  ASSUME CallInv, stage' = "answered", UNCHANGED <<cfg, call, final>>,
         call.tool = "resources/read",
         ReadResource \/ Describe \/ SchemaMissing \/ Catalog \/ CatalogFails
  PROVE  RecordTellsTruth'
<1> SUFFICES Truth(records', answer', asked', plan')
  BY TruthIsTold
<1>1. asked = {}
  BY DEF CallInv, Quiet, ReadResource, Describe, SchemaMissing, Catalog, CatalogFails
<1>2. Error.kind = "error" /\ \A rels : Shown(rels).kind = "list"
  BY DEF Error, Shown
<1>3. CASE ReadResource
  <2>1. /\ stage = "received" /\ "table" \notin call.given
        /\ answer' = Error /\ records' = records \o <<>> /\ UNCHANGED asked
    BY <1>3 DEF ReadResource, Returns
  <2>2. records = <<>>
    BY <2>1 DEF CallInv, Quiet
  <2>3. records' = <<>>
    BY <2>1, <2>2, OneWord
  <2>4. Unrecorded
    BY <2>1 DEF Unrecorded
  <2> QED
    BY <1>1, <1>2, <2>1, <2>3, <2>4, NothingIsTold
<1>4. CASE Describe \/ SchemaMissing \/ Catalog \/ CatalogFails
  <2>1. /\ stage \in {"describe", "schema", "catalog"} /\ UNCHANGED asked
        /\ \/ Hidden /\ answer' = Error /\ records' = records \o <<>>
           \/ /\ stage \in {"schema", "catalog"}
              /\ \E word \in {"error", "allowed"} :
                   /\ records' = records \o <<word>>
                   /\ word = "allowed" <=> answer'.kind # "error"
    <3>1. CASE Describe
      BY <3>1 DEF Describe, Returns, Asks
    <3>2. CASE SchemaMissing
      BY <1>2, <3>2 DEF SchemaMissing, Returns, Asks
    <3>3. CASE Catalog
      BY <1>2, <3>3 DEF Catalog, Returns
    <3>4. CASE CatalogFails
      BY <1>2, <3>4 DEF CatalogFails, Returns
    <3> QED
      BY <1>4, <3>1, <3>2, <3>3, <3>4
  <2>2. records = <<"allowed">>
    BY <2>1 DEF CallInv, Quiet
  <2>3. "table" \in call.given /\ (stage \in {"schema", "catalog"} => ~Hidden)
    BY <2>1 DEF CallInv, Visible
  <2>4. ~Unrecorded
    BY <2>3 DEF Unrecorded, Queries
  <2>5. asked' = {}
    BY <1>1, <2>1
  <2>6. CASE Hidden /\ answer' = Error /\ records' = records \o <<>>
    <3>1. records' = <<"allowed">>
      BY <2>2, <2>6
    <3>2. ToSet(records') = {"allowed"} /\ Len(records') = 1 /\ records'[1] = "allowed"
      BY <3>1, OneWord
    <3>3. records' # <<>>
      BY <3>1
    <3> QED
      BY <1>2, <2>4, <2>5, <2>6, <3>2, <3>3 DEF Truth, Denials
  <2>7. ASSUME NEW word \in {"error", "allowed"}, stage \in {"schema", "catalog"},
               records' = records \o <<word>>, word = "allowed" <=> answer'.kind # "error"
        PROVE  Truth(records', answer', asked', plan')
    <3>1. records' = <<"allowed">> \o <<word>>
      BY <2>2, <2>7
    <3>2. ToSet(records') = {"allowed", word}
      BY <3>1, OneWordMore
    <3>3. Len(records') = 2 /\ records'[1] = "allowed" /\ records'[2] = word /\ records' # <<>>
      BY <3>1
    <3>4. ~Hidden
      BY <2>3, <2>7
    <3> QED
      BY <2>4, <2>5, <2>7, <3>2, <3>3, <3>4 DEF Truth, Denials
  <2> QED
    BY <2>1, <2>6, <2>7
<1> QED
  BY <1>3, <1>4

\* The other tools of the catalogue.
LEMMA CatalogTellsTruth ==
  ASSUME CallInv, stage' = "answered", UNCHANGED <<cfg, call, final>>,
         call.tool # "resources/read",
         Describe \/ SchemaMissing \/ Catalog \/ CatalogFails \/ Overview
  PROVE  RecordTellsTruth'
<1> SUFFICES Truth(records', answer', asked', plan')
  BY TruthIsTold
<1>1. stage # "answered" /\ records = <<>> /\ asked = {}
  BY DEF CallInv, Quiet, Describe, SchemaMissing, Catalog, CatalogFails, Overview
<1>2. /\ Error.kind = "error" /\ \A rels : Shown(rels).kind = "list"
  BY DEF Error, Shown
<1>3. CASE Describe
  <2>1. /\ answer' = Error /\ records' = records \o <<>> /\ UNCHANGED asked
        /\ Hidden /\ (stage = "describe" \/ call.tool = "describe_table")
    BY <1>3 DEF Describe, Returns, Asks
  <2>2. call.tool = "describe_table"
    BY <2>1 DEF CallInv, Visible
  <2>3. records' = <<>> /\ asked' = {}
    BY <1>1, <2>1, OneWord
  <2>4. Unrecorded
    BY <2>1, <2>2 DEF Unrecorded
  <2> QED
    BY <1>2, <2>1, <2>2, <2>3, <2>4, NothingIsTold
<1>4. CASE SchemaMissing \/ Catalog \/ CatalogFails \/ Overview
  <2>1. /\ UNCHANGED asked
        /\ \/ answer'.kind = "error" /\ records' = records \o <<"error">>
           \/ answer'.kind # "error" /\ records' = records \o <<"allowed">>
    <3>1. CASE SchemaMissing
      BY <1>2, <3>1 DEF SchemaMissing, Returns, Asks
    <3>2. CASE Catalog
      BY <1>2, <3>2 DEF Catalog, Returns
    <3>3. CASE CatalogFails
      BY <1>2, <3>3 DEF CatalogFails, Returns
    <3>4. CASE Overview
      BY <1>2, <3>4 DEF Overview, Returns
    <3> QED
      BY <1>4, <3>1, <3>2, <3>3, <3>4
  <2>2. ~Unrecorded /\ call.tool \notin {"resources/list", "resources/read"}
    <3>1. CASE SchemaMissing \/ Catalog \/ CatalogFails
      <4>1. stage \in {"schema", "catalog"}
        BY <3>1 DEF SchemaMissing, Catalog, CatalogFails
      <4>2. /\ call.tool \in Named
            /\ call.tool = "describe_table" => "table" \in call.given /\ ~Hidden
        BY <4>1 DEF CallInv, Visible
      <4> QED
        BY <4>2 DEF Unrecorded, Named, Queries
    <3>2. CASE Overview
      <4>1. call.tool \in {"list_schemas", "security_posture", "database_health", "top_queries"}
        BY <3>2 DEF Overview
      <4> QED
        BY <4>1 DEF Unrecorded, Queries
    <3> QED
      BY <1>4, <3>1, <3>2
  <2>3. CASE answer'.kind = "error" /\ records' = records \o <<"error">>
    <3>1. records' = <<"error">>
      BY <1>1, <2>3, OneWord
    <3> QED
      BY <2>2, <2>3, <3>1, OneIsTold DEF Denials
  <2>4. CASE answer'.kind # "error" /\ records' = records \o <<"allowed">>
    <3>1. records' = <<"allowed">>
      BY <1>1, <2>4, OneWord
    <3> QED
      BY <2>2, <2>4, <3>1, OneIsTold DEF Denials
  <2> QED
    BY <2>1, <2>3, <2>4
<1> QED
  BY <1>3, <1>4

\* resources/list: each database is recorded with its own outcome.
LEMMA ListTellsTruth ==
  ASSUME CallInv, UNCHANGED <<cfg, call, final>>, ListResources
  PROVE  RecordTellsTruth'
<1> SUFFICES Truth(records', answer', asked', plan')
  BY TruthIsTold
<1>1. stage = "received" /\ call.tool = "resources/list" /\ UNCHANGED asked
  BY DEF ListResources, Returns
<1>2. records = <<>> /\ ~Unrecorded
  BY <1>1 DEF CallInv, Quiet, Unrecorded, Queries
<1>3. cfg.databases \in Nat \ {0}
  BY ConfigsAssumption DEF CallInv, TypeOK
<1>4. PICK outcome \in [1..cfg.databases -> {"answers", "unreachable", "fails"}] :
        LET one == cfg.databases = 1
            each == [i \in DOMAIN outcome |-> ResourcesOf(outcome[i])]
            some == \E i \in DOMAIN outcome : outcome[i] = "answers"
        IN  /\ records' = records \o (IF one THEN each ELSE Append(each, "allowed"))
            /\ answer' = IF one /\ outcome[1] = "fails" THEN Error
                         ELSE Shown(IF some THEN Relations ELSE {})
  BY DEF ListResources, Returns
<1> DEFINE each == [i \in 1..cfg.databases |-> ResourcesOf(outcome[i])]
           words == {"allowed", "degraded", "error"}
<1>5. each \in Seq(words) /\ Len(each) = cfg.databases
  <2>1. \A i \in 1..cfg.databases : ResourcesOf(outcome[i]) \in words
    BY DEF ResourcesOf
  <2> QED
    BY <1>3, <2>1
<1>6. DOMAIN outcome = 1..cfg.databases
  OBVIOUS
<1>7. Error.kind = "error" /\ \A rels : Shown(rels).kind = "list"
  BY DEF Error, Shown
<1>8. ASSUME records' \in Seq(words),
             Len(records') = IF cfg.databases = 1 THEN 1 ELSE cfg.databases + 1,
             answer'.kind = "error" => records' = <<"error">>
      PROVE  Truth(records', answer', asked', plan')
  <2>1. ToSet(records') \subseteq words
    BY <1>8 DEF ToSet
  <2>2. records' # <<>>
    BY <1>3, <1>8
  <2>3. ToSet(records') \cap Denials = {}
    BY <2>1 DEF Denials
  <2>4. "denied_cost" \notin ToSet(records') /\ "denied_surface" \notin ToSet(records')
    BY <2>1
  <2> HIDE DEF words
  <2> QED
    BY <1>1, <1>2, <1>8, <2>2, <2>3, <2>4 DEF Truth
<1>9. CASE cfg.databases = 1
  <2>1. each[1] = ResourcesOf(outcome[1]) /\ outcome[1] \in {"answers", "unreachable", "fails"}
    BY <1>9
  <2>2. records' = each
    <3>1. records' = <<>> \o each
      BY <1>2, <1>4, <1>6, <1>9
    <3> HIDE DEF each
    <3> QED
      BY <1>5, <3>1
  <2>3. answer'.kind = "error" => records' = <<"error">>
    <3>1. CASE outcome[1] = "fails"
      <4>1. each[1] = "error" /\ Len(each) = 1
        BY <1>5, <1>9, <2>1, <3>1 DEF ResourcesOf
      <4> HIDE DEF each
      <4> QED
        BY <1>5, <2>2, <4>1
    <3>2. CASE outcome[1] # "fails"
      <4>1. \E rels : answer' = Shown(rels)
        BY <1>4, <1>9, <3>2
      <4> QED
        BY <1>7, <4>1
    <3> QED
      BY <3>1, <3>2
  <2> HIDE DEF each
  <2> QED
    BY <1>5, <1>8, <1>9, <2>2, <2>3
<1>10. CASE cfg.databases # 1
  <2>1. records' = Append(each, "allowed")
    <3>1. records' = <<>> \o Append(each, "allowed")
      BY <1>2, <1>4, <1>6, <1>10
    <3> HIDE DEF each
    <3> QED
      BY <1>5, <3>1
  <2>2. records' \in Seq(words) /\ Len(records') = cfg.databases + 1
    <3> HIDE DEF each
    <3> QED
      BY <1>5, <2>1
  <2>3. answer'.kind # "error"
    <3>1. \E rels : answer' = Shown(rels)
      BY <1>4, <1>10
    <3> QED
      BY <1>7, <3>1
  <2> HIDE DEF each, words
  <2> QED
    BY <1>8, <1>10, <2>2, <2>3
<1> QED
  BY <1>9, <1>10

LEMMA RecordStays ==
  ASSUME CallInv, RecordTellsTruth, [Next]_vars
  PROVE  RecordTellsTruth'
<1>1. UNCHANGED <<cfg, call>> /\ (stage # "received" => UNCHANGED final)
  BY CallStays
<1>2. CASE UNCHANGED vars
  <2>1. UNCHANGED <<cfg, call, final, stage, records, answer, asked, plan>>
    BY <1>2 DEF vars
  <2>2. ~(stage = "answered") \/ Truth(records, answer, asked, plan)
    BY DEF RecordTellsTruth, Truth
  <2>3. CASE stage = "answered"
    <3>1. Truth(records', answer', asked', plan')
      BY <2>1, <2>2, <2>3
    <3> QED
      BY <2>1, <3>1, TruthIsTold
  <2> QED
    BY <2>1, <2>3 DEF RecordTellsTruth
<1>3. CASE Next /\ stage' = "answered"
  <2>0. UNCHANGED final
    <3>1. Accept => stage' # "answered"
      BY DEF Accept
    <3> QED
      BY <1>1, <1>3, <3>1
         DEF Next, Incomplete, Refuse, IncompleteIndex, CannotCap, Proceed, GuardFails,
             GuardNames, GuardExplains, GuardFunctions, GuardVerdict, GuardRefuses, IndexHidden,
             RunFails, Runs, ReadResource, Describe, List, SchemaMissing, Catalog, CatalogFails,
             Overview, ListResources, Returns, Asks
  <2>1. CASE \/ Incomplete \/ Refuse \/ IncompleteIndex \/ CannotCap
             \/ GuardFails \/ GuardNames \/ GuardExplains \/ GuardFunctions \/ GuardVerdict
             \/ IndexHidden \/ RunFails \/ Runs
    BY <1>1, <1>3, <2>0, <2>1, QueriesTellTruth
  <2>2. CASE ListResources
    BY <1>1, <2>0, <2>2, ListTellsTruth
  <2>3. CASE ReadResource
    BY <1>1, <1>3, <2>0, <2>3, ReadTellsTruth DEF ReadResource
  <2>4. CASE Describe \/ SchemaMissing \/ Catalog \/ CatalogFails
    BY <1>1, <1>3, <2>0, <2>4, ReadTellsTruth, CatalogTellsTruth
  <2>5. CASE Overview
    <3>1. call.tool # "resources/read"
      BY <2>5 DEF Overview
    <3> QED
      BY <1>1, <1>3, <2>0, <2>5, <3>1, CatalogTellsTruth
  <2>6. CASE Accept \/ Proceed \/ List
    BY <1>3, <2>6 DEF Accept, Proceed, List, Asks
  <2> QED
    BY <1>3, <2>1, <2>2, <2>3, <2>4, <2>5, <2>6 DEF Next
<1>4. CASE stage' # "answered"
  BY <1>4 DEF RecordTellsTruth
<1> QED
  BY <1>2, <1>3, <1>4

\* Every call but those without a record has exactly the records that tell its outcome,
\* and what was denied has not run. Those without are named, and got an error.
THEOREM RecordAlwaysTellsTruth == Spec => []RecordTellsTruth
<1>1. Init => RecordTellsTruth
  BY DEF Init, RecordTellsTruth
<1>2. CallInv /\ RecordTellsTruth /\ [Next]_vars => RecordTellsTruth'
  BY RecordStays
<1> QED
  BY <1>1, <1>2, CallsAreInOrder, PTL DEF Spec
=============================================================================
