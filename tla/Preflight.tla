------------------------------ MODULE Preflight ------------------------------
(***************************************************************************)
(* `preflight_config' of src/startup.rs: which environments the server     *)
(* refuses to start in, and what the code that reads a setting later makes *)
(* of it.                                                                   *)
(*                                                                         *)
(* An environment is a record with a field per check.  A value is a form:  *)
(* what the check and the readers can tell apart about the text.  A number *)
(* is "plain" or "zero"; "negative"; "fraction", as 1.5; "exponent", as    *)
(* 1e3; "huge", beyond u32; "inf" or "nan", which parse as floats;         *)
(* "padded", a plain number between blanks; a "word"; or "unset".          *)
(***************************************************************************)
EXTENDS Integers

NumberForms ==
  {"unset", "plain", "zero", "negative", "fraction", "exponent", "huge", "inf", "nan", "padded", "word"}

FloatVars == {"MCP_RATE_RPM", "MCP_RATE_RPM_STDIO", "MCP_RATE_BURST", "MCP_MAX_COST"}
CountVars == {"MCP_MAX_INFLIGHT_PER_CLIENT", "MCP_RESERVED_AUTH_SLOTS"}
NumberVars == FloatVars \cup CountVars

Environments ==
  [numbers : [NumberVars -> NumberForms],
   key_file : {"unset", "empty", "unreadable", "good"},
   pubkey : {"unset", "bad", "good"},
   aud_iss : BOOLEAN,                                  \* JWT_AUD and JWT_ISS both say something
   timeout : {"unset", "blank", "bad", "good"},
   files_good : BOOLEAN,                               \* password file, CA bundle and audit log, where set
   addr : {"unset", "bad", "good"},
   plaintext : BOOLEAN,                                \* sslmode=disable across an untrusted network
   plaintext_hatch : BOOLEAN,
   shared_token : BOOLEAN,                             \* metrics token = bearer token
   flag : {"unset", "0", "1", "padded", "other"},      \* MCP_TRUST_PROXY; padded is 1 between blanks
   search_path : {"unset", "good", "bad"},
   public_url : {"unset", "good", "bad"},
   unknown : SUBSET {"near", "far", "reserved"}]       \* MCP_* names nobody defined, by distance

-----------------------------------------------------------------------------
(* The checks.                                                               *)

\* Mistake: a limit below zero is let through, as before the matrix of
\* misconfigurations.
MistakeNegativePasses(v, form) ==
  CASE v = "MCP_RESERVED_AUTH_SLOTS" -> form \notin {"unset", "plain", "zero", "padded"}
    [] v = "MCP_RATE_RPM_STDIO" -> FALSE
    [] OTHER -> form = "word" \/ (form = "zero" /\ v = "MCP_MAX_COST")

\* The four numbers of the first check are parsed as floats after trimming;
\* the reserve has a check of its own, for a u32; and the rate of stdio has none.
NumberRefused(v, form) ==
  CASE v = "MCP_RESERVED_AUTH_SLOTS" -> form \notin {"unset", "plain", "zero", "padded"}
    [] v = "MCP_RATE_RPM_STDIO" -> FALSE
    [] OTHER -> form \in {"negative", "word"} \/ (form = "zero" /\ v = "MCP_MAX_COST")

\* Names under a prefix that is reserved for others are never looked at, and
\* of the rest only those within three edits of a name of ours are fatal.
classify_unknown(names) == [fatal |-> names \cap {"near"}, ignored |-> names \cap {"far"}]

fatal(env) ==
  {<<"number", v>> : v \in {x \in NumberVars : NumberRefused(x, env.numbers[x])}}
  \cup {p \in {"key_file", "pubkey", "aud_iss", "timeout", "files", "addr", "plaintext",
               "shared_token", "flag", "search_path", "public_url", "unknown"} :
         \/ p = "key_file" /\ env.key_file \in {"empty", "unreadable"}
         \/ p = "pubkey" /\ env.pubkey = "bad"
         \/ p = "aud_iss" /\ env.pubkey # "unset" /\ ~env.aud_iss
         \/ p = "timeout" /\ env.timeout \in {"blank", "bad"}
         \/ p = "files" /\ ~env.files_good
         \/ p = "addr" /\ env.addr = "bad"
         \/ p = "plaintext" /\ env.plaintext /\ ~env.plaintext_hatch
         \/ p = "shared_token" /\ env.shared_token
         \/ p = "flag" /\ env.flag = "other"
         \/ p = "search_path" /\ env.search_path = "bad"
         \/ p = "public_url" /\ env.public_url = "bad"
         \/ p = "unknown" /\ classify_unknown(env.unknown).fatal # {}}

-----------------------------------------------------------------------------
(* The readers: the text is parsed again at each use, without trimming, and  *)
(* what does not parse is the default.                                       *)

Parses(v, form) ==
  CASE v \in FloatVars -> form \notin {"unset", "padded", "word"}
    [] v = "MCP_MAX_INFLIGHT_PER_CLIENT" -> form \in {"plain", "zero"}             \* u32
    [] v = "MCP_RESERVED_AUTH_SLOTS" -> form \in {"plain", "zero", "huge"}         \* usize

InForce(v, form) == IF Parses(v, form) THEN form ELSE "unset"

Rate(env, transport) ==
  LET v == IF transport = "stdio" THEN "MCP_RATE_RPM_STDIO" ELSE "MCP_RATE_RPM"
  IN  InForce(v, env.numbers[v])

Burst(env) == InForce("MCP_RATE_BURST", env.numbers["MCP_RATE_BURST"])

\* No request is ever refused for its rate: the rate is not above zero, or the bucket is
\* always full. That is so for a rate without end, for one that is no number, since
\* NaN.min(cap) is cap, and for a burst without end; but not if the bucket holds nothing.
LimiterOff(env, transport) ==
  \/ Rate(env, transport) \in {"zero", "negative"}
  \/ /\ Rate(env, transport) \in {"nan", "inf"} \/ Burst(env) = "inf"
     /\ Burst(env) \notin {"zero", "negative", "nan"}
=============================================================================
