----------------------------- MODULE StartPolicy -----------------------------
(***************************************************************************)
(* The start of the server: preflight, startup record, the start policy    *)
(* with its retry thread, the posture record, the verification of redacted *)
(* columns, and the listener (src/main.rs, src/posture.rs, src/startup.rs, *)
(* the first checks of mcp_handler).                                        *)
(*                                                                         *)
(* Threads: "main", "retry" (spawned when the database does not answer),   *)
(* "poster" (audit_posture) and "verifier".  The first three run `evaluate' *)
(* and ask the database three questions, one after the other.  Databases   *)
(* come and go, and their owner may change the role meanwhile.             *)
(***************************************************************************)
EXTENDS Preflight, FiniteSets

CONSTANTS
  Databases,      \* the configured databases
  Configs,        \* the configurations to start in
  MaxChanges      \* bound: changes of the role, and times a database goes away

Config ==
  [transport : {"stdio", "http"}, loopback : BOOLEAN, auth : {"none", "token", "oauth"},
   platform : BOOLEAN,                    \* two markers of the platform are set
   anonymous : BOOLEAN, excessive : BOOLEAN,             \* the two escape hatches
   redact : {"off", "advise", "require"}, audit : {"stderr", "plain", "keyed"},
   public_url : BOOLEAN, tls : {"on", "local", "off"}, env : Environments]

ASSUME StartAssumption ==
  /\ IsFiniteSet(Databases) /\ Databases # {}
  /\ Configs \subseteq Config
  /\ MaxChanges \in Nat

Facets == {"attribute", "membership", "write"}   \* ways to be more than a reader
Facts == [found : SUBSET Facets, sampled : BOOLEAN]
NoFacts == [found |-> {}, sampled |-> FALSE]
Checkers == {"main", "retry", "poster"}

VARIABLES
  cfg,          \* the configuration
  pc,           \* where each thread is
  seen,         \* what each checker's evaluate has found so far
  FACTS,        \* what the start policy learnt: at most one Facts
  PENDING,      \* nothing is served until it has
  todo,         \* the databases the verifier has not asked yet
  exposed,      \* those it found exposing a redacted column
  code,         \* the exit code, 0 while the process runs
  grade,        \* the grade in the posture record
  up,           \* the databases that answer
  role,         \* what the role may do beyond reading
  big,          \* more relations than the write check examines
  exposes,      \* the databases where the role reads a redacted column
  changes,      \* changes by others so far
  answered,     \* history: the databases the verifier got an answer from
  altered       \* history: the role was altered after the process started

process == <<cfg, pc, seen, FACTS, PENDING, todo, exposed, code, grade>>
world == <<up, role, big, exposes, changes>>
vars == <<process, world, answered, altered>>

Init ==
  /\ cfg \in Configs
  /\ pc = [main |-> "preflight", retry |-> "off", poster |-> "off", verifier |-> "off"]
  /\ seen = [t \in Checkers |-> NoFacts]
  /\ FACTS = {} /\ PENDING = FALSE
  /\ todo = {} /\ exposed = {}
  /\ code = 0 /\ grade = "none"
  /\ up \in SUBSET Databases
  /\ role \in {{}} \cup {{f} : f \in Facets}
  /\ big \in BOOLEAN
  /\ exposes \in (IF cfg.redact = "off" THEN {{}} ELSE SUBSET Databases)
  /\ changes = 0
  /\ answered = {} /\ altered = FALSE

Running == code = 0
Goto(t, place) == pc' = [pc EXCEPT ![t] = place]
Exit(n) == code' = n /\ UNCHANGED <<pc, PENDING>>

-----------------------------------------------------------------------------
(* evaluate: three queries, any of which may fail.                           *)

Questions == {"attributes", "memberships", "writes"}
After == [attributes |-> "memberships", memberships |-> "writes", writes |-> "decide"]

\* query_catalog(.., None): with several databases there is none to ask.
Reachable == Cardinality(Databases) = 1 /\ up = Databases

\* The write check looks at the first 5000 relations in no order: in a big
\* schema it may see what the role can write, or not.
Found(question) ==
  CASE question = "attributes" -> {role \cap {"attribute"}}
    [] question = "memberships" -> {role \cap {"membership"}}
    [] question = "writes" -> {role \cap {"write"}} \cup (IF big THEN {{}} ELSE {})

Ask(t) ==
  /\ Running /\ pc[t] \in Questions
  /\ \/ /\ Reachable
        /\ \E more \in Found(pc[t]) :
             seen' = [seen EXCEPT ![t].found = @ \cup more,
                                  ![t].sampled = @ \/ (pc[t] = "writes" /\ big)]
        /\ Goto(t, After[pc[t]])
     \/ /\ ~Reachable
        /\ Goto(t, "failed")
        /\ UNCHANGED seen
  /\ UNCHANGED <<cfg, FACTS, PENDING, todo, exposed, code, grade, world, answered, altered>>

excessive(f) == f.found # {} \/ f.sampled

\* Mistake: the escape hatch is read at the first check only.
MistakeNoHatch(f) == excessive(f)

Refused(f) == excessive(f) /\ ~cfg.excessive

-----------------------------------------------------------------------------
(* main, up to the listener.                                                 *)

CheckEnvironment ==
  /\ Running /\ pc["main"] = "preflight"
  /\ IF fatal(cfg.env) # {} THEN Exit(2) ELSE Goto("main", "record") /\ UNCHANGED <<PENDING, code>>
  /\ UNCHANGED <<cfg, seen, FACTS, todo, exposed, grade, world, answered, altered>>

\* audit_startup, the first record of the chain.
Record ==
  /\ Running /\ pc["main"] = "record"
  /\ Goto("main", "policy")
  /\ UNCHANGED <<cfg, seen, FACTS, PENDING, todo, exposed, code, grade, world, answered, altered>>

Exposed == cfg.transport = "http" /\ ~cfg.loopback
Authenticated == cfg.auth # "none"

\* enforce_start_policy, before it asks the database.
EnforceStartPolicy ==
  /\ Running /\ pc["main"] = "policy"
  /\ \/ ~Exposed /\ Goto("main", "spawn") /\ UNCHANGED <<PENDING, code>>
     \/ /\ Exposed /\ (Authenticated \/ cfg.platform \/ cfg.anonymous)
        /\ Goto("main", "attributes") /\ UNCHANGED <<PENDING, code>>
     \/ /\ Exposed /\ ~(Authenticated \/ cfg.platform \/ cfg.anonymous)
        /\ Exit(3)
  /\ UNCHANGED <<cfg, seen, FACTS, todo, exposed, grade, world, answered, altered>>

\* enforce_start_policy, Ok(facts).
RoleChecked ==
  /\ Running /\ pc["main"] = "decide"
  /\ FACTS' = {seen["main"]}
  /\ IF Refused(seen["main"]) THEN Exit(3) ELSE Goto("main", "spawn") /\ UNCHANGED <<PENDING, code>>
  /\ UNCHANGED <<cfg, seen, todo, exposed, grade, world, answered, altered>>

\* enforce_start_policy, Err: hold serving and try again in the background.
RoleUnknown ==
  /\ Running /\ pc["main"] = "failed"
  /\ PENDING' = TRUE
  /\ pc' = [pc EXCEPT !["main"] = "spawn", !["retry"] = "sleep"]
  /\ UNCHANGED <<cfg, seen, FACTS, todo, exposed, code, grade, world, answered, altered>>

\* The posture thread, the verification thread, then the transport.
SpawnThreads ==
  /\ Running /\ pc["main"] = "spawn"
  /\ pc' = [pc EXCEPT !["main"] = "serving", !["poster"] = "attributes",
                      !["verifier"] = IF cfg.redact = "off" THEN "off" ELSE "asking"]
  /\ todo' = IF cfg.redact = "off" THEN {} ELSE Databases
  /\ UNCHANGED <<cfg, seen, FACTS, PENDING, exposed, code, grade, world, answered, altered>>

-----------------------------------------------------------------------------
(* The retry thread: every five seconds, until evaluate answers.             *)

RetryAgain ==
  /\ Running
  /\ \/ pc["retry"] = "sleep" /\ Goto("retry", "attributes") /\ seen' = [seen EXCEPT !["retry"] = NoFacts]
     \/ pc["retry"] = "failed" /\ Goto("retry", "sleep") /\ UNCHANGED seen
  /\ UNCHANGED <<cfg, FACTS, PENDING, todo, exposed, code, grade, world, answered, altered>>

\* Mistake: the flag is taken back before the role is judged.
MistakeServeFirst ==
  /\ Running /\ pc["retry"] = "decide"
  /\ PENDING' = FALSE
  /\ IF Refused(seen["retry"]) THEN code' = 3 /\ UNCHANGED <<FACTS, pc>>
                              ELSE Goto("retry", "release") /\ UNCHANGED <<FACTS, code>>
  /\ UNCHANGED <<cfg, seen, todo, exposed, grade, world, answered, altered>>

\* FACTS, and then PENDING: two locks, two steps.
RetryDecides ==
  /\ Running /\ pc["retry"] = "decide"
  /\ IF Refused(seen["retry"])
     THEN Exit(3) /\ UNCHANGED FACTS
     ELSE FACTS' = {seen["retry"]} /\ Goto("retry", "release") /\ UNCHANGED <<PENDING, code>>
  /\ UNCHANGED <<cfg, seen, todo, exposed, grade, world, answered, altered>>

\* Mistake: the flag is never taken back.
MistakeStaysPending ==
  /\ Running /\ pc["retry"] = "release"
  /\ Goto("retry", "done")
  /\ UNCHANGED <<cfg, seen, FACTS, PENDING, todo, exposed, code, grade, world, answered, altered>>

RetryReleases ==
  /\ Running /\ pc["retry"] = "release"
  /\ PENDING' = FALSE
  /\ Goto("retry", "done")
  /\ UNCHANGED <<cfg, seen, FACTS, todo, exposed, code, grade, world, answered, altered>>

-----------------------------------------------------------------------------
(* The posture record: report, reduced to its grade.                         *)

\* The worst severity of a set: 0 ok, 1 note, 2 warn, 3 critical.
Worst(severities) == CHOOSE s \in severities : \A x \in severities : x <= s
GradeOf == [s \in 0..3 |-> CASE s = 0 -> "A" [] s = 1 -> "B" [] s = 2 -> "C" [] s = 3 -> "F"]

\* Mistake: what could not be asked is left out instead of being a warning.
MistakeSilentRole(answer, facts) ==
  IF ~answer THEN {0} ELSE (IF excessive(facts) THEN {3} ELSE {0})

RoleFindings(answer, facts) ==
  IF ~answer THEN {2} ELSE (IF excessive(facts) THEN {3} ELSE {0}) \cup (IF facts.sampled THEN {1} ELSE {})

TransportFindings ==
  LET reachable == ~cfg.loopback IN
  (IF reachable /\ ~Authenticated THEN {3} ELSE {})
  \cup (IF Authenticated /\ ~cfg.public_url THEN {IF reachable THEN 2 ELSE 1} ELSE {})

RecordFindings ==
  (IF cfg.audit # "keyed" THEN {1} ELSE {}) \cup (IF cfg.redact # "off" THEN {1} ELSE {})

\* tls_fact asks the database again, and says nothing when that fails.
TlsFindings(answer) ==
  IF ~answer THEN {} ELSE IF cfg.tls # "off" THEN {0} ELSE {IF cfg.loopback THEN 1 ELSE 2}

report(answer, facts, tls) ==
  GradeOf[Worst(RoleFindings(answer, facts) \cup TransportFindings \cup RecordFindings \cup TlsFindings(tls))]

\* Where the thread ends tells what it was answered: of the role and the connection, of
\* the role only, or not even of that.
AuditPosture ==
  /\ Running /\ pc["poster"] \in {"decide", "failed"}
  /\ grade' = report(pc["poster"] = "decide", seen["poster"], Reachable)
  /\ Goto("poster", CASE pc["poster"] = "failed" -> "gave up"
                      [] pc["poster"] = "decide" /\ Reachable -> "done"
                      [] pc["poster"] = "decide" /\ ~Reachable -> "role only")
  /\ UNCHANGED <<cfg, seen, FACTS, PENDING, todo, exposed, code, world, answered, altered>>

-----------------------------------------------------------------------------
(* The verification of redacted columns, database by database.               *)

VerifyNext(d) ==
  /\ Running /\ pc["verifier"] = "asking" /\ d \in todo
  /\ todo' = todo \ {d}
  /\ IF d \in up
     THEN /\ answered' = answered \cup {d}
          /\ exposed' = exposed \cup ({d} \cap exposes)
     ELSE UNCHANGED <<answered, exposed>>      \* `else { continue }'
  /\ UNCHANGED <<cfg, pc, seen, FACTS, PENDING, code, grade, world, altered>>

\* Mistake: `require' warns as `advise' does.
MistakeOnlyWarns ==
  /\ Running /\ pc["verifier"] = "asking" /\ todo = {}
  /\ Goto("verifier", IF exposed = {} THEN "verified" ELSE "warned")
  /\ UNCHANGED <<cfg, seen, FACTS, PENDING, todo, exposed, code, grade, world, answered, altered>>

\* The claim that the columns cannot be read anywhere, the warning, or the end.
VerifyEnds ==
  /\ Running /\ pc["verifier"] = "asking" /\ todo = {}
  /\ \/ exposed = {} /\ Goto("verifier", "verified") /\ UNCHANGED <<PENDING, code>>
     \/ exposed # {} /\ cfg.redact = "require" /\ Exit(2)
     \/ exposed # {} /\ cfg.redact = "advise" /\ Goto("verifier", "warned") /\ UNCHANGED <<PENDING, code>>
  /\ UNCHANGED <<cfg, seen, FACTS, todo, exposed, grade, world, answered, altered>>

-----------------------------------------------------------------------------
(* Serving, and the world.                                                   *)

\* serving_blocked: on HTTP nothing that touches the database gets past PENDING.
Serves == Running /\ pc["main"] = "serving" /\ ~(cfg.transport = "http" /\ PENDING)

\* What happens after the exit concerns nobody.
GoesAway(d) ==
  /\ Running /\ d \in up /\ changes < MaxChanges
  /\ up' = up \ {d} /\ changes' = changes + 1
  /\ UNCHANGED <<process, role, big, exposes, answered, altered>>

ComesUp(d) ==
  /\ Running /\ d \notin up
  /\ up' = up \cup {d}
  /\ UNCHANGED <<process, role, big, exposes, changes, answered, altered>>

\* The owner of the database grants and revokes.
RoleAltered ==
  /\ Running /\ changes < MaxChanges
  /\ role' \in {{}} \cup {{f} : f \in Facets} /\ role' # role
  /\ changes' = changes + 1
  /\ altered' = TRUE
  /\ UNCHANGED <<process, up, big, exposes, answered>>

Starting == CheckEnvironment \/ Record \/ EnforceStartPolicy \/ RoleChecked \/ RoleUnknown \/ SpawnThreads
Retrying == RetryAgain \/ RetryDecides \/ RetryReleases
Verifying == VerifyEnds \/ \E d \in Databases : VerifyNext(d)

Next ==
  \/ Starting \/ Retrying \/ Verifying \/ AuditPosture
  \/ \E t \in Checkers : Ask(t)
  \/ \E d \in Databases : GoesAway(d) \/ ComesUp(d)
  \/ RoleAltered

\* Threads run on, and a database that is away comes back.
Fairness ==
  /\ WF_vars(Starting) /\ WF_vars(Retrying) /\ WF_vars(Verifying) /\ WF_vars(AuditPosture)
  /\ \A t \in Checkers : WF_vars(Ask(t))
  /\ \A d \in Databases : WF_vars(ComesUp(d))

Spec == Init /\ [][Next]_vars
FairSpec == Spec /\ Fairness

-----------------------------------------------------------------------------
(* Properties.                                                               *)

Places == {"off", "failed", "decide"} \cup Questions
MainPlaces == Places \cup {"preflight", "record", "policy", "spawn", "serving"}
RetryPlaces == Places \cup {"sleep", "release", "done"}
Graded == {"done", "role only"}
PosterPlaces == Places \cup Graded \cup {"gave up"}
VerifierPlaces == {"off", "asking", "verified", "warned"}
Grades == {"none", "A", "B", "C", "F"}

\* Types, which places each thread can be in, and that PENDING is set exactly
\* while the retry thread is at work.
TypeOK ==
  /\ cfg \in Configs
  /\ pc \in [main : MainPlaces, retry : RetryPlaces, poster : PosterPlaces, verifier : VerifierPlaces]
  /\ seen \in [Checkers -> Facts]
  /\ FACTS \subseteq Facts /\ PENDING \in BOOLEAN
  /\ todo \subseteq Databases
  /\ code \in {0, 2, 3} /\ grade \in Grades
  /\ up \subseteq Databases /\ role \subseteq Facets /\ big \in BOOLEAN
  /\ exposes \subseteq Databases /\ changes \in 0..MaxChanges
  /\ exposed \subseteq answered /\ answered \subseteq Databases /\ altered \in BOOLEAN
  /\ PENDING <=> pc["retry"] \notin {"off", "done"}

Hatched == Authenticated \/ cfg.platform \/ cfg.anonymous

\* A listener that others can reach serves only if callers are authenticated by
\* somebody or the operator said otherwise, and only once the role has been found to be a reader:
\* whichever of the two checks let it through, the whole schema was looked at
\* and the role was not more than a reader then (so it is none now, unless it
\* has been altered since).  Between FACTS and PENDING the door is shut.
ExposureEarned ==
  Serves /\ Exposed =>
    /\ Hatched
    /\ FACTS # {}
    /\ \/ cfg.excessive
       \/ (\A f \in FACTS : ~excessive(f)) /\ (altered \/ (role = {} /\ ~big))

\* The process ends only for a reason an operator could look up: a setting,
\* the lack of authentication, a role that is or was more than a reader on an
\* exposed listener without the hatch, or a redacted column that can be read.
ExitHasCause ==
  /\ code = 2 => \/ fatal(cfg.env) # {}
                 \/ cfg.redact = "require" /\ answered \cap exposes # {}
  /\ code = 3 => /\ Exposed
                 /\ ~Hatched \/ (~cfg.excessive /\ (altered \/ role # {} \/ big))

\* The posture record does not flatter, but for the connection. A: the role was asked
\* about and is a reader of a schema looked at in full, callers are authenticated where
\* others can reach the listener, the audit is keyed, and the connection is not known to
\* be in the clear. B on a listener that others can reach: that last part, too. If the
\* question about the connection was not answered, it costs nothing (posture.rs:532),
\* whatever the record says of A: "and an encrypted connection" (posture.rs:571).
\* Better than F: no role known to be more.
GradeIsHonest ==
  /\ grade = "A" => /\ pc["poster"] \in Graded
                    /\ altered \/ (role = {} /\ ~big)
                    /\ cfg.loopback \/ Authenticated
                    /\ cfg.audit = "keyed" /\ cfg.redact = "off"
                    /\ cfg.tls # "off" \/ pc["poster"] = "role only"
  /\ grade = "B" => /\ pc["poster"] \in Graded
                    /\ cfg.tls # "off" \/ cfg.loopback \/ pc["poster"] = "role only"
  /\ grade # "F" /\ pc["poster"] \in Graded /\ ~altered => role = {}

\* After the verification, a database that answered exposes a redacted column
\* only under the warning, and under `require' not at all.
VerdictCoversAnswers ==
  Running /\ (pc["verifier"] = "verified" \/ (pc["verifier"] = "warned" /\ cfg.redact = "require"))
    => answered \cap exposes = {}

\* While the server runs, a number from the environment is in force as written, except
\* for blanks around it, which the checks forgive and the readers do not; for the cap on
\* requests in flight written as a float that is no u32; and for a word as the rate of
\* stdio, which nothing checks: there, and nowhere else, the default is in force.
Unheeded(v, form) ==
  \/ form = "padded"
  \/ v = "MCP_MAX_INFLIGHT_PER_CLIENT" /\ form \in {"fraction", "exponent", "huge", "inf", "nan"}
  \/ v = "MCP_RATE_RPM_STDIO" /\ form = "word"

\* And a transport has no rate limit only by a zero, by what is no finite number, or, on
\* stdio, by a rate below zero. (startup.rs:330: "a typo must not silently change a
\* threshold or switch a limit off", of which the rate of stdio is in no list.)
SettingsHold ==
  Running /\ pc["main"] # "preflight" =>
    LET written == cfg.env.numbers IN
    /\ \A v \in NumberVars : InForce(v, written[v]) = written[v] <=> ~Unheeded(v, written[v])
    /\ LimiterOff(cfg.env, "http") =>
         \/ written["MCP_RATE_RPM"] = "zero"
         \/ {written["MCP_RATE_RPM"], written["MCP_RATE_BURST"]} \cap {"nan", "inf"} # {}
    /\ LimiterOff(cfg.env, "stdio") =>
         \/ written["MCP_RATE_RPM_STDIO"] \in {"zero", "negative"}
         \/ {written["MCP_RATE_RPM_STDIO"], written["MCP_RATE_BURST"]} \cap {"nan", "inf"} # {}

\* Liveness: with one database, which is away for a while only, the server ends up
\* serving for good, or refuses for good.
ServesInTheEnd == <>[](~Running \/ Serves)

\* `the connected role cannot read those columns anywhere', said by the verifier.
VerifiedMeansNowhere == pc["verifier"] = "verified" => exposes = {}
=============================================================================
