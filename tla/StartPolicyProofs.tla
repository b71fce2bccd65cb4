-------------------------- MODULE StartPolicyProofs --------------------------
(***************************************************************************)
(* An exposed listener serves only after the role was found to be a        *)
(* reader, for any databases, configurations and number of changes.        *)
(***************************************************************************)
EXTENDS StartPolicy, TLAPS

PcType ==
  [main : MainPlaces, retry : RetryPlaces, poster : PosterPlaces, verifier : VerifierPlaces]

-----------------------------------------------------------------------------
(* Types.                                                                    *)

LEMMA TypeInit == Init => TypeOK
<1> SUFFICES ASSUME Init PROVE TypeOK
  OBVIOUS
<1>1. exposes \subseteq Databases /\ role \subseteq Facets /\ up \subseteq Databases /\ cfg \in Configs
  BY DEF Init, Facets
<1>2. pc \in PcType /\ (PENDING <=> pc["retry"] \notin {"off", "done"})
  BY DEF Init, PcType, MainPlaces, RetryPlaces, PosterPlaces, VerifierPlaces, Places
<1>3. seen \in [Checkers -> Facts]
  BY DEF Init, Facts, NoFacts, Facets
<1>4. changes \in 0..MaxChanges
  BY StartAssumption DEF Init
<1> QED
  BY <1>1, <1>2, <1>3, <1>4 DEF Init, TypeOK, PcType, Grades

\* Where a thread goes is a place of its own, and no other thread moves.
LEMMA MainGoes ==
  ASSUME TypeOK, NEW place \in MainPlaces, pc' = [pc EXCEPT !["main"] = place]
  PROVE  pc' \in PcType /\ pc'["main"] = place /\ pc'["retry"] = pc["retry"]
         /\ pc'["poster"] = pc["poster"]
  BY DEF TypeOK, PcType

LEMMA RetryGoes ==
  ASSUME TypeOK, NEW place \in RetryPlaces, pc' = [pc EXCEPT !["retry"] = place]
  PROVE  pc' \in PcType /\ pc'["retry"] = place /\ pc'["main"] = pc["main"]
         /\ pc'["poster"] = pc["poster"]
  BY DEF TypeOK, PcType

LEMMA PosterGoes ==
  ASSUME TypeOK, NEW place \in PosterPlaces, pc' = [pc EXCEPT !["poster"] = place]
  PROVE  pc' \in PcType /\ pc'["poster"] = place /\ pc'["main"] = pc["main"]
         /\ pc'["retry"] = pc["retry"]
  BY DEF TypeOK, PcType

LEMMA VerifierGoes ==
  ASSUME TypeOK, NEW place \in VerifierPlaces, pc' = [pc EXCEPT !["verifier"] = place]
  PROVE  pc' \in PcType /\ pc'["main"] = pc["main"] /\ pc'["retry"] = pc["retry"]
         /\ pc'["poster"] = pc["poster"]
  BY DEF TypeOK, PcType

\* The places, by name.
LEMMA PlaceNames ==
  /\ {"record", "policy", "spawn", "serving", "attributes"} \subseteq MainPlaces
  /\ {"off", "sleep", "attributes", "release", "done"} \subseteq RetryPlaces
  /\ {"attributes", "done", "role only", "gave up"} \subseteq PosterPlaces
  /\ {"off", "asking", "verified", "warned"} \subseteq VerifierPlaces
  /\ Places \subseteq MainPlaces /\ Places \subseteq RetryPlaces /\ Places \subseteq PosterPlaces
  BY DEF MainPlaces, RetryPlaces, PosterPlaces, Graded, VerifierPlaces, Places, Questions

\* The worst of some severities is one of them.
LEMMA WorstIsOne ==
  ASSUME NEW S \in SUBSET (0..3), S # {}
  PROVE  Worst(S) \in S /\ \A x \in S : x <= Worst(S)
<1>1. \E s \in S : \A x \in S : x <= s
  <2>0. \A x \in S : x = 0 \/ x = 1 \/ x = 2 \/ x = 3
    OBVIOUS
  <2>1. CASE 3 \in S
    <3>1. \A x \in S : x <= 3
      BY <2>0
    <3> QED
      BY <2>1, <3>1
  <2>2. CASE 3 \notin S /\ 2 \in S
    <3>1. \A x \in S : x <= 2
      BY <2>0, <2>2
    <3> QED
      BY <2>2, <3>1
  <2>3. CASE 3 \notin S /\ 2 \notin S /\ 1 \in S
    <3>1. \A x \in S : x <= 1
      BY <2>0, <2>3
    <3> QED
      BY <2>3, <3>1
  <2>4. CASE 3 \notin S /\ 2 \notin S /\ 1 \notin S
    <3>1. \A x \in S : x = 0
      BY <2>0, <2>4
    <3>2. PICK s \in S : TRUE
      OBVIOUS
    <3>3. s = 0 /\ \A x \in S : x <= s
      BY <3>1, <3>2
    <3> QED
      BY <3>3
  <2> QED
    BY <2>1, <2>2, <2>3, <2>4
<1> QED
  BY <1>1 DEF Worst

\* The severities of a report.
Severities(answer, facts, tls) ==
  RoleFindings(answer, facts) \cup TransportFindings \cup RecordFindings \cup TlsFindings(tls)

LEMMA SeveritiesAreSome ==
  ASSUME NEW answer, NEW facts, NEW tls
  PROVE  Severities(answer, facts, tls) \in SUBSET (0..3) /\ Severities(answer, facts, tls) # {}
<1>1. RoleFindings(answer, facts) \in SUBSET (0..3) /\ RoleFindings(answer, facts) # {}
  BY DEF RoleFindings
<1>2. TransportFindings \in SUBSET (0..3)
  BY DEF TransportFindings
<1>3. RecordFindings \in SUBSET (0..3)
  BY DEF RecordFindings
<1>4. TlsFindings(tls) \in SUBSET (0..3)
  BY DEF TlsFindings
<1> QED
  BY <1>1, <1>2, <1>3, <1>4 DEF Severities

\* The grade of a report is that of its worst finding.
LEMMA ReportIsWorst ==
  ASSUME NEW answer, NEW facts, NEW tls
  PROVE  \E worst \in Severities(answer, facts, tls) :
           /\ \A x \in Severities(answer, facts, tls) : x <= worst
           /\ report(answer, facts, tls) = GradeOf[worst]
<1> DEFINE S == Severities(answer, facts, tls)
<1>1. S \in SUBSET (0..3) /\ S # {}
  BY SeveritiesAreSome
<1>2. report(answer, facts, tls) = GradeOf[Worst(S)]
  BY DEF report, Severities
<1> HIDE DEF S
<1>3. Worst(S) \in S /\ \A x \in S : x <= Worst(S)
  BY <1>1, WorstIsOne
<1> QED
  BY <1>2, <1>3 DEF S

LEMMA GradesByName ==
  GradeOf[0] = "A" /\ GradeOf[1] = "B" /\ GradeOf[2] = "C" /\ GradeOf[3] = "F"
  BY DEF GradeOf

LEMMA ReportIsGrade ==
  ASSUME NEW answer, NEW facts, NEW tls
  PROVE  report(answer, facts, tls) \in {"A", "B", "C", "F"}
<1>1. PICK worst \in Severities(answer, facts, tls) : report(answer, facts, tls) = GradeOf[worst]
  BY ReportIsWorst
<1>2. worst = 0 \/ worst = 1 \/ worst = 2 \/ worst = 3
  BY SeveritiesAreSome
<1> QED
  BY <1>1, <1>2, GradesByName

LEMMA TypeStep == TypeOK /\ [Next]_vars => TypeOK'
<1> SUFFICES ASSUME TypeOK, [Next]_vars
             PROVE  TypeOK'
  OBVIOUS
<1>1. CASE CheckEnvironment
  <2>1. pc' \in PcType /\ pc'["retry"] = pc["retry"]
    BY <1>1, MainGoes, PlaceNames DEF CheckEnvironment, Goto, Exit, TypeOK, PcType
  <2>2. code' \in {0, 2, 3} /\ PENDING' = PENDING
    BY <1>1 DEF CheckEnvironment, Exit, TypeOK
  <2> QED
    BY <1>1, <2>1, <2>2 DEF CheckEnvironment, world, TypeOK, PcType
<1>2. CASE Record
  <2>1. pc' \in PcType /\ pc'["retry"] = pc["retry"]
    BY <1>2, MainGoes, PlaceNames DEF Record, Goto
  <2> QED
    BY <1>2, <2>1 DEF Record, world, TypeOK, PcType
<1>3. CASE EnforceStartPolicy
  <2>1. pc' \in PcType /\ pc'["retry"] = pc["retry"]
    BY <1>3, MainGoes, PlaceNames DEF EnforceStartPolicy, Goto, Exit, TypeOK, PcType
  <2>2. code' \in {0, 2, 3} /\ PENDING' = PENDING
    BY <1>3 DEF EnforceStartPolicy, Exit, TypeOK
  <2> QED
    BY <1>3, <2>1, <2>2 DEF EnforceStartPolicy, world, TypeOK, PcType
<1>4. CASE RoleChecked
  <2>1. pc' \in PcType /\ pc'["retry"] = pc["retry"]
    BY <1>4, MainGoes, PlaceNames DEF RoleChecked, Goto, Exit, TypeOK, PcType
  <2>2. code' \in {0, 2, 3} /\ PENDING' = PENDING
    BY <1>4 DEF RoleChecked, Exit, TypeOK
  <2>3. FACTS' \subseteq Facts
    BY <1>4 DEF RoleChecked, TypeOK, Checkers
  <2> QED
    BY <1>4, <2>1, <2>2, <2>3 DEF RoleChecked, world, TypeOK, PcType
<1>5. CASE RoleUnknown
  <2>1. pc' \in PcType /\ pc'["retry"] = "sleep"
    BY <1>5, PlaceNames DEF RoleUnknown, TypeOK, PcType
  <2> QED
    BY <1>5, <2>1 DEF RoleUnknown, world, TypeOK, PcType
<1>6. CASE SpawnThreads
  <2>1. pc' \in PcType /\ pc'["retry"] = pc["retry"]
    BY <1>6, PlaceNames DEF SpawnThreads, TypeOK, PcType
  <2> QED
    BY <1>6, <2>1 DEF SpawnThreads, world, TypeOK, PcType
<1>7. CASE RetryAgain
  <2>1. /\ pc' \in PcType
        /\ pc["retry"] \notin {"off", "done"} /\ pc'["retry"] \notin {"off", "done"}
    <3>1. CASE pc["retry"] = "sleep" /\ Goto("retry", "attributes")
      BY <3>1, RetryGoes, PlaceNames DEF Goto
    <3>2. CASE pc["retry"] = "failed" /\ Goto("retry", "sleep")
      BY <3>2, RetryGoes, PlaceNames DEF Goto
    <3> QED
      BY <1>7, <3>1, <3>2 DEF RetryAgain
  <2>2. seen' \in [Checkers -> Facts]
    <3>1. NoFacts \in Facts
      BY DEF NoFacts, Facts
    <3>2. seen' = seen \/ seen' = [seen EXCEPT !["retry"] = NoFacts]
      BY <1>7 DEF RetryAgain
    <3> QED
      BY <3>1, <3>2 DEF TypeOK
  <2> QED
    BY <1>7, <2>1, <2>2 DEF RetryAgain, world, TypeOK, PcType
<1>8. CASE RetryDecides
  <2>1. /\ pc' \in PcType
        /\ pc["retry"] \notin {"off", "done"} /\ pc'["retry"] \notin {"off", "done"}
    BY <1>8, RetryGoes, PlaceNames DEF RetryDecides, Goto, Exit, TypeOK, PcType
  <2>2. code' \in {0, 2, 3} /\ PENDING' = PENDING /\ FACTS' \subseteq Facts
    BY <1>8 DEF RetryDecides, Exit, TypeOK, Checkers
  <2> QED
    BY <1>8, <2>1, <2>2 DEF RetryDecides, world, TypeOK, PcType
<1>9. CASE RetryReleases
  <2>1. pc' \in PcType /\ pc'["retry"] = "done"
    BY <1>9, RetryGoes, PlaceNames DEF RetryReleases, Goto
  <2> QED
    BY <1>9, <2>1 DEF RetryReleases, world, TypeOK, PcType
<1>10. CASE VerifyEnds
  <2>1. pc' \in PcType /\ pc'["retry"] = pc["retry"]
    BY <1>10, VerifierGoes, PlaceNames DEF VerifyEnds, Goto, Exit, TypeOK, PcType
  <2>2. code' \in {0, 2, 3} /\ PENDING' = PENDING
    BY <1>10 DEF VerifyEnds, Exit, TypeOK
  <2> QED
    BY <1>10, <2>1, <2>2 DEF VerifyEnds, world, TypeOK, PcType
<1>11. ASSUME NEW d \in Databases, VerifyNext(d)
       PROVE  TypeOK'
  <2>1. todo' \subseteq Databases /\ exposed' \subseteq answered' /\ answered' \subseteq Databases
    BY <1>11 DEF VerifyNext, TypeOK
  <2> QED
    BY <1>11, <2>1 DEF VerifyNext, world, TypeOK
<1>12. CASE AuditPosture
  <2>1. grade' \in Grades
    <3>1. report(pc["poster"] = "decide", seen["poster"], Reachable) \in {"A", "B", "C", "F"}
      BY ReportIsGrade, Zenon
    <3> QED
      BY <1>12, <3>1, Zenon DEF AuditPosture, Grades
  <2>2. pc' \in PcType /\ pc'["retry"] = pc["retry"]
    <3>1. PICK place \in {"done", "role only", "gave up"} : pc' = [pc EXCEPT !["poster"] = place]
      BY <1>12 DEF AuditPosture, Goto
    <3> QED
      BY <3>1, PosterGoes, PlaceNames
  <2> QED
    BY <1>12, <2>1, <2>2 DEF AuditPosture, world, TypeOK, PcType
<1>13. ASSUME NEW t \in Checkers, Ask(t)
       PROVE  TypeOK'
  <2>1. PICK place \in Places : pc' = [pc EXCEPT ![t] = place] /\ place \notin {"off", "done"}
    <3>1. /\ After[pc[t]] \in Places /\ "failed" \in Places
          /\ After[pc[t]] \notin {"off", "done"}
      BY <1>13 DEF Ask, After, Questions, Places
    <3> QED
      BY <1>13, <3>1 DEF Ask, Goto
  <2>2. pc' \in PcType /\ (pc'["retry"] \in {"off", "done"} <=> pc["retry"] \in {"off", "done"})
    <3>1. CASE t = "main"
      BY <2>1, <3>1, MainGoes, PlaceNames
    <3>2. CASE t = "poster"
      BY <2>1, <3>2, PosterGoes, PlaceNames
    <3>3. CASE t = "retry"
      <4>1. pc["retry"] \notin {"off", "done"}
        BY <1>13, <3>3 DEF Ask, Questions
      <4> QED
        BY <2>1, <3>3, <4>1, RetryGoes, PlaceNames
    <3> QED
      BY <3>1, <3>2, <3>3 DEF Checkers
  <2>3. seen' \in [Checkers -> Facts]
    <3>1. CASE UNCHANGED seen
      BY <3>1 DEF TypeOK
    <3>2. ASSUME NEW more \in Found(pc[t]),
                 seen' = [seen EXCEPT ![t].found = @ \cup more,
                                      ![t].sampled = @ \/ (pc[t] = "writes" /\ big)]
          PROVE  seen' \in [Checkers -> Facts]
      <4>1. more \subseteq Facets
        BY <1>13 DEF Found, Ask, Facets, Questions
      <4>2. seen[t] \in Facts
        BY <1>13 DEF TypeOK
      <4>3. [seen[t] EXCEPT !.found = @ \cup more,
                            !.sampled = @ \/ (pc[t] = "writes" /\ big)] \in Facts
        BY <4>1, <4>2 DEF Facts, TypeOK
      <4> QED
        BY <3>2, <4>2, <4>3 DEF TypeOK
    <3> QED
      BY <1>13, <3>1, <3>2 DEF Ask
  <2> QED
    BY <1>13, <2>2, <2>3 DEF Ask, world, TypeOK, PcType
<1>14. ASSUME NEW d \in Databases, GoesAway(d)
       PROVE  TypeOK'
  <2>1. changes' \in 0..MaxChanges /\ up' \subseteq Databases
    BY <1>14, StartAssumption DEF GoesAway, TypeOK
  <2> QED
    BY <1>14, <2>1 DEF GoesAway, process, TypeOK
<1>15. ASSUME NEW d \in Databases, ComesUp(d)
       PROVE  TypeOK'
  BY <1>15 DEF ComesUp, process, TypeOK
<1>16. CASE RoleAltered
  <2>1. changes' \in 0..MaxChanges /\ role' \subseteq Facets
    BY <1>16, StartAssumption DEF RoleAltered, TypeOK
  <2> QED
    BY <1>16, <2>1 DEF RoleAltered, process, TypeOK
<1>17. CASE UNCHANGED vars
  BY <1>17 DEF vars, process, world, TypeOK
<1> QED
  BY <1>1, <1>2, <1>3, <1>4, <1>5, <1>6, <1>7, <1>8, <1>9, <1>10, <1>11, <1>12, <1>13, <1>14,
     <1>15, <1>16, <1>17 DEF Next, Starting, Retrying, Verifying

\* The start keeps the types of its variables, and PENDING is set exactly while the
\* retry thread is at work (enforce_start_policy).
THEOREM StartTypeCorrect == Spec => []TypeOK
<1> QED
  BY TypeInit, TypeStep, PTL DEF Spec

-----------------------------------------------------------------------------
(* What the checkers have found is so, unless the role was altered.          *)

\* The questions that have been answered when a thread is at a place.
Asked(place) ==
  CASE place = "memberships" -> {"attribute"}
    [] place = "writes" -> {"attribute", "membership"}
    [] place = "decide" -> Facets
    [] OTHER -> {}

Looked(t) ==
  /\ altered \/ seen[t].found \subseteq role
  /\ seen[t].sampled => big
  /\ altered \/ big \/ role \cap Asked(pc[t]) \subseteq seen[t].found
  /\ pc[t] = "decide" /\ big => seen[t].sampled

Honest == \A t \in Checkers : Looked(t)

\* What no step changes, and what goes with a change of the role.
LEMMA Frame ==
  ASSUME [Next]_vars
  PROVE  /\ cfg' = cfg /\ big' = big /\ exposes' = exposes
         /\ altered => altered'
         /\ altered' \/ role' = role
<1>1. CASE Starting
  BY <1>1 DEF Starting, CheckEnvironment, Record, EnforceStartPolicy, RoleChecked, RoleUnknown,
              SpawnThreads, world
<1>2. CASE Retrying
  BY <1>2 DEF Retrying, RetryAgain, RetryDecides, RetryReleases, world
<1>3. CASE Verifying
  BY <1>3 DEF Verifying, VerifyEnds, VerifyNext, world
<1>4. CASE AuditPosture
  BY <1>4 DEF AuditPosture, world
<1>5. CASE \E t \in Checkers : Ask(t)
  BY <1>5 DEF Ask, world
<1>6. CASE \E d \in Databases : GoesAway(d) \/ ComesUp(d)
  BY <1>6 DEF GoesAway, ComesUp, process
<1>7. CASE RoleAltered
  BY <1>7 DEF RoleAltered, process
<1>8. CASE UNCHANGED vars
  BY <1>8 DEF vars, process, world
<1> QED
  BY <1>1, <1>2, <1>3, <1>4, <1>5, <1>6, <1>7, <1>8 DEF Next

\* A checker that finds nothing new, and has come no further, remains right.
LEMMA LookedKept ==
  ASSUME [Next]_vars, NEW t \in Checkers, Looked(t), seen'[t] = seen[t],
         pc'[t] = pc[t] \/ Asked(pc'[t]) = {},
         pc'[t] = "decide" => pc[t] = "decide"
  PROVE  Looked(t)'
  BY Frame DEF Looked

\* The places where nothing has been answered.
LEMMA NothingAsked ==
  \A place : place \notin {"memberships", "writes", "decide"} => Asked(place) = {}
  BY DEF Asked

Blank == {"preflight", "record", "policy", "spawn", "serving", "attributes", "failed", "off",
          "sleep", "release", "done", "role only", "gave up"}

LEMMA BlankPlaces ==
  ASSUME NEW place \in Blank
  PROVE  Asked(place) = {} /\ place # "decide"
  BY NothingAsked DEF Blank

LEMMA HonestInit == Init => Honest
<1> SUFFICES ASSUME Init, NEW t \in Checkers PROVE Looked(t)
  BY DEF Honest
<1>1. pc[t] \in Blank
  <2>1. pc[t] \in {"preflight", "off"}
    BY DEF Init, Checkers
  <2> QED
    BY <2>1 DEF Blank
<1>2. seen[t] = NoFacts
  BY DEF Init
<1> QED
  BY <1>1, <1>2, BlankPlaces DEF Looked, NoFacts

LEMMA AskedHonest ==
  ASSUME TypeOK, Honest, [Next]_vars, NEW t \in Checkers, Ask(t)
  PROVE  Looked(t)'
<1>1. pc' = [pc EXCEPT ![t] = pc'[t]] /\ Looked(t) /\ seen[t] \in Facts
  BY DEF Ask, Goto, TypeOK, PcType, Honest, Checkers
<1>2. CASE ~Reachable
  <2>1. pc'[t] = "failed" /\ seen' = seen
    BY <1>2 DEF Ask, Goto, TypeOK, Checkers
  <2> QED
    BY <1>1, <2>1, LookedKept, BlankPlaces DEF Blank
<1>3. CASE Reachable
  <2>1. PICK more \in Found(pc[t]) :
          seen' = [seen EXCEPT ![t].found = @ \cup more,
                               ![t].sampled = @ \/ (pc[t] = "writes" /\ big)]
    BY <1>3 DEF Ask
  <2>2. /\ seen'[t].found = seen[t].found \cup more
        /\ seen'[t].sampled <=> seen[t].sampled \/ (pc[t] = "writes" /\ big)
    BY <1>1, <2>1 DEF TypeOK, Facts
  <2>3. pc'[t] = After[pc[t]] /\ pc[t] \in Questions
    BY <1>3 DEF Ask, Goto, TypeOK, Checkers
  <2>4. role' = role /\ altered' = altered /\ big' = big /\ role \subseteq Facets
    BY DEF Ask, world, TypeOK
  <2>5. more \subseteq role
    BY <2>3 DEF Found, Questions
  <2>6. CASE pc[t] = "attributes"
    <3>1. pc'[t] = "memberships" /\ more = role \cap {"attribute"}
      BY <2>1, <2>3, <2>6 DEF After, Found
    <3>2. Asked(pc'[t]) = {"attribute"}
      BY <3>1 DEF Asked
    <3> QED
      BY <1>1, <2>2, <2>4, <2>5, <2>6, <3>1, <3>2 DEF Looked
  <2>7. CASE pc[t] = "memberships"
    <3>1. pc'[t] = "writes" /\ more = role \cap {"membership"}
      BY <2>1, <2>3, <2>7 DEF After, Found
    <3>2. Asked(pc'[t]) = {"attribute", "membership"} /\ Asked(pc[t]) = {"attribute"}
      BY <2>7, <3>1 DEF Asked
    <3> QED
      BY <1>1, <2>2, <2>4, <2>5, <2>7, <3>1, <3>2 DEF Looked
  <2>8. CASE pc[t] = "writes"
    <3>1. pc'[t] = "decide" /\ (big \/ more = role \cap {"write"})
      BY <2>1, <2>3, <2>8 DEF After, Found
    <3>2. Asked(pc'[t]) = Facets /\ Asked(pc[t]) = {"attribute", "membership"}
      BY <2>8, <3>1 DEF Asked
    <3> QED
      BY <1>1, <2>2, <2>4, <2>5, <2>8, <3>1, <3>2 DEF Looked, Facets
  <2> QED
    BY <2>3, <2>6, <2>7, <2>8 DEF Questions
<1> QED
  BY <1>2, <1>3

LEMMA HonestStep == TypeOK /\ Honest /\ [Next]_vars => Honest'
<1> SUFFICES ASSUME TypeOK, Honest, [Next]_vars, NEW t \in Checkers
             PROVE  Looked(t)'
  BY DEF Honest
<1>0. Looked(t)
  BY DEF Honest
<1>1. CASE Starting
  <2>1. seen' = seen /\ (pc'[t] = pc[t] \/ pc'[t] \in Blank)
    BY <1>1 DEF Starting, CheckEnvironment, Record, EnforceStartPolicy, RoleChecked, RoleUnknown,
                SpawnThreads, Goto, Exit, TypeOK, Checkers, Blank
  <2> QED
    BY <1>0, <2>1, LookedKept, BlankPlaces
<1>2. CASE Retrying
  <2>1. pc'[t] = pc[t] \/ pc'[t] \in Blank
    BY <1>2 DEF Retrying, RetryAgain, RetryDecides, RetryReleases, Goto, Exit, TypeOK, Checkers, Blank
  <2>2. CASE seen'[t] = seen[t]
    BY <1>0, <2>1, <2>2, LookedKept, BlankPlaces
  <2>3. CASE seen'[t] # seen[t]
    <3>1. t = "retry" /\ pc'[t] = "attributes" /\ seen'[t] = NoFacts
      BY <1>2, <2>3 DEF Retrying, RetryAgain, RetryDecides, RetryReleases, Goto, TypeOK, Checkers
    <3>2. Asked(pc'[t]) = {} /\ pc'[t] # "decide"
      BY <3>1, BlankPlaces DEF Blank
    <3>3. seen'[t].found = {} /\ seen'[t].sampled = FALSE
      BY <3>1 DEF NoFacts
    <3> QED
      BY <3>2, <3>3 DEF Looked
  <2> QED
    BY <2>2, <2>3
<1>3. CASE Verifying
  <2>1. seen' = seen /\ pc'[t] = pc[t]
    BY <1>3 DEF Verifying, VerifyEnds, VerifyNext, Goto, Exit, TypeOK, Checkers
  <2> QED
    BY <1>0, <2>1, LookedKept
<1>4. CASE AuditPosture
  <2>1. seen' = seen
    BY <1>4 DEF AuditPosture
  <2>2. pc'[t] = pc[t] \/ pc'[t] \in {"done", "role only", "gave up"}
    <3>1. PICK place \in {"done", "role only", "gave up"} : pc' = [pc EXCEPT !["poster"] = place]
      BY <1>4 DEF AuditPosture, Goto
    <3> QED
      BY <3>1 DEF TypeOK, Checkers
  <2> QED
    BY <1>0, <2>1, <2>2, LookedKept, BlankPlaces DEF Blank
<1>5. ASSUME NEW u \in Checkers, Ask(u)
      PROVE  Looked(t)'
  <2>1. CASE u = t
    BY <1>5, <2>1, AskedHonest
  <2>2. CASE u # t
    <3>1. seen'[t] = seen[t] /\ pc'[t] = pc[t]
      BY <1>5, <2>2 DEF Ask, Goto, TypeOK, Checkers
    <3> QED
      BY <1>0, <3>1, LookedKept
  <2> QED
    BY <2>1, <2>2
<1>6. CASE \E d \in Databases : GoesAway(d) \/ ComesUp(d)
  <2>1. seen' = seen /\ pc' = pc
    BY <1>6 DEF GoesAway, ComesUp, process
  <2> QED
    BY <1>0, <2>1, LookedKept
<1>7. CASE RoleAltered
  <2>1. seen' = seen /\ pc' = pc
    BY <1>7 DEF RoleAltered, process
  <2> QED
    BY <1>0, <2>1, LookedKept
<1>8. CASE UNCHANGED vars
  <2>1. seen' = seen /\ pc' = pc
    BY <1>8 DEF vars, process
  <2> QED
    BY <1>0, <2>1, LookedKept
<1> QED
  BY <1>1, <1>2, <1>3, <1>4, <1>5, <1>6, <1>7, <1>8 DEF Next

\* A role that was found to be a reader's is one, unless it was altered.
LEMMA CleanMeansReader ==
  ASSUME TypeOK, NEW t \in Checkers, Looked(t), pc[t] = "decide", ~excessive(seen[t])
  PROVE  altered \/ (role = {} /\ ~big)
<1>1. Asked(pc[t]) = Facets
  BY DEF Asked
<1>2. role \subseteq Facets
  BY DEF TypeOK
<1>3. seen[t].found = {} /\ ~seen[t].sampled
  BY DEF excessive
<1> QED
  BY <1>1, <1>2, <1>3 DEF Looked

-----------------------------------------------------------------------------
(* Who is where.                                                             *)

Order ==
  /\ pc["main"] \in {"attributes", "memberships", "writes", "decide", "failed"} => Exposed
  /\ pc["main"] \notin {"preflight", "record", "policy"} /\ Exposed => Hatched
  /\ pc["main"] \notin {"spawn", "serving"} => pc["retry"] = "off"
  /\ pc["retry"] # "off" => Exposed

\* The role was judged.
Cleared ==
  /\ FACTS # {}
  /\ \/ cfg.excessive
     \/ (\A f \in FACTS : ~excessive(f)) /\ (altered \/ (role = {} /\ ~big))

Gate ==
  pc["main"] \in {"spawn", "serving"} /\ Exposed /\ pc["retry"] \in {"off", "release", "done"}
    => Cleared

\* What a step that moves neither main nor the retry thread, and leaves FACTS, keeps.
LEMMA GateKept ==
  ASSUME [Next]_vars, Order, Gate, FACTS' = FACTS, pc'["main"] = pc["main"],
         pc'["retry"] = pc["retry"]
  PROVE  Order' /\ Gate'
<1>1. Exposed' = Exposed /\ Hatched' = Hatched
  BY Frame DEF Exposed, Hatched, Authenticated
<1>2. Cleared => Cleared'
  BY Frame DEF Cleared, excessive
<1> QED
  BY <1>1, <1>2 DEF Order, Gate

LEMMA GateInit == Init => Order /\ Gate
  BY DEF Init, Order, Gate

LEMMA GateStep == TypeOK /\ Honest /\ Order /\ Gate /\ [Next]_vars => Order' /\ Gate'
<1> SUFFICES ASSUME TypeOK, Honest, Order, Gate, [Next]_vars
             PROVE  Order' /\ Gate'
  OBVIOUS
<1>0. cfg' = cfg /\ Exposed' = Exposed /\ Hatched' = Hatched
  BY Frame DEF Exposed, Hatched, Authenticated
<1>1. CASE CheckEnvironment
  <2>1. pc["main"] = "preflight" /\ FACTS' = FACTS
        /\ (pc' = pc \/ pc' = [pc EXCEPT !["main"] = "record"])
    BY <1>1 DEF CheckEnvironment, Goto, Exit
  <2> QED
    BY <1>0, <2>1, GateKept, MainGoes, PlaceNames DEF Order, Gate
<1>2. CASE Record
  <2>1. pc["main"] = "record" /\ FACTS' = FACTS /\ pc' = [pc EXCEPT !["main"] = "policy"]
    BY <1>2 DEF Record, Goto
  <2> QED
    BY <1>0, <2>1, MainGoes, PlaceNames DEF Order, Gate
<1>3. CASE EnforceStartPolicy
  <2>1. pc["main"] = "policy" /\ FACTS' = FACTS
    BY <1>3 DEF EnforceStartPolicy
  <2>2. CASE ~Exposed /\ pc' = [pc EXCEPT !["main"] = "spawn"]
    BY <1>0, <2>1, <2>2, MainGoes, PlaceNames DEF Order, Gate
  <2>3. CASE Exposed /\ Hatched /\ pc' = [pc EXCEPT !["main"] = "attributes"]
    BY <1>0, <2>1, <2>3, MainGoes, PlaceNames DEF Order, Gate
  <2>4. CASE pc' = pc
    BY <2>1, <2>4, GateKept
  <2> QED
    BY <1>3, <2>2, <2>3, <2>4 DEF EnforceStartPolicy, Goto, Exit, Hatched
<1>4. CASE RoleChecked
  <2>1. pc["main"] = "decide" /\ FACTS' = {seen["main"]} /\ Exposed /\ Hatched
        /\ role' = role /\ altered' = altered /\ big' = big /\ pc["retry"] = "off"
    BY <1>4 DEF RoleChecked, world, Order
  <2>2. CASE Refused(seen["main"])
    <3>1. pc' = pc
      BY <1>4, <2>2 DEF RoleChecked, Exit
    <3> QED
      BY <1>0, <2>1, <3>1 DEF Order, Gate
  <2>3. CASE ~Refused(seen["main"])
    <3>1. pc'["main"] = "spawn" /\ pc'["retry"] = "off"
      BY <1>4, <2>1, <2>3, MainGoes, PlaceNames DEF RoleChecked, Goto
    <3>2. cfg.excessive \/ ~excessive(seen["main"])
      BY <2>3 DEF Refused
    <3>3. Looked("main")
      BY DEF Honest, Checkers
    <3>4. cfg.excessive \/ altered \/ (role = {} /\ ~big)
      BY <2>1, <3>2, <3>3, CleanMeansReader DEF Checkers
    <3>5. Cleared'
      BY <1>0, <2>1, <3>2, <3>4 DEF Cleared, excessive
    <3> QED
      BY <1>0, <2>1, <3>1, <3>5 DEF Order, Gate
  <2> QED
    BY <2>2, <2>3
<1>5. CASE RoleUnknown
  <2>1. pc["main"] = "failed" /\ pc'["main"] = "spawn" /\ pc'["retry"] = "sleep"
    BY <1>5 DEF RoleUnknown, TypeOK
  <2> QED
    BY <1>0, <2>1 DEF Order, Gate
<1>6. CASE SpawnThreads
  <2>1. pc["main"] = "spawn" /\ pc'["main"] = "serving" /\ pc'["retry"] = pc["retry"]
        /\ FACTS' = FACTS
    BY <1>6 DEF SpawnThreads, TypeOK
  <2>2. Cleared => Cleared'
    BY <2>1, Frame DEF Cleared, excessive
  <2> QED
    BY <1>0, <2>1, <2>2 DEF Order, Gate
<1>7. CASE RetryAgain
  <2>1. /\ pc'["main"] = pc["main"]
        /\ pc["retry"] # "off" /\ pc'["retry"] \in {"attributes", "sleep"}
    BY <1>7 DEF RetryAgain, Goto, TypeOK
  <2> QED
    BY <1>0, <2>1 DEF Order, Gate
<1>8. CASE RetryDecides
  <2>1. pc["retry"] = "decide" /\ pc'["main"] = pc["main"]
        /\ role' = role /\ altered' = altered /\ big' = big
    BY <1>8 DEF RetryDecides, Goto, Exit, world, TypeOK
  <2>2. CASE Refused(seen["retry"])
    <3>1. pc' = pc /\ FACTS' = FACTS
      BY <1>8, <2>2 DEF RetryDecides, Exit
    <3> QED
      BY <3>1, GateKept
  <2>3. CASE ~Refused(seen["retry"])
    <3>1. pc'["retry"] = "release" /\ FACTS' = {seen["retry"]}
      BY <1>8, <2>3 DEF RetryDecides, Goto, TypeOK
    <3>2. cfg.excessive \/ ~excessive(seen["retry"])
      BY <2>3 DEF Refused
    <3>3. Looked("retry")
      BY DEF Honest, Checkers
    <3>4. cfg.excessive \/ altered \/ (role = {} /\ ~big)
      BY <2>1, <3>2, <3>3, CleanMeansReader DEF Checkers
    <3>5. Cleared'
      BY <1>0, <2>1, <3>1, <3>2, <3>4 DEF Cleared, excessive
    <3> QED
      BY <1>0, <2>1, <3>1, <3>5 DEF Order, Gate
  <2> QED
    BY <2>2, <2>3
<1>9. CASE RetryReleases
  <2>1. pc["retry"] = "release" /\ pc'["retry"] = "done" /\ pc'["main"] = pc["main"]
        /\ FACTS' = FACTS
    BY <1>9 DEF RetryReleases, Goto, TypeOK
  <2>2. Cleared => Cleared'
    BY <2>1, Frame DEF Cleared, excessive
  <2> QED
    BY <1>0, <2>1, <2>2 DEF Order, Gate
<1>10. CASE Verifying
  <2>1. pc'["main"] = pc["main"] /\ pc'["retry"] = pc["retry"] /\ FACTS' = FACTS
    BY <1>10 DEF Verifying, VerifyEnds, VerifyNext, Goto, Exit, TypeOK
  <2> QED
    BY <2>1, GateKept
<1>11. CASE AuditPosture
  <2>1. PICK place \in {"done", "role only", "gave up"} : pc' = [pc EXCEPT !["poster"] = place]
    BY <1>11 DEF AuditPosture, Goto
  <2>2. FACTS' = FACTS
    BY <1>11 DEF AuditPosture
  <2> QED
    BY <2>1, <2>2, GateKept, PosterGoes, PlaceNames
<1>12. ASSUME NEW t \in Checkers, Ask(t)
       PROVE  Order' /\ Gate'
  <2>1. /\ FACTS' = FACTS /\ pc[t] \in Questions
        /\ pc'[t] \in {"memberships", "writes", "decide", "failed"}
        /\ \A u \in Checkers \ {t} : pc'[u] = pc[u]
    BY <1>12 DEF Ask, Goto, After, Questions, TypeOK, Checkers
  <2>2. CASE t = "main"
    BY <1>0, <2>1, <2>2 DEF Order, Gate, Checkers, Questions
  <2>3. CASE t = "retry"
    BY <1>0, <2>1, <2>3 DEF Order, Gate, Checkers, Questions
  <2>4. CASE t = "poster"
    BY <2>1, <2>4, GateKept DEF Checkers
  <2> QED
    BY <2>2, <2>3, <2>4 DEF Checkers
<1>13. CASE \E d \in Databases : GoesAway(d) \/ ComesUp(d)
  <2>1. pc' = pc /\ FACTS' = FACTS
    BY <1>13 DEF GoesAway, ComesUp, process
  <2> QED
    BY <2>1, GateKept
<1>14. CASE RoleAltered
  <2>1. pc' = pc /\ FACTS' = FACTS
    BY <1>14 DEF RoleAltered, process
  <2> QED
    BY <2>1, GateKept
<1>15. CASE UNCHANGED vars
  <2>1. pc' = pc /\ FACTS' = FACTS
    BY <1>15 DEF vars, process
  <2> QED
    BY <2>1, GateKept
<1> QED
  BY <1>1, <1>2, <1>3, <1>4, <1>5, <1>6, <1>7, <1>8, <1>9, <1>10, <1>11, <1>12, <1>13, <1>14,
     <1>15 DEF Next, Starting, Retrying

LEMMA GateOpens == TypeOK /\ Order /\ Gate => ExposureEarned
<1> SUFFICES ASSUME TypeOK, Order, Gate, Serves, Exposed
             PROVE  Hatched /\ Cleared
  BY DEF ExposureEarned, Cleared
<1>1. pc["main"] = "serving" /\ ~PENDING
  BY DEF Serves, Exposed
<1>2. pc["retry"] \in {"off", "done"}
  BY <1>1 DEF TypeOK
<1> QED
  BY <1>1, <1>2 DEF Order, Gate

\* A listener others can reach serves only callers somebody answers for, and only
\* once the whole role was found to be a reader's, by main or by the retry thread
\* (enforce_start_policy, serving_blocked).
THEOREM ExposureAlwaysEarned == Spec => []ExposureEarned
<1> DEFINE IInv == TypeOK /\ Honest /\ Order /\ Gate
<1>1. Init => IInv
  BY TypeInit, HonestInit, GateInit
<1>2. IInv /\ [Next]_vars => IInv'
  BY TypeStep, HonestStep, GateStep
<1>3. IInv => ExposureEarned
  BY GateOpens
<1> QED
  BY <1>1, <1>2, <1>3, PTL DEF Spec

-----------------------------------------------------------------------------
(* The verification of redacted columns.                                     *)

Verification ==
  /\ exposed = answered \cap exposes
  /\ pc["verifier"] = "verified" => exposed = {}
  /\ pc["verifier"] = "warned" => cfg.redact = "advise"
  /\ pc["verifier"] \in {"off", "asking"} \/ pc["verifier"] \in {"verified", "warned"}

LEMMA VerificationInit == Init => Verification
  BY DEF Init, Verification

LEMMA VerificationStep == TypeOK /\ Verification /\ [Next]_vars => Verification'
<1> SUFFICES ASSUME TypeOK, Verification, [Next]_vars
             PROVE  Verification'
  OBVIOUS
<1>0. cfg' = cfg /\ exposes' = exposes
  BY Frame
<1>1. CASE VerifyEnds
  BY <1>0, <1>1 DEF VerifyEnds, Goto, Exit, TypeOK, Verification
<1>2. ASSUME NEW d \in Databases, VerifyNext(d)
      PROVE  Verification'
  BY <1>0, <1>2 DEF VerifyNext, Verification
<1>3. CASE SpawnThreads
  BY <1>0, <1>3 DEF SpawnThreads, TypeOK, Verification
<1>4. CASE pc'["verifier"] = pc["verifier"] /\ exposed' = exposed /\ answered' = answered
  BY <1>0, <1>4 DEF Verification
<1>5. CASE CheckEnvironment \/ Record \/ EnforceStartPolicy \/ RoleChecked \/ RoleUnknown
  BY <1>4, <1>5 DEF CheckEnvironment, Record, EnforceStartPolicy, RoleChecked, RoleUnknown,
                    Goto, Exit, TypeOK
<1>6. CASE Retrying
  BY <1>4, <1>6 DEF Retrying, RetryAgain, RetryDecides, RetryReleases, Goto, Exit, TypeOK
<1>7. CASE AuditPosture
  <2>1. PICK place \in {"done", "role only", "gave up"} : pc' = [pc EXCEPT !["poster"] = place]
    BY <1>7 DEF AuditPosture, Goto
  <2>2. exposed' = exposed /\ answered' = answered
    BY <1>7 DEF AuditPosture
  <2> QED
    BY <1>4, <2>1, <2>2 DEF TypeOK
<1>8. CASE \E t \in Checkers : Ask(t)
  BY <1>4, <1>8 DEF Ask, Goto, Checkers, TypeOK
<1>9. CASE \E d \in Databases : GoesAway(d) \/ ComesUp(d)
  BY <1>4, <1>9 DEF GoesAway, ComesUp, process
<1>10. CASE RoleAltered
  BY <1>4, <1>10 DEF RoleAltered, process
<1>11. CASE UNCHANGED vars
  BY <1>4, <1>11 DEF vars, process
<1> QED
  BY <1>1, <1>2, <1>3, <1>5, <1>6, <1>7, <1>8, <1>9, <1>10, <1>11
  DEF Next, Starting, Verifying

\* No verdict of the verifier hides an exposed column in a database that answered, and
\* under `require' none stands (spawn_redaction_verification).
THEOREM VerdictAlwaysCovers == Spec => []VerdictCoversAnswers
<1> DEFINE IInv == TypeOK /\ Verification
<1>1. Init => IInv
  BY TypeInit, VerificationInit
<1>2. IInv /\ [Next]_vars => IInv'
  BY TypeStep, VerificationStep
<1>3. IInv => VerdictCoversAnswers
  BY DEF Verification, VerdictCoversAnswers
<1> QED
  BY <1>1, <1>2, <1>3, PTL DEF Spec

-----------------------------------------------------------------------------
(* Why the process ends.                                                     *)

LEMMA RefusedForCause ==
  ASSUME Honest, NEW t \in Checkers, Refused(seen[t])
  PROVE  ~cfg.excessive /\ (altered \/ role # {} \/ big)
  BY DEF Honest, Looked, Refused, excessive

LEMMA CauseKept ==
  ASSUME TypeOK, Verification, ExitHasCause, [Next]_vars, code' = code, answered \subseteq answered'
  PROVE  ExitHasCause'
<1>1. /\ cfg' = cfg /\ exposes' = exposes /\ big' = big
      /\ Exposed' = Exposed /\ Hatched' = Hatched
  BY Frame DEF Exposed, Hatched, Authenticated
<1>2. altered \/ role # {} \/ big => altered' \/ role' # {} \/ big'
  BY Frame
<1>3. fatal(cfg.env)' = fatal(cfg.env)
  BY <1>1
<1> QED
  BY <1>1, <1>2, <1>3 DEF ExitHasCause

LEMMA CauseStep ==
  TypeOK /\ Honest /\ Order /\ Verification /\ ExitHasCause /\ [Next]_vars => ExitHasCause'
<1> SUFFICES ASSUME TypeOK, Honest, Order, Verification, ExitHasCause, [Next]_vars
             PROVE  ExitHasCause'
  OBVIOUS
<1>0. /\ cfg' = cfg /\ exposes' = exposes /\ big' = big
      /\ Exposed' = Exposed /\ Hatched' = Hatched
  BY Frame DEF Exposed, Hatched, Authenticated
<1>1. CASE CheckEnvironment
  <2>1. CASE fatal(cfg.env) # {}
    <3>1. code' = 2 /\ fatal(cfg.env)' # {}
      BY <1>0, <1>1, <2>1 DEF CheckEnvironment, Exit
    <3> QED
      BY <3>1 DEF ExitHasCause
  <2>2. CASE fatal(cfg.env) = {}
    BY <1>1, <2>2, CauseKept DEF CheckEnvironment
  <2> QED
    BY <2>1, <2>2
<1>2. CASE EnforceStartPolicy
  <2>1. CASE code' = code
    BY <1>2, <2>1, CauseKept DEF EnforceStartPolicy
  <2>2. CASE code' # code
    <3>1. code' = 3 /\ Exposed /\ ~Hatched
      BY <1>2, <2>2 DEF EnforceStartPolicy, Exit, Hatched
    <3> QED
      BY <1>0, <3>1 DEF ExitHasCause
  <2> QED
    BY <2>1, <2>2
<1>3. CASE RoleChecked
  <2>1. CASE code' = code
    BY <1>3, <2>1, CauseKept DEF RoleChecked
  <2>2. CASE code' # code
    <3>1. code' = 3 /\ Refused(seen["main"]) /\ pc["main"] = "decide"
          /\ role' = role /\ altered' = altered
      BY <1>3, <2>2 DEF RoleChecked, Exit, world
    <3>2. ~cfg.excessive /\ (altered \/ role # {} \/ big)
      BY <3>1, RefusedForCause DEF Checkers
    <3> QED
      BY <1>0, <3>1, <3>2 DEF ExitHasCause, Order
  <2> QED
    BY <2>1, <2>2
<1>4. CASE RetryDecides
  <2>1. CASE code' = code
    BY <1>4, <2>1, CauseKept DEF RetryDecides
  <2>2. CASE code' # code
    <3>1. code' = 3 /\ Refused(seen["retry"]) /\ pc["retry"] = "decide"
          /\ role' = role /\ altered' = altered
      BY <1>4, <2>2 DEF RetryDecides, Exit, world
    <3>2. ~cfg.excessive /\ (altered \/ role # {} \/ big)
      BY <3>1, RefusedForCause DEF Checkers
    <3> QED
      BY <1>0, <3>1, <3>2 DEF ExitHasCause, Order
  <2> QED
    BY <2>1, <2>2
<1>5. CASE VerifyEnds
  <2>1. CASE code' = code
    BY <1>5, <2>1, CauseKept DEF VerifyEnds
  <2>2. CASE code' # code
    <3>1. code' = 2 /\ exposed # {} /\ cfg.redact = "require" /\ answered' = answered
      BY <1>5, <2>2 DEF VerifyEnds, Exit
    <3> QED
      BY <1>0, <3>1 DEF ExitHasCause, Verification
  <2> QED
    BY <2>1, <2>2
<1>6. ASSUME NEW d \in Databases, VerifyNext(d)
      PROVE  ExitHasCause'
  BY <1>6, CauseKept DEF VerifyNext
<1>7. CASE Record \/ RoleUnknown \/ SpawnThreads
  BY <1>7, CauseKept DEF Record, RoleUnknown, SpawnThreads
<1>8. CASE RetryAgain \/ RetryReleases
  BY <1>8, CauseKept DEF RetryAgain, RetryReleases
<1>9. CASE AuditPosture
  BY <1>9, CauseKept DEF AuditPosture
<1>10. CASE \E t \in Checkers : Ask(t)
  BY <1>10, CauseKept DEF Ask
<1>11. CASE \E d \in Databases : GoesAway(d) \/ ComesUp(d)
  BY <1>11, CauseKept DEF GoesAway, ComesUp, process
<1>12. CASE RoleAltered
  BY <1>12, CauseKept DEF RoleAltered, process
<1>13. CASE UNCHANGED vars
  BY <1>13, CauseKept DEF vars, process
<1> QED
  BY <1>1, <1>2, <1>3, <1>4, <1>5, <1>6, <1>7, <1>8, <1>9, <1>10, <1>11, <1>12, <1>13
  DEF Next, Starting, Retrying, Verifying

\* The process ends for a setting, for a listener nobody answers for, for a role that is
\* or was more than a reader's, or for a redacted column that can be read
\* (preflight_config, enforce_start_policy, spawn_redaction_verification).
THEOREM ExitAlwaysHasCause == Spec => []ExitHasCause
<1> DEFINE IInv == TypeOK /\ Honest /\ Order /\ Gate /\ Verification /\ ExitHasCause
<1>1. Init => ExitHasCause
  BY DEF Init, ExitHasCause
<1>2. Init => IInv
  BY <1>1, TypeInit, HonestInit, GateInit, VerificationInit
<1>3. IInv /\ [Next]_vars => IInv'
  BY TypeStep, HonestStep, GateStep, VerificationStep, CauseStep
<1> QED
  BY <1>2, <1>3, PTL DEF Spec

-----------------------------------------------------------------------------
(* The posture record.                                                       *)

\* A report is as bad as any of its findings.
LEMMA GradeA ==
  ASSUME NEW answer, NEW facts, NEW tls, report(answer, facts, tls) = "A"
  PROVE  \A x \in Severities(answer, facts, tls) : x = 0
<1>1. PICK worst \in Severities(answer, facts, tls) :
        /\ \A x \in Severities(answer, facts, tls) : x <= worst
        /\ report(answer, facts, tls) = GradeOf[worst]
  BY ReportIsWorst
<1>2. worst = 0 \/ worst = 1 \/ worst = 2 \/ worst = 3
  BY SeveritiesAreSome
<1>3. worst = 0
  BY <1>1, <1>2, GradesByName
<1> QED
  BY <1>1, <1>3, SeveritiesAreSome

LEMMA GradeB ==
  ASSUME NEW answer, NEW facts, NEW tls, report(answer, facts, tls) = "B"
  PROVE  2 \notin Severities(answer, facts, tls)
<1>1. PICK worst \in Severities(answer, facts, tls) :
        /\ \A x \in Severities(answer, facts, tls) : x <= worst
        /\ report(answer, facts, tls) = GradeOf[worst]
  BY ReportIsWorst
<1>2. worst = 0 \/ worst = 1 \/ worst = 2 \/ worst = 3
  BY SeveritiesAreSome
<1>3. worst = 1
  BY <1>1, <1>2, GradesByName
<1> QED
  BY <1>1, <1>3

LEMMA GradeF ==
  ASSUME NEW answer, NEW facts, NEW tls, 3 \in Severities(answer, facts, tls)
  PROVE  report(answer, facts, tls) = "F"
<1>1. PICK worst \in Severities(answer, facts, tls) :
        /\ \A x \in Severities(answer, facts, tls) : x <= worst
        /\ report(answer, facts, tls) = GradeOf[worst]
  BY ReportIsWorst
<1>2. worst = 0 \/ worst = 1 \/ worst = 2 \/ worst = 3
  BY SeveritiesAreSome
<1>3. worst = 3
  BY <1>1, <1>2
<1> QED
  BY <1>1, <1>3, GradesByName

LEMMA GradeKept ==
  ASSUME [Next]_vars, GradeIsHonest, grade' = grade, pc'["poster"] = pc["poster"]
  PROVE  GradeIsHonest'
<1>1. cfg' = cfg /\ Authenticated' = Authenticated
  BY Frame DEF Authenticated
<1>2. big' = big /\ (altered => altered') /\ (altered' \/ role' = role)
  BY Frame
<1> QED
  BY <1>1, <1>2, Zenon DEF GradeIsHonest, Graded

\* Only three actions are about the posture thread, and serving is the end of main.
LEMMA PosterAlone ==
  ASSUME TypeOK, [Next]_vars
  PROVE  \/ AuditPosture \/ SpawnThreads \/ Ask("poster")
         \/ /\ grade' = grade /\ pc'["poster"] = pc["poster"]
            /\ pc["main"] = "serving" => pc'["main"] = "serving"
<1>1. CASE CheckEnvironment \/ Record \/ EnforceStartPolicy \/ RoleChecked \/ RoleUnknown
  BY <1>1 DEF CheckEnvironment, Record, EnforceStartPolicy, RoleChecked, RoleUnknown,
              Goto, Exit, TypeOK
<1>2. CASE Retrying
  BY <1>2 DEF Retrying, RetryAgain, RetryDecides, RetryReleases, Goto, Exit, TypeOK
<1>3. CASE Verifying
  BY <1>3 DEF Verifying, VerifyEnds, VerifyNext, Goto, Exit, TypeOK
<1>4. ASSUME NEW t \in {"main", "retry"}, Ask(t)
      PROVE  /\ grade' = grade /\ pc'["poster"] = pc["poster"]
             /\ pc["main"] = "serving" => pc'["main"] = "serving"
  BY <1>4 DEF Ask, Goto, Questions, TypeOK
<1>5. CASE \E d \in Databases : GoesAway(d) \/ ComesUp(d)
  BY <1>5 DEF GoesAway, ComesUp, process
<1>6. CASE RoleAltered
  BY <1>6 DEF RoleAltered, process
<1>7. CASE UNCHANGED vars
  BY <1>7 DEF vars, process
<1> QED
  BY <1>1, <1>2, <1>3, <1>4, <1>5, <1>6, <1>7 DEF Next, Starting, Checkers

PosterWaits == pc["main"] # "serving" => pc["poster"] = "off"

LEMMA PosterWaitsStep == TypeOK /\ PosterWaits /\ [Next]_vars => PosterWaits'
<1> SUFFICES ASSUME TypeOK, PosterWaits, [Next]_vars
             PROVE  PosterWaits'
  OBVIOUS
<1>1. CASE AuditPosture
  <2>1. pc["main"] = "serving"
    BY <1>1 DEF AuditPosture, PosterWaits
  <2>2. PICK place \in {"done", "role only", "gave up"} : pc' = [pc EXCEPT !["poster"] = place]
    BY <1>1 DEF AuditPosture, Goto
  <2> QED
    BY <2>1, <2>2, PosterGoes, PlaceNames DEF PosterWaits
<1>2. CASE SpawnThreads
  BY <1>2 DEF SpawnThreads, TypeOK, PosterWaits
<1>3. CASE Ask("poster")
  BY <1>3 DEF Ask, Goto, Questions, TypeOK, PosterWaits
<1> QED
  BY <1>1, <1>2, <1>3, PosterAlone DEF PosterWaits

\* The record, written from what the poster found.
LEMMA PostureHonest ==
  ASSUME TypeOK, Honest, [Next]_vars, AuditPosture
  PROVE  GradeIsHonest'
<1> DEFINE answer == pc["poster"] = "decide"
           facts == seen["poster"]
<1>0. /\ cfg' = cfg /\ role' = role /\ altered' = altered /\ big' = big
      /\ pc["poster"] \in {"decide", "failed"}
  BY DEF AuditPosture, world
<1>1. grade' = report(answer, facts, Reachable)
  BY Zenon DEF AuditPosture
<1>3. /\ pc'["poster"] \in Graded <=> answer
      /\ pc'["poster"] = "role only" <=> answer /\ ~Reachable
  <2>1. CASE answer /\ Reachable
    <3>1. pc' = [pc EXCEPT !["poster"] = "done"]
      BY <2>1 DEF AuditPosture, Goto
    <3> QED
      BY <2>1, <3>1, PosterGoes, PlaceNames DEF Graded
  <2>2. CASE answer /\ ~Reachable
    <3>1. pc' = [pc EXCEPT !["poster"] = "role only"]
      BY <2>2 DEF AuditPosture, Goto
    <3> QED
      BY <2>2, <3>1, PosterGoes, PlaceNames DEF Graded
  <2>3. CASE ~answer
    <3>1. pc' = [pc EXCEPT !["poster"] = "gave up"]
      BY <1>0, <2>3 DEF AuditPosture, Goto
    <3> QED
      BY <2>3, <3>1, PosterGoes, PlaceNames DEF Graded
  <2> QED
    BY <2>1, <2>2, <2>3
<1>4. answer /\ ~excessive(facts) => altered \/ (role = {} /\ ~big)
  <2>1. Looked("poster")
    BY DEF Honest, Checkers
  <2> QED
    BY <2>1, CleanMeansReader DEF Checkers
<1> DEFINE S == Severities(answer, facts, Reachable)
<1>5. ~answer => 2 \in S
  BY DEF Severities, RoleFindings
<1>6. answer /\ excessive(facts) => 3 \in S
  BY DEF Severities, RoleFindings
<1>7. ~cfg.loopback /\ ~Authenticated => 3 \in S
  BY DEF Severities, TransportFindings
<1>8. cfg.audit # "keyed" \/ cfg.redact # "off" => 1 \in S
  BY DEF Severities, RecordFindings
<1>9. Reachable /\ cfg.tls = "off" => (IF cfg.loopback THEN 1 ELSE 2) \in S
  BY DEF Severities, TlsFindings
<1>10. /\ grade' = "A" => \A x \in S : x = 0
       /\ grade' = "B" => 2 \notin S
       /\ grade' # "F" => 3 \notin S
  <2>1. report(answer, facts, Reachable) = "A" => \A x \in S : x = 0
    BY GradeA, Zenon
  <2>2. report(answer, facts, Reachable) = "B" => 2 \notin S
    BY GradeB, Zenon
  <2>3. report(answer, facts, Reachable) # "F" => 3 \notin S
    BY GradeF
  <2> QED
    BY <1>1, <2>1, <2>2, <2>3, Zenon
<1> HIDE DEF answer, facts, S
<1>11. grade' = "A" => /\ answer /\ ~excessive(facts) /\ (cfg.loopback \/ Authenticated)
                       /\ cfg.audit = "keyed" /\ cfg.redact = "off"
                       /\ cfg.tls # "off" \/ ~Reachable
  <2>1. 1 # 0 /\ 2 # 0 /\ 3 # 0
    OBVIOUS
  <2> QED
    BY <1>5, <1>6, <1>7, <1>8, <1>9, <1>10, <2>1, Zenon
<1>12. grade' = "B" => answer /\ (cfg.tls # "off" \/ cfg.loopback \/ ~Reachable)
  BY <1>5, <1>9, <1>10, Zenon
<1>13. grade' # "F" /\ answer => ~excessive(facts)
  BY <1>6, <1>10, Zenon
<1>14. Authenticated' = Authenticated
  BY <1>0 DEF Authenticated
<1> QED
  BY <1>0, <1>3, <1>4, <1>11, <1>12, <1>13, <1>14 DEF GradeIsHonest

LEMMA GradeStep ==
  TypeOK /\ Honest /\ PosterWaits /\ GradeIsHonest /\ [Next]_vars => GradeIsHonest'
<1> SUFFICES ASSUME TypeOK, Honest, PosterWaits, GradeIsHonest, [Next]_vars
             PROVE  GradeIsHonest'
  OBVIOUS
<1>1. CASE SpawnThreads
  <2>1. pc["poster"] = "off" /\ pc'["poster"] = "attributes" /\ grade' = grade
    BY <1>1 DEF SpawnThreads, TypeOK, PosterWaits
  <2> QED
    BY <2>1 DEF GradeIsHonest, Graded
<1>2. CASE Ask("poster")
  <2>1. pc["poster"] \in Questions /\ grade' = grade
    BY <1>2 DEF Ask
  <2>2. PICK place \in {"memberships", "writes", "decide", "failed"} : pc' = [pc EXCEPT !["poster"] = place]
    BY <1>2, <2>1 DEF Ask, Goto, Questions, After
  <2>3. pc'["poster"] \in {"memberships", "writes", "decide", "failed"}
    BY <2>2 DEF TypeOK
  <2>4. pc["poster"] \notin Graded /\ pc'["poster"] \notin Graded
    BY <2>1, <2>3 DEF Questions, Graded
  <2> QED
    BY <2>1, <2>4 DEF GradeIsHonest
<1> QED
  BY <1>1, <1>2, PosterAlone, PostureHonest, GradeKept

\* The posture record is no better than what was found, and a role that could not be
\* asked about costs the grade; a connection that could not be does not (audit_posture,
\* report).
THEOREM GradeAlwaysHonest == Spec => []GradeIsHonest
<1> DEFINE IInv == TypeOK /\ Honest /\ PosterWaits /\ GradeIsHonest
<1>1. Init => PosterWaits /\ GradeIsHonest
  BY DEF Init, PosterWaits, GradeIsHonest, Graded
<1>2. Init => IInv
  BY <1>1, TypeInit, HonestInit
<1>3. IInv /\ [Next]_vars => IInv'
  BY TypeStep, HonestStep, PosterWaitsStep, GradeStep
<1> QED
  BY <1>2, <1>3, PTL DEF Spec

-----------------------------------------------------------------------------
(* The settings.                                                             *)

Screened == pc["main"] # "preflight" => fatal(cfg.env) = {}

LEMMA ScreenedStep == TypeOK /\ Screened /\ [Next]_vars => Screened'
<1> SUFFICES ASSUME TypeOK, Screened, [Next]_vars
             PROVE  Screened'
  OBVIOUS
<1>0. cfg' = cfg
  BY Frame
<1>1. CASE CheckEnvironment
  <2>1. CASE fatal(cfg.env) # {}
    BY <1>1, <2>1 DEF CheckEnvironment, Exit, Screened
  <2>2. CASE fatal(cfg.env) = {}
    BY <1>0, <2>2 DEF Screened
  <2> QED
    BY <2>1, <2>2
<1>2. CASE pc["main"] # "preflight" \/ pc' = pc
  BY <1>0, <1>2 DEF Screened
<1>3. CASE Starting /\ ~CheckEnvironment
  BY <1>2, <1>3 DEF Starting, Record, EnforceStartPolicy, RoleChecked, RoleUnknown, SpawnThreads
<1>4. CASE Retrying
  <2>1. pc'["main"] = pc["main"]
    BY <1>4 DEF Retrying, RetryAgain, RetryDecides, RetryReleases, Goto, Exit, TypeOK
  <2> QED
    BY <1>0, <2>1 DEF Screened
<1>5. CASE Verifying
  <2>1. pc'["main"] = pc["main"]
    BY <1>5 DEF Verifying, VerifyEnds, VerifyNext, Goto, Exit, TypeOK
  <2> QED
    BY <1>0, <2>1 DEF Screened
<1>6. CASE AuditPosture
  <2>1. PICK place \in {"done", "role only", "gave up"} : pc' = [pc EXCEPT !["poster"] = place]
    BY <1>6 DEF AuditPosture, Goto
  <2> QED
    BY <1>0, <2>1, PosterGoes, PlaceNames DEF Screened
<1>7. ASSUME NEW t \in Checkers, Ask(t)
      PROVE  Screened'
  <2>1. pc["main"] # "preflight" \/ pc'["main"] = pc["main"]
    BY <1>7 DEF Ask, Goto, Questions, Checkers, TypeOK
  <2> QED
    BY <1>0, <2>1 DEF Screened
<1>8. CASE \E d \in Databases : GoesAway(d) \/ ComesUp(d)
  BY <1>2, <1>8 DEF GoesAway, ComesUp, process
<1>9. CASE RoleAltered
  BY <1>2, <1>9 DEF RoleAltered, process
<1>10. CASE UNCHANGED vars
  BY <1>2, <1>10 DEF vars, process
<1> QED
  BY <1>1, <1>3, <1>4, <1>5, <1>6, <1>7, <1>8, <1>9, <1>10 DEF Next

\* What the checks let through is in force as written, but for what nobody heeds.
LEMMA PassedIsHeeded ==
  ASSUME NEW v \in NumberVars, NEW form \in NumberForms, ~NumberRefused(v, form)
  PROVE  InForce(v, form) = form <=> ~Unheeded(v, form)
<1>1. CASE form = "unset"
  BY <1>1 DEF InForce, Unheeded
<1>2. CASE v \in FloatVars /\ form # "unset"
  BY <1>2 DEF InForce, Unheeded, Parses, NumberRefused, NumberForms, FloatVars
<1>3. CASE v = "MCP_MAX_INFLIGHT_PER_CLIENT" /\ form # "unset"
  BY <1>3 DEF InForce, Unheeded, Parses, NumberRefused, NumberForms, FloatVars
<1>4. CASE v = "MCP_RESERVED_AUTH_SLOTS" /\ form # "unset"
  BY <1>4 DEF InForce, Unheeded, Parses, NumberRefused, NumberForms, FloatVars
<1> QED
  BY <1>1, <1>2, <1>3, <1>4 DEF NumberVars, CountVars

\* A limiter that is off, by what was written.
LEMMA OffAsWritten ==
  ASSUME NEW env, NEW transport, NEW v, Rate(env, transport) = InForce(v, env.numbers[v]),
         LimiterOff(env, transport)
  PROVE  \/ env.numbers[v] \in {"zero", "negative"}
         \/ {env.numbers[v], env.numbers["MCP_RATE_BURST"]} \cap {"nan", "inf"} # {}
  BY DEF LimiterOff, Burst, InForce

LEMMA ScreenedHolds == TypeOK /\ Screened => SettingsHold
<1> SUFFICES ASSUME TypeOK, Screened, pc["main"] # "preflight"
             PROVE  SettingsHold
  BY DEF SettingsHold
<1>1. cfg.env \in Environments
  BY StartAssumption DEF TypeOK, Config
<1> DEFINE written == cfg.env.numbers
<1>2. written \in [NumberVars -> NumberForms]
  BY <1>1 DEF Environments
<1>3. \A v \in NumberVars : ~NumberRefused(v, written[v])
  <2>1. fatal(cfg.env) = {}
    BY DEF Screened
  <2> QED
    BY <2>1 DEF fatal
<1>4. \A v \in NumberVars : InForce(v, written[v]) = written[v] <=> ~Unheeded(v, written[v])
  <2> SUFFICES ASSUME NEW v \in NumberVars
               PROVE  InForce(v, written[v]) = written[v] <=> ~Unheeded(v, written[v])
    OBVIOUS
  <2>1. written[v] \in NumberForms
    BY <1>2
  <2> QED
    BY <1>3, <2>1, PassedIsHeeded
<1>5. LimiterOff(cfg.env, "http") =>
        \/ written["MCP_RATE_RPM"] = "zero"
        \/ {written["MCP_RATE_RPM"], written["MCP_RATE_BURST"]} \cap {"nan", "inf"} # {}
  <2>1. "MCP_RATE_RPM" \in NumberVars
    BY DEF NumberVars, FloatVars
  <2>2. ~NumberRefused("MCP_RATE_RPM", written["MCP_RATE_RPM"])
    BY <1>3, <2>1
  <2>3. written["MCP_RATE_RPM"] # "negative"
    BY <2>2 DEF NumberRefused
  <2>4. Rate(cfg.env, "http") = InForce("MCP_RATE_RPM", cfg.env.numbers["MCP_RATE_RPM"])
    BY DEF Rate
  <2> QED
    BY <2>3, <2>4, OffAsWritten
<1>6. LimiterOff(cfg.env, "stdio") =>
        \/ written["MCP_RATE_RPM_STDIO"] \in {"zero", "negative"}
        \/ {written["MCP_RATE_RPM_STDIO"], written["MCP_RATE_BURST"]} \cap {"nan", "inf"} # {}
  <2>1. Rate(cfg.env, "stdio") = InForce("MCP_RATE_RPM_STDIO", cfg.env.numbers["MCP_RATE_RPM_STDIO"])
    BY DEF Rate
  <2> QED
    BY <2>1, OffAsWritten
<1> QED
  BY <1>4, <1>5, <1>6 DEF SettingsHold

\* Past the preflight a number of the environment is in force as it was written exactly
\* when it is none of those that nobody heeds, and a transport is without a rate limit
\* only by a value that says so or is no finite number, for every environment
\* (preflight_config and the readers of the settings).
THEOREM SettingsAlwaysHold == Spec => []SettingsHold
<1> DEFINE IInv == TypeOK /\ Screened
<1>1. Init => IInv
  BY TypeInit DEF Init, Screened
<1>2. IInv /\ [Next]_vars => IInv'
  BY TypeStep, ScreenedStep
<1>3. IInv => SettingsHold
  BY ScreenedHolds
<1> QED
  BY <1>1, <1>2, <1>3, PTL DEF Spec
=============================================================================
