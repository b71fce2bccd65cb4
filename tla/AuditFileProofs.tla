-------------------------- MODULE AuditFileProofs --------------------------
(***************************************************************************)
(* What the audit file and its mark say of each other: what a torn write   *)
(* costs, when the mark names the last line, and which starts raise which  *)
(* alarm; and that the log implements the trail of AuditTrail. For every   *)
(* set of threads and every bound.                                         *)
(***************************************************************************)
EXTENDS AuditLogProofs, FiniteSetTheorems, WellFoundedInduction

-----------------------------------------------------------------------------
(* What a write does to the lines                                          *)

\* lines with x behind them
Extended(new, lines, x) ==
  /\ new \in Seq(Lines) /\ Len(new) = Len(lines) + 1
  /\ new[Len(lines) + 1] = x
  /\ \A i \in 1 .. Len(lines) : new[i] = lines[i]

\* lines with x in the place of the last one
Replaced(new, lines, x) ==
  /\ lines # <<>> /\ new \in Seq(Lines) /\ Len(new) = Len(lines)
  /\ new[Len(lines)] = x
  /\ \A i \in 1 .. Len(lines) : i # Len(lines) => new[i] = lines[i]

LEMMA SizeOf ==
  ASSUME NEW lines \in Seq(Lines)
  PROVE  /\ Len(lines) \in Nat /\ DOMAIN lines = 1 .. Len(lines)
         /\ \A i \in 1 .. Len(lines) : lines[i] \in Lines
         /\ lines # <<>> <=> Len(lines) > 0
OBVIOUS

LEMMA LastOfExtended ==
  ASSUME NEW lines \in Seq(Lines), NEW x, NEW new, Extended(new, lines, x)
  PROVE  new # <<>> /\ Last(new) = x /\ new \in Seq(Lines)
<1>1. Len(lines) \in Nat /\ new \in Seq(Lines) /\ Len(new) = Len(lines) + 1
  BY DEF Extended
<1>2. new # <<>>
  BY <1>1
<1> QED
  BY <1>1, <1>2 DEF Extended, Last

LEMMA LastOfReplaced ==
  ASSUME NEW lines \in Seq(Lines), NEW x, NEW new, Replaced(new, lines, x)
  PROVE  new # <<>> /\ Last(new) = x /\ new \in Seq(Lines)
<1>1. Len(lines) \in Nat \ {0} /\ new \in Seq(Lines) /\ Len(new) = Len(lines)
  BY SizeOf DEF Replaced
<1>2. new # <<>>
  BY <1>1
<1> QED
  BY <1>1, <1>2 DEF Replaced, Last

\* An append, whole or not, adds a line or spoils the unfinished one.
LEMMA AppendOutcomes ==
  ASSUME NEW lines \in Seq(Lines), NEW line \in Lines
  PROVE  /\ ~Unfinished(lines) => /\ Extended(AppendLine(lines, line), lines, line)
                                  /\ Extended(AppendFragment(lines, line), lines, line)
         /\ Unfinished(lines) =>
              /\ Replaced(AppendLine(lines, line), lines, Unreadable("junk"))
              /\ Replaced(AppendFragment(lines, line), lines, Unreadable("torn"))
<1>1. Unreadable("junk") \in Lines /\ Unreadable("torn") \in Lines
  BY UnreadableType DEF Kinds
<1>2. CASE ~Unfinished(lines)
  <2>1. Extended(Append(lines, line), lines, line)
    BY DEF Extended
  <2> QED
    BY <1>2, <2>1 DEF AppendLine, AppendFragment
<1>3. CASE Unfinished(lines)
  <2>1. lines # <<>> /\ Len(lines) \in 1 .. Len(lines)
    BY <1>3, SizeOf DEF Unfinished
  <2>2. \A x \in Lines : Replaced([lines EXCEPT ![Len(lines)] = x], lines, x)
    BY <2>1 DEF Replaced
  <2> QED
    BY <1>1, <1>3, <2>2 DEF AppendLine, AppendFragment
<1> QED
  BY <1>2, <1>3

\* Where the log may go in one step.
Torn == \E f \in Fragments : log' = AppendFragment(log, f)

LEMMA StepsOnLog ==
  ASSUME TypeOK, MutexInv, [Next]_vars
  PROVE  \/ /\ UNCHANGED <<log, foreign, acked>> /\ tears' >= tears
         \/ \E t \in Threads : AppendOk(t)
         \/ /\ Torn /\ tears' = tears + 1 /\ UNCHANGED <<foreign, acked>>
            /\ \E t \in Threads : pc[t] = "append"
         \/ \E k \in 0 .. Len(log) - 1 : TailLost(k)
         \/ LogGone
         \/ LastRewritten
<1>0. tears \in Nat
  BY DEF TypeOK
<1>1. CASE PreflightOpen \/ AuditStartup \/ MarkGone \/ UNCHANGED vars
  BY <1>0, <1>1 DEF PreflightOpen, AuditStartup, MarkGone, Offline, vars, process, files, history
<1>2. ASSUME NEW t \in Threads, TakeSeq(t) \/ LockAndLink(t) \/ MarkOpen(t) \/ MarkWrite(t) \/ MarkFails(t)
      PROVE  UNCHANGED <<log, foreign, acked>> /\ tears' >= tears
  BY <1>0, <1>2 DEF TakeSeq, LockAndLink, MarkOpen, MarkWrite, MarkFails, files, history
<1>3. ASSUME NEW t \in Threads, AppendFails(t)
      PROVE  \/ /\ UNCHANGED <<log, foreign, acked>> /\ tears' >= tears
             \/ /\ Torn /\ tears' = tears + 1 /\ UNCHANGED <<foreign, acked>> /\ pc[t] = "append"
  BY <1>0, <1>3 DEF AppendFails, Torn, At
<1>4. CASE Crash
  BY <1>0, <1>4 DEF Crash, Torn, At
<1> QED
  BY <1>1, <1>2, <1>3, <1>4 DEF Next, Call

-----------------------------------------------------------------------------
(* What a torn write costs                                                 *)

\* The hashes of the whole lines.
Whole(lines) == {lines[i].hash : i \in {j \in DOMAIN lines : lines[j].kind = "entry"}}

\* Only the last line may lack its newline.
LinesEnd(lines) == \A i \in DOMAIN lines : i # Len(lines) => Terminated(lines[i])

\* Acknowledged entries that are neither in the file nor taken out by others.
Spoilt == acked \ (Whole(log) \cup foreign)

\* A fragment at the end has been paid for and may still spoil a line.
Owed(lines) == IF Unfinished(lines) THEN 1 ELSE 0

TearInv ==
  /\ LinesEnd(log)
  /\ IsFiniteSet(acked)
  /\ Cardinality(Spoilt) + Owed(log) <= tears

LEMMA WholeExtended ==
  ASSUME NEW lines \in Seq(Lines), NEW x, NEW new, Extended(new, lines, x), ~Unfinished(lines),
         LinesEnd(lines)
  PROVE  /\ Whole(lines) \subseteq Whole(new) /\ LinesEnd(new)
         /\ x.kind = "entry" => x.hash \in Whole(new)
<1>1. DOMAIN lines = 1 .. Len(lines) /\ Len(lines) \in Nat /\ new \in Seq(Lines)
  BY SizeOf DEF Extended
<1>2. DOMAIN new = 1 .. Len(lines) + 1 /\ new[Len(lines) + 1] = x
      /\ \A i \in 1 .. Len(lines) : new[i] = lines[i]
  BY <1>1 DEF Extended
<1>3. \A i \in DOMAIN lines : i \in DOMAIN new /\ new[i] = lines[i]
  BY <1>1, <1>2
<1>4. Whole(lines) \subseteq Whole(new)
  BY <1>3 DEF Whole
<1>5. \A i \in DOMAIN lines : Terminated(lines[i])
  <2>1. lines # <<>> => Terminated(lines[Len(lines)])
    BY DEF Unfinished, Last
  <2> QED
    BY <1>1, <2>1 DEF LinesEnd
<1>6. LinesEnd(new)
  <2>1. Len(new) = Len(lines) + 1
    BY DEF Extended
  <2>2. \A i \in DOMAIN new : i # Len(new) => i \in DOMAIN lines
    BY <1>1, <1>2, <2>1
  <2> QED
    BY <1>3, <1>5, <2>2 DEF LinesEnd
<1>7. Len(lines) + 1 \in DOMAIN new
  BY <1>1, <1>2
<1> QED
  BY <1>2, <1>4, <1>6, <1>7 DEF Whole

LEMMA WholeReplaced ==
  ASSUME NEW lines \in Seq(Lines), NEW x, NEW new, Replaced(new, lines, x), LinesEnd(lines)
  PROVE  /\ LinesEnd(new)
         /\ Whole(lines) \subseteq Whole(new) \cup {Last(lines).hash}
         /\ Last(lines).kind # "entry" => Whole(lines) \subseteq Whole(new)
<1>1. DOMAIN lines = 1 .. Len(lines) /\ new \in Seq(Lines) /\ Len(new) = Len(lines) /\ Last(lines) = lines[Len(lines)]
  BY SizeOf DEF Replaced, Last
<1>2. DOMAIN new = DOMAIN lines
  BY <1>1, SizeOf
<1>3. \A i \in DOMAIN lines : i # Len(lines) => new[i] = lines[i]
  BY <1>1 DEF Replaced
<1> QED
  BY <1>1, <1>2, <1>3 DEF Whole, LinesEnd

LEMMA WholeShortened ==
  ASSUME NEW lines \in Seq(Lines), NEW k \in 0 .. Len(lines) - 1, LinesEnd(lines)
  PROVE  LET short == SubSeq(lines, 1, k)
             lost == SubSeq(lines, k + 1, Len(lines))
         IN  /\ LinesEnd(short) /\ ~Unfinished(short)
             /\ Whole(lines) \subseteq Whole(short) \cup HashesOf(lost)
<1> DEFINE n == Len(lines)
           short == SubSeq(lines, 1, k)
           lost == SubSeq(lines, k + 1, n)
<1>1. n \in Nat /\ k \in Nat /\ k < n /\ DOMAIN lines = 1 .. n
  BY SizeOf
<1>2. short \in Seq(Lines) /\ Len(short) = k /\ DOMAIN short = 1 .. k /\ \A i \in 1 .. k : short[i] = lines[i]
  BY <1>1
<1>3. DOMAIN lost = 1 .. n - k /\ \A i \in 1 .. n - k : lost[i] = lines[k + i]
  BY <1>1
<1>4. \A i \in DOMAIN short : short[i] = lines[i] /\ i \in DOMAIN lines /\ Terminated(short[i])
  BY <1>1, <1>2 DEF LinesEnd
<1>5. ~Unfinished(short)
  <2>1. short # <<>> => Last(short) = short[k] /\ k \in DOMAIN short
    BY <1>1, <1>2 DEF Last
  <2> QED
    BY <1>4, <2>1 DEF Unfinished
<1>6. ASSUME NEW i \in DOMAIN lines, lines[i].kind = "entry"
      PROVE  lines[i].hash \in Whole(short) \cup HashesOf(lost)
  <2>1. CASE i <= k
    <3>1. i \in DOMAIN short /\ short[i] = lines[i]
      BY <1>1, <1>2, <2>1
    <3> QED
      BY <1>6, <3>1 DEF Whole
  <2>2. CASE i > k
    <3>1. i - k \in DOMAIN lost /\ lost[i - k] = lines[i]
      BY <1>1, <1>3, <2>2
    <3> QED
      BY <1>6, <3>1 DEF HashesOf, Readable
  <2> QED
    BY <1>1, <2>1, <2>2
<1> HIDE DEF short, lost
<1>7. Whole(lines) \subseteq Whole(short) \cup HashesOf(lost)
  BY <1>6 DEF Whole
<1>8. LinesEnd(short)
  BY <1>4 DEF LinesEnd
<1> QED
  BY <1>5, <1>7, <1>8 DEF short, lost, n

\* The arithmetic of a step.
LEMMA Sums ==
  ASSUME NEW a \in Nat, NEW b \in Nat, NEW c \in Nat, NEW d \in Nat, NEW o \in Nat,
         NEW p \in Nat, NEW s \in Nat, NEW u \in Nat,
         b <= a + c, d <= b, c + p + s <= o + u, a + o <= s
  PROVE  d + p <= u
OBVIOUS

LEMMA SpoiltBound ==
  ASSUME TearInv, TypeOK, NEW gone, NEW x, Spoilt' \subseteq Spoilt \cup gone,
         gone \subseteq {x}, LinesEnd(log)', IsFiniteSet(acked'), tears' \in Nat,
         (IF gone = {} THEN 0 ELSE 1) + Owed(log)' + tears <= Owed(log) + tears'
  PROVE  TearInv'
<1>1. IsFiniteSet(Spoilt) /\ Cardinality(Spoilt) \in Nat
  BY FS_Difference, FS_CardinalityType DEF TearInv, Spoilt
<1>2. IsFiniteSet(Spoilt \cup gone) /\ Cardinality(Spoilt \cup gone) \in Nat
      /\ Cardinality(Spoilt \cup gone) <= Cardinality(Spoilt) + (IF gone = {} THEN 0 ELSE 1)
  <2>1. CASE gone = {}
    <3>1. Spoilt \cup gone = Spoilt
      BY <2>1
    <3> QED
      BY <1>1, <2>1, <3>1
  <2>2. CASE gone = {x}
    <3>1. IsFiniteSet(Spoilt \cup {x})
          /\ Cardinality(Spoilt \cup {x}) \in {Cardinality(Spoilt), Cardinality(Spoilt) + 1}
      BY <1>1, FS_AddElement
    <3> QED
      BY <1>1, <2>2, <3>1
  <2> QED
    BY <2>1, <2>2
<1>3. Cardinality(Spoilt') \in Nat /\ Cardinality(Spoilt') <= Cardinality(Spoilt \cup gone)
  BY <1>2, FS_Subset, FS_CardinalityType
<1>4. Owed(log) \in Nat /\ Owed(log)' \in Nat
  BY DEF Owed
<1>5. Cardinality(Spoilt) + Owed(log) <= tears /\ tears \in Nat
  BY DEF TearInv, TypeOK
<1>6. Cardinality(Spoilt') + Owed(log)' <= tears'
  <2>1. (IF gone = {} THEN 0 ELSE 1) \in Nat
    OBVIOUS
  <2> QED
    BY <1>1, <1>2, <1>3, <1>4, <1>5, <2>1, Sums
<1> QED
  BY <1>6 DEF TearInv

\* Steps that put no acknowledged entry out of reach.
LEMMA NothingSpoilt ==
  ASSUME TearInv, TypeOK, TypeOK', Whole(log) \cup foreign \subseteq Whole(log') \cup foreign',
         acked' = acked, LinesEnd(log'), Owed(log)' + tears <= Owed(log) + tears'
  PROVE  TearInv'
<1>1. Spoilt' \subseteq Spoilt \cup {}
  BY DEF Spoilt
<1>2. IsFiniteSet(acked') /\ tears' \in Nat /\ tears \in Nat /\ Owed(log) \in Nat /\ Owed(log)' \in Nat
  BY DEF TearInv, TypeOK, Owed
<1> DEFINE gone == {}
<1>3. (IF gone = {} THEN 0 ELSE 1) + Owed(log)' + tears <= Owed(log) + tears'
  BY <1>2
<1>4. gone \subseteq {0} /\ Spoilt' \subseteq Spoilt \cup gone
  BY <1>1
<1> HIDE DEF gone
<1> QED
  BY <1>2, <1>3, <1>4, SpoiltBound

LEMMA AppendKeepsTears ==
  ASSUME TearInv, TypeOK, LinkInv, NEW t \in Threads, AppendOk(t)
  PROVE  TearInv'
<1>1. /\ log' = AppendLine(log, pending) /\ acked' = acked \cup {pending.hash}
      /\ tears' = tears /\ foreign' = foreign
      /\ pc[t] = "append"
  BY DEF AppendOk, At
<1>2. pending.kind = "entry" /\ pending \in Lines /\ log \in Seq(Lines) /\ tears \in Nat
  BY <1>1 DEF LinkInv, TypeOK
<1>3. IsFiniteSet(acked') /\ LinesEnd(log)
  BY <1>1, FS_AddElement DEF TearInv
<1>4. CASE ~Unfinished(log)
  <2>1. Extended(log', log, pending)
    BY <1>1, <1>2, <1>4, AppendOutcomes
  <2>2. Whole(log) \subseteq Whole(log') /\ LinesEnd(log') /\ pending.hash \in Whole(log')
    BY <1>2, <1>3, <1>4, <2>1, WholeExtended
  <2>3. ~Unfinished(log')
    BY <1>2, <2>1, LastOfExtended DEF Unfinished, Terminated
  <2>4. Spoilt' \subseteq Spoilt \cup {}
    BY <1>1, <2>2 DEF Spoilt
  <2>5. Owed(log) = 0 /\ Owed(log)' = 0
    BY <1>4, <2>3 DEF Owed
  <2> DEFINE gone == {}
  <2>6. (IF gone = {} THEN 0 ELSE 1) + Owed(log)' + tears <= Owed(log) + tears' /\ tears' \in Nat
    BY <1>1, <1>2, <2>5
  <2>7. gone \subseteq {0} /\ Spoilt' \subseteq Spoilt \cup gone
    BY <2>4
  <2> HIDE DEF gone
  <2> QED
    BY <1>3, <2>2, <2>6, <2>7, SpoiltBound
<1>5. CASE Unfinished(log)
  <2>1. Replaced(log', log, Unreadable("junk"))
    BY <1>1, <1>2, <1>5, AppendOutcomes
  <2>2. Last(log).kind # "entry"
    BY <1>5 DEF Unfinished, Terminated
  <2>3. Whole(log) \subseteq Whole(log') /\ LinesEnd(log')
    BY <1>2, <1>3, <2>1, <2>2, WholeReplaced
  <2>4. ~Unfinished(log')
    BY <1>2, <2>1, LastOfReplaced DEF Unfinished, Terminated, Unreadable
  <2>5. Spoilt' \subseteq Spoilt \cup {pending.hash}
    BY <1>1, <2>3 DEF Spoilt
  <2>6. Owed(log) = 1 /\ Owed(log)' = 0
    BY <1>5, <2>4 DEF Owed
  <2> DEFINE gone == {pending.hash}
  <2>7. (IF gone = {} THEN 0 ELSE 1) + Owed(log)' + tears <= Owed(log) + tears' /\ tears' \in Nat
    BY <1>1, <1>2, <2>6
  <2>8. gone \subseteq {pending.hash} /\ Spoilt' \subseteq Spoilt \cup gone
    BY <2>5
  <2> HIDE DEF gone
  <2> QED
    BY <1>3, <2>3, <2>7, <2>8, SpoiltBound
<1> QED
  BY <1>4, <1>5

LEMMA TornKeepsTears ==
  ASSUME TearInv, TypeOK, TypeOK', Torn, tears' = tears + 1, UNCHANGED <<foreign, acked>>
  PROVE  TearInv'
<1>1. PICK f \in Fragments : log' = AppendFragment(log, f)
  BY DEF Torn
<1>2. f \in Lines /\ log \in Seq(Lines) /\ tears \in Nat /\ LinesEnd(log)
  BY FragmentType DEF TypeOK, TearInv
<1>3. Whole(log) \subseteq Whole(log') /\ LinesEnd(log')
  <2>1. CASE ~Unfinished(log)
    <3>1. Extended(log', log, f)
      BY <1>1, <1>2, <2>1, AppendOutcomes
    <3> QED
      BY <1>2, <2>1, <3>1, WholeExtended
  <2>2. CASE Unfinished(log)
    <3>1. Replaced(log', log, Unreadable("torn"))
      BY <1>1, <1>2, <2>2, AppendOutcomes
    <3>2. Last(log).kind # "entry"
      BY <2>2 DEF Unfinished, Terminated
    <3> QED
      BY <1>2, <3>1, <3>2, WholeReplaced
  <2> QED
    BY <2>1, <2>2
<1>4. Owed(log) \in Nat /\ Owed(log)' \in {0, 1}
      /\ (Unfinished(log) => Owed(log) = 1)
  BY DEF Owed
<1> QED
  BY <1>2, <1>3, <1>4, NothingSpoilt

LEMMA TearsKept == TypeOK /\ TypeOK' /\ MutexInv /\ LinkInv /\ TearInv /\ [Next]_vars => TearInv'
<1> SUFFICES ASSUME TypeOK, TypeOK', MutexInv, LinkInv, TearInv, [Next]_vars
             PROVE  TearInv'
  OBVIOUS
<1>0. log \in Seq(Lines) /\ LinesEnd(log) /\ tears \in Nat /\ Owed(log) \in Nat
  BY DEF TypeOK, TearInv, Owed
<1>1. CASE UNCHANGED <<log, foreign, acked>> /\ tears' >= tears
  <2>1. Owed(log)' = Owed(log) /\ tears' \in Nat
    BY <1>1 DEF Owed, TypeOK
  <2> QED
    BY <1>0, <1>1, <2>1, NothingSpoilt
\* Other hands on the file: what goes is theirs, and what stays ends with its newline.
<1>2. ASSUME Offline, Whole(log) \subseteq Whole(log') \cup foreign', foreign \subseteq foreign',
             LinesEnd(log'), ~Unfinished(log')
      PROVE  TearInv'
  <2>1. tears' = tears /\ acked' = acked
    BY <1>2 DEF Offline
  <2>2. Owed(log)' = 0
    BY <1>2 DEF Owed
  <2> QED
    BY <1>0, <1>2, <2>1, <2>2, NothingSpoilt
<1>3. ASSUME NEW k \in 0 .. Len(log) - 1, TailLost(k)
      PROVE  TearInv'
  <2> DEFINE lost == SubSeq(log, k + 1, Len(log))
  <2>1. Offline /\ log' = SubSeq(log, 1, k) /\ foreign' = foreign \cup HashesOf(lost)
    BY <1>3 DEF TailLost
  <2>2. Whole(log) \subseteq Whole(log') \cup HashesOf(lost) /\ LinesEnd(log') /\ ~Unfinished(log')
    BY <1>0, <2>1, WholeShortened
  <2> QED
    BY <1>2, <2>1, <2>2
<1>4. CASE LogGone
  <2>1. Offline /\ log' = <<>> /\ foreign' = foreign \cup HashesOf(log)
    BY <1>4 DEF LogGone
  <2>2. Whole(log) \subseteq HashesOf(log)
    BY DEF Whole, HashesOf, Readable
  <2>3. LinesEnd(log') /\ ~Unfinished(log')
    BY <2>1 DEF LinesEnd, Unfinished
  <2> QED
    BY <1>2, <2>1, <2>2, <2>3
<1>5. CASE LastRewritten
  <2> DEFINE old == Last(log)
             new == Entry([old.body EXCEPT !.by = Free], old.prev)
  <2>1. Offline /\ foreign' = foreign \cup {old.hash} /\ log' = [log EXCEPT ![Len(log)] = new] /\ log # <<>>
    BY <1>5 DEF LastRewritten, Usable
  <2>2. new.kind = "entry"
    BY DEF Entry
  <2> HIDE DEF new
  <2>3. Replaced(log', log, new)
    BY <1>0, <2>1, SizeOf DEF Replaced, TypeOK
  <2>4. Whole(log) \subseteq Whole(log') \cup {old.hash} /\ LinesEnd(log')
    BY <1>0, <2>3, WholeReplaced
  <2>5. ~Unfinished(log')
    BY <1>0, <2>2, <2>3, LastOfReplaced DEF Unfinished, Terminated
  <2> QED
    BY <1>2, <2>1, <2>4, <2>5
<1> QED
  BY <1>1, <1>3, <1>4, <1>5, AppendKeepsTears, TornKeepsTears, StepsOnLog

LEMMA TearInit == Init => TearInv
<1> SUFFICES ASSUME Init PROVE TearInv
  OBVIOUS
<1>1. log = <<>> /\ acked = {} /\ tears = 0
  BY DEF Init
<1>2. Spoilt = {} /\ Owed(log) = 0 /\ LinesEnd(log)
  BY <1>1 DEF Spoilt, Owed, Unfinished, LinesEnd
<1> QED
  BY <1>1, <1>2, FS_EmptySet DEF TearInv

LEMMA LinkInit == Init => MutexInv /\ LinkInv
BY DEF Init, MutexInv, Inside, LinkInv, AllLinked

\* The three invariants of the module, and the bookkeeping of the torn writes with them.
Book == MutexInv /\ LinkInv /\ MarkInv /\ TearInv

LEMMA BookHolds == Spec => [](TypeOK /\ Book)
<1>1. Init => Book
  BY LinkInit, TearInit, IdleIsOutside DEF Book, Init, MarkInv, MarkNeverAhead
<1>2. TypeOK /\ TypeOK' /\ Book /\ [Next]_vars => Book'
  BY MutexKept, LinksKept, MarkKept, TearsKept DEF Book
<1> QED
  BY <1>1, <1>2, TypeCorrect, PTL DEF Spec

\* TearCostsAtMostOneEntry: append_line never looks at how the file ends, so the next
\* entry may be spoilt; no order of crashes, failures and restarts spoils a second.
THEOREM TearCostIsBounded == Spec => []TearCostsAtMostOneEntry
<1>1. TypeOK /\ Book => TearCostsAtMostOneEntry
  <2> SUFFICES ASSUME TypeOK, Book PROVE TearCostsAtMostOneEntry
    OBVIOUS
  <2> DEFINE seen == acked \ (HashesOf(log) \cup foreign)
  <2>1. Whole(log) \subseteq HashesOf(log)
    BY DEF Whole, HashesOf, Readable
  <2>2. seen \subseteq Spoilt
    BY <2>1 DEF Spoilt
  <2>3. IsFiniteSet(Spoilt) /\ Cardinality(Spoilt) \in Nat
    BY FS_Difference, FS_CardinalityType DEF Book, TearInv, Spoilt
  <2>4. Cardinality(seen) \in Nat /\ Cardinality(seen) <= Cardinality(Spoilt)
    BY <2>2, <2>3, FS_Subset, FS_CardinalityType
  <2>5. Cardinality(Spoilt) + Owed(log) <= tears /\ Owed(log) \in Nat /\ tears \in Nat
    BY DEF Book, TearInv, Owed, TypeOK
  <2> QED
    BY <2>3, <2>4, <2>5 DEF TearCostsAtMostOneEntry
<1> QED
  BY <1>1, BookHolds, PTL
-----------------------------------------------------------------------------
(* What the holder of the mutex carries                                    *)

Carried ==
  \A t \in Threads : pc[t] \in Inside =>
    pending.body.seq = mine[t] /\ pending = Entry(pending.body, pending.prev)

\* Whoever is past the lock after a step has just locked, or carries what it carried.
LEMMA InsideAfter ==
  ASSUME TypeOK, MutexInv, [Next]_vars, NEW u \in Threads, pc'[u] \in Inside
  PROVE  \/ LockAndLink(u)
         \/ pc[u] \in Inside /\ pending' = pending /\ mine'[u] = mine[u]
<1>1. CASE PreflightOpen \/ MarkGone \/ LogGone \/ LastRewritten \/ UNCHANGED vars
           \/ \E k \in 0 .. Len(log) - 1 : TailLost(k)
  BY <1>1 DEF PreflightOpen, MarkGone, LogGone, LastRewritten, TailLost, Offline, vars, process
<1>2. CASE AuditStartup
  <2>1. \A v \in Threads : pc[v] = "idle"
    BY <1>2 DEF AuditStartup, MutexInv
  <2>2. pc'[u] \in {"seq", "idle"}
    BY <1>2, <2>1, ThreadsAssumption, GoKeeps, PlacesType DEF AuditStartup
  <2> QED
    BY <2>2, IdleIsOutside
<1>3. CASE Crash
  BY <1>3, IdleIsOutside DEF Crash
<1>4. ASSUME NEW t \in Threads, TakeSeq(t)
      PROVE  pc[u] \in Inside /\ pending' = pending /\ mine'[u] = mine[u]
  <2>1. pc'[t] = "seq" /\ \A v \in Threads \ {t} : pc'[v] = pc[v]
    BY <1>4, GoKeeps, PlacesType DEF TakeSeq
  <2>2. pending' = pending /\ \A v \in Threads \ {t} : mine'[v] = mine[v]
    BY <1>4 DEF TakeSeq, TypeOK
  <2> QED
    BY <2>1, <2>2, IdleIsOutside
<1>5. ASSUME NEW t \in Threads, LockAndLink(t), u # t
      PROVE  FALSE
  <2>1. holder = Free /\ pc'[u] = pc[u]
    BY <1>5, GoKeeps, PlacesType DEF LockAndLink
  <2> QED
    BY <1>5, <2>1, OnlyHolderInside
<1>6. ASSUME NEW t \in Threads, AppendOk(t) \/ AppendFails(t) \/ MarkOpen(t) \/ MarkWrite(t) \/ MarkFails(t)
      PROVE  pc[u] \in Inside /\ pending' = pending /\ mine'[u] = mine[u]
  <2>1. pc[t] \in Inside /\ pending' = pending /\ mine' = mine
    BY <1>6, IdleIsOutside DEF AppendOk, AppendFails, MarkOpen, MarkWrite, MarkFails, Return, At
  <2>2. PICK there \in Places : Go(t, there)
    BY <1>6, PlacesType DEF AppendOk, AppendFails, MarkOpen, MarkWrite, MarkFails, Return
  <2>3. \A v \in Threads \ {t} : pc'[v] = pc[v]
    BY <2>2, GoKeeps
  <2> QED
    BY <2>1, <2>3
<1> QED
  BY <1>1, <1>2, <1>3, <1>4, <1>5, <1>6 DEF Next, Call

LEMMA CarriedKept == TypeOK /\ MutexInv /\ Carried /\ [Next]_vars => Carried'
<1> SUFFICES ASSUME TypeOK, MutexInv, Carried, [Next]_vars, NEW u \in Threads, pc'[u] \in Inside
             PROVE  pending'.body.seq = mine'[u] /\ pending' = Entry(pending'.body, pending'.prev)
  BY DEF Carried
<1>1. CASE LockAndLink(u)
  <2> DEFINE body == [seq |-> mine[u], by |-> u]
  <2>1. pending' = Entry(body, AUDIT_PREV) /\ mine' = mine
    BY <1>1 DEF LockAndLink
  <2>2. pending'.body = body /\ pending'.prev = AUDIT_PREV
    BY <2>1 DEF Entry
  <2> QED
    BY <2>1, <2>2
<1>2. CASE pc[u] \in Inside /\ pending' = pending /\ mine'[u] = mine[u]
  BY <1>2 DEF Carried
<1> QED
  BY <1>1, <1>2, InsideAfter

-----------------------------------------------------------------------------
(* The mark of a quiet log                                                 *)

Quiet == failures = 0 /\ tears = 0

QuietInv ==
  Quiet => /\ \A t \in Threads : pc[t] \in {"opening", "writing"} => log # <<>> /\ Last(log) = pending
           /\ MarkIsLastWhenQuiet

LEMMA QuietBefore ==
  ASSUME TypeOK, [Next]_vars, Quiet'
  PROVE  Quiet
<1>1. failures \in Nat /\ tears \in Nat
  BY DEF TypeOK
<1>2. failures' >= failures /\ tears' >= tears
  <2>1. CASE PreflightOpen \/ AuditStartup \/ UNCHANGED vars
    BY <1>1, <2>1 DEF PreflightOpen, AuditStartup, vars, history, counters
  <2>2. ASSUME NEW t \in Threads, Call(t)
        PROVE  failures' >= failures /\ tears' >= tears
    BY <1>1, <2>2
    DEF Call, TakeSeq, LockAndLink, AppendOk, AppendFails, MarkOpen, MarkWrite, MarkFails, history, counters
  <2>3. CASE Crash
    BY <1>1, <2>3 DEF Crash
  <2>4. CASE Offline
    BY <1>1, <2>4 DEF Offline
  <2> QED
    BY <2>1, <2>2, <2>3, <2>4 DEF Next, TailLost, LogGone, MarkGone, LastRewritten
<1> QED
  BY <1>1, <1>2 DEF Quiet

LEMMA QuietKeptByCall ==
  ASSUME TypeOK, MutexInv, LinkInv, TearInv, Carried, QuietInv, Quiet, Quiet',
         NEW t \in Threads, Call(t)
  PROVE  QuietInv'
<1>0. failures \in Nat /\ tears \in Nat /\ failures = 0 /\ tears = 0 /\ failures' = 0
  BY DEF TypeOK, Quiet
<1>1. CASE TakeSeq(t)
  <2>1. pc'[t] = "seq" /\ \A v \in Threads \ {t} : pc'[v] = pc[v]
    BY <1>1, GoKeeps, PlacesType DEF TakeSeq
  <2>2. UNCHANGED <<log, pending, mark, mode, holder, failures, tears>>
    BY <1>1 DEF TakeSeq, files, history, counters
  <2> QED
    BY <2>1, <2>2 DEF QuietInv, Quiet, MarkIsLastWhenQuiet
<1>2. CASE LockAndLink(t)
  <2>1. pc'[t] = "append" /\ \A v \in Threads \ {t} : pc'[v] = pc[v]
    BY <1>2, GoKeeps, PlacesType DEF LockAndLink
  <2>2. holder = Free /\ holder' = t
    BY <1>2 DEF LockAndLink
  <2>3. \A v \in Threads : pc'[v] \notin {"opening", "writing"}
    BY <2>1, <2>2, OnlyHolderInside DEF Inside
  <2> QED
    BY <2>2, <2>3, ThreadsAssumption DEF QuietInv, MarkIsLastWhenQuiet
<1>3. CASE AppendOk(t)
  <2>1. pc[t] = "append" /\ log' = AppendLine(log, pending) /\ pending' = pending /\ holder' = holder
    BY <1>3 DEF AppendOk, At
  <2>2. holder = t /\ t # Free
    BY <2>1, ThreadsAssumption, IdleIsOutside DEF MutexInv
  <2>3. ~Unfinished(log)
    <3>1. IsFiniteSet(Spoilt)
      BY FS_Difference DEF TearInv, Spoilt
    <3>2. Cardinality(Spoilt) \in Nat
      BY <3>1, FS_CardinalityType
    <3> QED
      BY <1>0, <3>2 DEF TearInv, Owed
  <2>4. Extended(log', log, pending)
    BY <2>1, <2>3, AppendOutcomes DEF TypeOK
  <2>5. log' # <<>> /\ Last(log') = pending
    BY <2>4, LastOfExtended DEF TypeOK
  <2> QED
    BY <2>1, <2>2, <2>5 DEF QuietInv, MarkIsLastWhenQuiet
<1>4. CASE AppendFails(t) \/ MarkFails(t)
  BY <1>0, <1>4 DEF AppendFails, MarkFails
<1>5. CASE MarkOpen(t)
  <2>1. pc[t] = "opening" /\ holder' = holder /\ UNCHANGED <<log, pending>>
    BY <1>5 DEF MarkOpen, At
  <2>2. holder = t /\ t # Free
    BY <2>1, ThreadsAssumption, IdleIsOutside DEF MutexInv
  <2>3. \A v \in Threads \ {t} : pc'[v] = pc[v]
    BY <1>5, GoKeeps, PlacesType DEF MarkOpen
  <2>4. log' # <<>> /\ Last(log') = pending'
    BY <2>1 DEF QuietInv
  <2> QED
    BY <2>1, <2>2, <2>4 DEF QuietInv, MarkIsLastWhenQuiet
<1>6. CASE MarkWrite(t)
  <2>1. pc[t] = "writing" /\ UNCHANGED <<log, pending>> /\ mark' = [seq |-> mine[t], hash |-> pending.hash]
        /\ Go(t, "idle")
    BY <1>6 DEF MarkWrite, Return, At
  <2>2. log # <<>> /\ Last(log) = pending
    BY <2>1 DEF QuietInv
  <2>3. pending.body.seq = mine[t]
    BY <2>1, IdleIsOutside DEF Carried
  <2>4. mark' = [seq |-> Last(log').body.seq, hash |-> Last(log').hash] /\ log' # <<>>
    BY <2>1, <2>2, <2>3
  <2>5. mark' # NoMark
    <3>1. mark' \in Marks
      BY <2>1 DEF TypeOK, Marks, Lines
    <3> QED
      BY <3>1, MarksAssumption
  <2>6. pc'[t] = "idle" /\ \A v \in Threads \ {t} : pc'[v] = pc[v]
    BY <2>1, GoKeeps, PlacesType
  <2>7. \A v \in Threads : pc'[v] \notin {"opening", "writing"}
    BY <2>1, <2>6, OnlyHolderInside DEF Inside
  <2> QED
    BY <2>4, <2>5, <2>7 DEF QuietInv, MarkIsLastWhenQuiet
<1> QED
  BY <1>1, <1>2, <1>3, <1>4, <1>5, <1>6 DEF Call
LEMMA QuietKept ==
  TypeOK /\ MutexInv /\ LinkInv /\ TearInv /\ Carried /\ QuietInv /\ [Next]_vars => QuietInv'
<1> SUFFICES ASSUME TypeOK, MutexInv, LinkInv, TearInv, Carried, QuietInv, [Next]_vars, Quiet'
             PROVE  QuietInv'
  BY DEF QuietInv
<1>0. Quiet
  BY QuietBefore
\* A step after which nobody serves.
<1>down. ASSUME mode' # "up", \A u \in Threads : pc'[u] \notin {"opening", "writing"}
         PROVE  QuietInv'
  BY <1>down DEF QuietInv, MarkIsLastWhenQuiet
<1>1. CASE PreflightOpen
  BY <1>1, <1>down DEF PreflightOpen, MutexInv
<1>2. CASE AuditStartup
  <2>1. \A u \in Threads : pc[u] = "idle"
    BY <1>2 DEF AuditStartup, MutexInv
  <2>2. \A u \in Threads : pc'[u] \in {"seq", "idle"}
    BY <1>2, <2>1, ThreadsAssumption, GoKeeps, PlacesType DEF AuditStartup
  <2> QED
    BY <1>2, <2>2, <1>down DEF AuditStartup
<1>3. ASSUME NEW t \in Threads, Call(t)
      PROVE  QuietInv'
  BY <1>0, <1>3, QuietKeptByCall
<1>4. CASE Crash
  BY <1>4, <1>down DEF Crash
<1>5. CASE Offline
  BY <1>5, OfflineIsOutside, <1>down
<1>6. CASE UNCHANGED vars
  BY <1>6 DEF vars, process, files, history, counters, QuietInv, Quiet, MarkIsLastWhenQuiet
<1> QED
  BY <1>1, <1>2, <1>3, <1>4, <1>5, <1>6 DEF Next, TailLost, LogGone, MarkGone, LastRewritten

LEMMA QuietHolds == Spec => [](TypeOK /\ Book /\ Carried /\ QuietInv)
<1>1. Init => Carried /\ QuietInv
  BY IdleIsOutside DEF Init, Carried, QuietInv, MarkIsLastWhenQuiet
<1>2. TypeOK /\ Book /\ Carried /\ QuietInv /\ [Next]_vars => Carried' /\ QuietInv'
  BY CarriedKept, QuietKept DEF Book
<1> QED
  BY <1>1, <1>2, BookHolds, PTL DEF Spec

\* MarkIsLastWhenQuiet: whatever the order in which threads took their numbers, once no
\* call is under way the mark names the last line (audit_log.rs:404-446).
THEOREM MarkAlwaysLastWhenQuiet == Spec => []MarkIsLastWhenQuiet
<1>1. TypeOK /\ QuietInv => MarkIsLastWhenQuiet
  BY DEF QuietInv, Quiet, MarkIsLastWhenQuiet
<1> QED
  BY <1>1, QuietHolds, PTL

-----------------------------------------------------------------------------
(* A marked entry that is gone                                             *)

\* A readable line says what its hash says.
WholeLine(line) == Readable(line) => line.hash = Digest(line.prev, line.body)

AllWhole(lines) == \A i \in DOMAIN lines : WholeLine(lines[i])

WholeInv == AllWhole(log) /\ AllWhole(cut)

LEMMA UnreadableIsWhole == WholeLine(Unreadable("junk")) /\ WholeLine(Unreadable("torn"))
BY UnreadableIsUnreadable DEF WholeLine

LEMMA WholeAfter ==
  ASSUME NEW lines \in Seq(Lines), NEW new, NEW x, AllWhole(lines), WholeLine(x),
         Extended(new, lines, x) \/ Replaced(new, lines, x)
  PROVE  AllWhole(new)
<1>1. DOMAIN lines = 1 .. Len(lines) /\ Len(lines) \in Nat /\ new \in Seq(Lines)
  BY SizeOf DEF Extended, Replaced
<1>2. DOMAIN new = 1 .. Len(new)
  BY <1>1
<1>3. ASSUME NEW i \in DOMAIN new
      PROVE  new[i] = x \/ (i \in DOMAIN lines /\ new[i] = lines[i])
  <2>1. CASE Extended(new, lines, x)
    BY <1>1, <1>2, <1>3, <2>1 DEF Extended
  <2>2. CASE Replaced(new, lines, x)
    BY <1>1, <1>2, <1>3, <2>2 DEF Replaced
  <2> QED
    BY <2>1, <2>2
<1> QED
  BY <1>3 DEF AllWhole

LEMMA WholeJoined ==
  ASSUME NEW a \in Seq(Lines), NEW b \in Seq(Lines), AllWhole(a), AllWhole(b)
  PROVE  AllWhole(a \o b)
<1>1. \A i \in DOMAIN (a \o b) : \/ i \in DOMAIN a /\ (a \o b)[i] = a[i]
                                 \/ i - Len(a) \in DOMAIN b /\ (a \o b)[i] = b[i - Len(a)]
  OBVIOUS
<1> QED
  BY <1>1 DEF AllWhole

LEMMA WholePart ==
  ASSUME NEW lines \in Seq(Lines), AllWhole(lines), NEW k \in 0 .. Len(lines) - 1
  PROVE  /\ AllWhole(SubSeq(lines, 1, k)) /\ SubSeq(lines, 1, k) \in Seq(Lines)
         /\ AllWhole(SubSeq(lines, k + 1, Len(lines))) /\ SubSeq(lines, k + 1, Len(lines)) \in Seq(Lines)
<1>1. Len(lines) \in Nat /\ k \in Nat /\ k < Len(lines) /\ DOMAIN lines = 1 .. Len(lines)
  BY SizeOf
<1>2. \A i \in DOMAIN SubSeq(lines, 1, k) : i \in DOMAIN lines /\ SubSeq(lines, 1, k)[i] = lines[i]
  BY <1>1
<1>3. \A i \in DOMAIN SubSeq(lines, k + 1, Len(lines)) :
        k + i \in DOMAIN lines /\ SubSeq(lines, k + 1, Len(lines))[i] = lines[k + i]
  BY <1>1
<1>4. SubSeq(lines, 1, k) \in Seq(Lines) /\ SubSeq(lines, k + 1, Len(lines)) \in Seq(Lines)
  BY <1>1
<1> QED
  BY <1>2, <1>3, <1>4 DEF AllWhole

\* What is being written is whole, even when part of it is all that lands.
LEMMA PendingIsWhole ==
  ASSUME TypeOK, Carried, NEW t \in Threads, pc[t] = "append"
  PROVE  pending \in Lines /\ WholeLine(pending) /\ \A f \in Fragments : f \in Lines /\ WholeLine(f)
<1>1. pending \in Lines /\ pending = Entry(pending.body, pending.prev)
  BY IdleIsOutside DEF TypeOK, Carried
<1>2. pending.hash = Digest(pending.prev, pending.body)
  BY <1>1 DEF Entry
<1>3. [pending EXCEPT !.kind = "bare"].hash = pending.hash /\ [pending EXCEPT !.kind = "bare"].prev = pending.prev
      /\ [pending EXCEPT !.kind = "bare"].body = pending.body
  BY <1>1 DEF Lines
<1>4. \A f \in Fragments : WholeLine(f)
  BY <1>2, <1>3, UnreadableIsWhole DEF Fragments, WholeLine
<1> QED
  BY <1>1, <1>2, <1>4, FragmentType DEF WholeLine

LEMMA WholeKept == TypeOK /\ MutexInv /\ Carried /\ WholeInv /\ [Next]_vars => WholeInv'
<1> SUFFICES ASSUME TypeOK, MutexInv, Carried, WholeInv, [Next]_vars
             PROVE  WholeInv'
  OBVIOUS
<1>0. log \in Seq(Lines) /\ cut \in Seq(Lines) /\ AllWhole(log) /\ AllWhole(cut) /\ AllWhole(<<>>)
  BY DEF TypeOK, WholeInv, AllWhole
<1>1. CASE PreflightOpen \/ MarkGone \/ UNCHANGED vars
  BY <1>0, <1>1 DEF PreflightOpen, MarkGone, vars, files, history, WholeInv
<1>2. CASE AuditStartup
  BY <1>0, <1>2 DEF AuditStartup, files, WholeInv
<1>3. ASSUME NEW t \in Threads,
             TakeSeq(t) \/ LockAndLink(t) \/ MarkOpen(t) \/ MarkWrite(t) \/ MarkFails(t)
      PROVE  WholeInv'
  BY <1>0, <1>3 DEF TakeSeq, LockAndLink, MarkOpen, MarkWrite, MarkFails, files, history, WholeInv
<1>4. ASSUME NEW t \in Threads, AppendOk(t)
      PROVE  WholeInv'
  <2>1. pc[t] = "append" /\ log' = AppendLine(log, pending) /\ cut' = cut
    BY <1>4 DEF AppendOk, At
  <2>2. AllWhole(log')
    BY <1>0, <2>1, PendingIsWhole, UnreadableIsWhole, AppendOutcomes, WholeAfter
  <2> QED
    BY <1>0, <2>1, <2>2 DEF WholeInv
<1>5. ASSUME NEW t \in Threads, pc[t] = "append", cut' = cut,
             log' = log \/ \E f \in Fragments : log' = AppendFragment(log, f)
      PROVE  WholeInv'
  <2>1. ASSUME NEW f \in Fragments, log' = AppendFragment(log, f)
        PROVE  AllWhole(log')
    <3>1. f \in Lines /\ WholeLine(f)
      BY <1>5, PendingIsWhole
    <3> QED
      BY <1>0, <2>1, <3>1, UnreadableIsWhole, AppendOutcomes, WholeAfter
  <2> QED
    BY <1>0, <1>5, <2>1 DEF WholeInv
<1>6. ASSUME NEW t \in Threads, AppendFails(t)
      PROVE  WholeInv'
  BY <1>5, <1>6 DEF AppendFails, At
<1>7. CASE Crash
  BY <1>0, <1>5, <1>7 DEF Crash, At, WholeInv
<1>8. ASSUME NEW k \in 0 .. Len(log) - 1, TailLost(k)
      PROVE  WholeInv'
  <2> DEFINE lost == SubSeq(log, k + 1, Len(log))
  <2>1. log' = SubSeq(log, 1, k) /\ cut' = lost \o cut
    BY <1>8 DEF TailLost
  <2>2. AllWhole(log') /\ AllWhole(lost) /\ lost \in Seq(Lines)
    BY <1>0, <2>1, WholePart
  <2> HIDE DEF lost
  <2> QED
    BY <1>0, <2>1, <2>2, WholeJoined DEF WholeInv
<1>9. CASE LogGone
  <2>1. log' = <<>> /\ cut' = log \o cut
    BY <1>9 DEF LogGone
  <2> QED
    BY <1>0, <2>1, WholeJoined DEF WholeInv
<1>10. CASE LastRewritten
  <2> DEFINE old == Last(log)
             new == Entry([old.body EXCEPT !.by = Free], old.prev)
  <2>1. log' = [log EXCEPT ![Len(log)] = new] /\ log # <<>> /\ cut' = cut
    BY <1>10 DEF LastRewritten, Usable
  <2>2. WholeLine(new)
    BY DEF Entry, WholeLine
  <2> HIDE DEF new
  <2>3. \A i \in DOMAIN log' : i \in DOMAIN log /\ (log'[i] = new \/ log'[i] = log[i])
    BY <1>0, <2>1
  <2> QED
    BY <1>0, <2>1, <2>2, <2>3 DEF WholeInv, AllWhole
<1> QED
  BY <1>1, <1>2, <1>3, <1>4, <1>6, <1>7, <1>8, <1>9, <1>10 DEF Next, Call

LEMMA WholeHolds == Spec => [](TypeOK /\ Book /\ Carried /\ WholeInv)
<1>1. Init => WholeInv
  BY DEF Init, WholeInv, AllWhole
<1>2. TypeOK /\ Book /\ Carried /\ WholeInv /\ [Next]_vars => WholeInv'
  BY WholeKept DEF Book
<1> QED
  BY <1>1, <1>2, QuietHolds, PTL DEF Spec

\* What a start answers when the log can be used and there is a mark.
LEMMA ResumeUsable ==
  ASSUME NEW lines, NEW m \in Marks, Usable(lines)
  PROVE  resume_state_of(TRUE, lines, m) = ResumeFromBoth(Last(lines), m)
BY MarksAssumption DEF resume_state_of

\* LossOfMarkedEntryNoticed: the comparison of numbers and hashes at the start is enough,
\* because the mark is never ahead and lines written in order have growing numbers.
THEOREM MarkedLossAlwaysNoticed == Spec => LossOfMarkedEntryNoticed
<1> DEFINE Noticed == (Starting /\ mark # NoMark /\ InOrder(log \o cut)
                        /\ mark.hash \in HashesOf(cut) /\ mark.hash \notin HashesOf(log))
                      => alarm' # "none"
<1>1. TypeOK /\ Book /\ WholeInv /\ [Next]_vars => Noticed
  <2> SUFFICES ASSUME TypeOK, Book, WholeInv, [Next]_vars, Starting, mark # NoMark,
                      InOrder(log \o cut), mark.hash \in HashesOf(cut)
               PROVE  alarm' # "none"
    OBVIOUS
  <2>1. AuditStartup
    BY DEF Starting, Next, PreflightOpen, Call, TakeSeq, LockAndLink, AppendOk, AppendFails, MarkOpen,
           MarkWrite, MarkFails, Return, Crash, TailLost, LogGone, MarkGone, LastRewritten, Offline,
           vars, process
  <2>2. exists /\ mark \in Marks /\ log \in Seq(Lines) /\ cut \in Seq(Lines)
    BY DEF Starting, Book, MutexInv, TypeOK
  <2>3. alarm' = resume_state_of(exists, log, mark).anomaly
    BY <2>1 DEF AuditStartup
  <2>4. CASE ~Usable(log)
    BY <2>2, <2>3, <2>4 DEF resume_state_of, Resume
  <2>5. CASE Usable(log)
    <3>1. PICK i \in DOMAIN cut : Readable(cut[i]) /\ cut[i].hash = mark.hash
      BY DEF HashesOf
    <3>2. cut[i] \in Lines /\ i \in 1 .. Len(cut)
      BY <2>2
    <3>3. mark.seq = cut[i].body.seq
      <4>1. mark.hash = Digest(cut[i].prev, cut[i].body)
        BY <3>1 DEF WholeInv, AllWhole, WholeLine
      <4>2. cut[i].prev \in Hashes /\ cut[i].body \in Bodies
        BY <3>2 DEF Lines
      <4>3. Last(mark.hash) = cut[i].body
        BY <4>1, <4>2, LastOfDigest
      <4> QED
        BY <4>3 DEF Book, MarkInv, MarkNeverAhead
    <3>4. log # <<>> /\ Readable(Last(log)) /\ Last(log) = log[Len(log)] /\ Len(log) \in 1 .. Len(log)
          /\ Last(log) \in Lines
      BY <2>2, <2>5, LastLine DEF Usable
    <3>5. /\ Len(log) \in DOMAIN (log \o cut) /\ (log \o cut)[Len(log)] = log[Len(log)]
          /\ Len(log) + i \in DOMAIN (log \o cut) /\ (log \o cut)[Len(log) + i] = cut[i]
          /\ Len(log) < Len(log) + i
      BY <2>2, <3>2, <3>4
    <3>6. Last(log).body.seq < mark.seq
      BY <3>1, <3>3, <3>4, <3>5 DEF InOrder
    <3>7. alarm' = ResumeFromBoth(Last(log), mark).anomaly
      BY <2>2, <2>3, <2>5, ResumeUsable
    <3> QED
      BY <3>6, <3>7 DEF ResumeFromBoth, Resume
  <2> QED
    BY <2>4, <2>5
<1>2. TypeOK /\ Book /\ WholeInv /\ [Next]_vars => [Noticed]_vars
  BY <1>1
<1> HIDE DEF Noticed
<1>3. Spec => [][Noticed]_vars
  BY <1>2, WholeHolds, PTL DEF Spec
<1> QED
  BY <1>3 DEF LossOfMarkedEntryNoticed, Noticed
-----------------------------------------------------------------------------
(* A loss that was announced leaves a scar                                 *)

Scarred(lines) == \E i \in DOMAIN lines : LineVerdict(lines, i) # "ok"

LEMMA SmallestOf ==
  ASSUME NEW S \in SUBSET Nat, S # {}
  PROVE  \E i \in S : \A j \in S : i <= j
<1> DEFINE less == OpToRel(<, Nat)
<1>1. IsWellFoundedOn(less, Nat) /\ \A i, j \in Nat : j < i => <<j, i>> \in less
  <2>1. \A i, j \in Nat : j < i => <<j, i>> \in less
    BY DEF OpToRel
  <2> QED
    BY <2>1, NatLessThanWellFounded
<1> HIDE DEF less
<1>2. PICK i \in S : \A j \in S : <<j, i>> \notin less
  BY <1>1, WFMin
<1>3. ASSUME NEW j \in S PROVE i <= j
  <2>1. i \in Nat /\ j \in Nat
    OBVIOUS
  <2>2. ~(j < i)
    BY <1>1, <1>2, <2>1, Zenon
  <2> QED
    BY <2>1, <2>2
<1> QED
  BY <1>3

\* The first complaint exists when there is one.
LEMMA ScarRefused ==
  ASSUME NEW lines \in Seq(Lines), Scarred(lines)
  PROVE  verify_audit_file(lines) # "ok"
<1> DEFINE bad == {i \in DOMAIN lines : LineVerdict(lines, i) # "ok"}
<1>1. bad # {} /\ bad \subseteq Nat
  BY SizeOf DEF Scarred
<1> HIDE DEF bad
<1>2. \E i \in bad : \A j \in bad : i <= j
  BY <1>1, SmallestOf
<1>3. LineVerdict(lines, CHOOSE k \in bad : \A j \in bad : k <= j) # "ok"
  <2>1. (CHOOSE k \in bad : \A j \in bad : k <= j) \in bad
    BY <1>2
  <2> QED
    BY <2>1 DEF bad
<1> QED
  BY <1>1, <1>3 DEF verify_audit_file, bad

LEMMA UnreadableIsScar ==
  ASSUME NEW lines, NEW i \in DOMAIN lines, ~Readable(lines[i])
  PROVE  Scarred(lines)
BY DEF Scarred, LineVerdict

LEMMA ScarStays ==
  ASSUME NEW lines \in Seq(Lines), NEW x, NEW new, Extended(new, lines, x), Scarred(lines)
  PROVE  Scarred(new)
<1>1. PICK i \in DOMAIN lines : LineVerdict(lines, i) # "ok"
  BY DEF Scarred
<1>2. DOMAIN lines = 1 .. Len(lines) /\ Len(lines) \in Nat /\ new \in Seq(Lines) /\ Len(new) = Len(lines) + 1
  BY SizeOf DEF Extended
<1>3. i \in DOMAIN new /\ new[i] = lines[i] /\ (i # 1 => new[i - 1] = lines[i - 1])
  BY <1>1, <1>2 DEF Extended
<1>4. LineVerdict(new, i) = LineVerdict(lines, i)
  BY <1>1, <1>2, <1>3 DEF LineVerdict
<1> QED
  BY <1>1, <1>3, <1>4 DEF Scarred

\* The line behind a gap is a scar, whatever it is linked to.
LEMMA GapIsScar ==
  ASSUME NEW lines \in Seq(Lines), lines # <<>>, NEW x \in Lines, NEW new, Extended(new, lines, x),
         Last(lines).body.seq + 1 < x.body.seq
  PROVE  Scarred(new)
<1> DEFINE n == Len(lines)
<1>1. n \in Nat /\ n >= 1 /\ new \in Seq(Lines) /\ Len(new) = n + 1
  BY SizeOf DEF Extended
<1>2. new[n + 1] = x /\ new[n] = Last(lines) /\ n + 1 \in DOMAIN new
  BY <1>1 DEF Extended, Last
<1>3. x.body.seq # Last(lines).body.seq + 1
  <2>1. Last(lines).body.seq \in Nat /\ x.body.seq \in Nat
    BY LastLine DEF Lines, Bodies
  <2> QED
    BY <2>1
<1>4. LineVerdict(new, n + 1) # "ok"
  <2>1. (n + 1) - 1 = n /\ n + 1 # 1 /\ n + 1 > 1
    BY <1>1
  <2> QED
    BY <1>2, <1>3, <2>1 DEF LineVerdict
<1> QED
  BY <1>2, <1>4 DEF Scarred

LEMMA SpoiltIsScar ==
  ASSUME NEW lines \in Seq(Lines), NEW x, NEW new, Replaced(new, lines, x), ~Readable(x)
  PROVE  Scarred(new)
<1>1. Len(lines) \in Nat /\ Len(lines) >= 1 /\ new \in Seq(Lines) /\ Len(new) = Len(lines)
  BY SizeOf DEF Replaced
<1>2. Len(lines) \in DOMAIN new /\ new[Len(lines)] = x
  BY <1>1 DEF Replaced
<1> QED
  BY <1>2, UnreadableIsScar

\* Numbering goes on behind the mark, so the file is scarred or the next line scars it.
Waiting ==
  /\ log # <<>>
  /\ Last(log).body.seq + 1 <= AUDIT_SEQ
  /\ \A t \in Threads : pc[t] \in {"seq", "append"} => Last(log).body.seq + 1 < mine[t]

ScarInv ==
  /\ mode \in {"down", "preflight"} => alarm = "none"
  /\ alarm = "missing" => Scarred(log) \/ Waiting

\* Whatever lands behind the last line scars the file.
LEMMA AnyWriteScars ==
  ASSUME TypeOK, Carried, Scarred(log) \/ Waiting, NEW t \in Threads, pc[t] = "append",
         \/ log' = AppendLine(log, pending)
         \/ \E f \in Fragments : log' = AppendFragment(log, f)
  PROVE  Scarred(log')
<1>0. log \in Seq(Lines) /\ pending \in Lines
  BY DEF TypeOK
<1>1. CASE Unfinished(log)
  <2>1. Replaced(log', log, Unreadable("junk")) \/ Replaced(log', log, Unreadable("torn"))
    BY <1>0, <1>1, AppendOutcomes, FragmentType
  <2> QED
    BY <1>0, <2>1, SpoiltIsScar, UnreadableIsUnreadable
<1>2. CASE ~Unfinished(log)
  <2>1. PICK x \in Fragments \cup {pending} : Extended(log', log, x)
    BY <1>0, <1>2, AppendOutcomes, FragmentType
  <2>2. CASE Scarred(log)
    BY <1>0, <2>1, <2>2, ScarStays
  <2>3. CASE x = Unreadable("torn")
    <3>1. log' \in Seq(Lines) /\ Len(log) \in Nat /\ Len(log') = Len(log) + 1 /\ log'[Len(log) + 1] = x
      BY <1>0, <2>1, SizeOf DEF Extended
    <3>2. Len(log) + 1 \in DOMAIN log'
      BY <3>1
    <3> QED
      BY <2>3, <3>1, <3>2, UnreadableIsScar, UnreadableIsUnreadable
  <2>4. CASE Waiting /\ x # Unreadable("torn")
    <3>1. x \in Lines /\ x.body = pending.body
      BY <1>0, <2>1, <2>4 DEF Fragments, Lines, Kinds
    <3>2. pending.body.seq = mine[t]
      BY IdleIsOutside DEF Carried
    <3>3. log # <<>> /\ Last(log).body.seq + 1 < x.body.seq
      BY <2>4, <3>1, <3>2 DEF Waiting
    <3> QED
      BY <1>0, <2>1, <3>1, <3>3, GapIsScar
  <2> QED
    BY <2>2, <2>3, <2>4
<1> QED
  BY <1>1, <1>2

LEMMA MissingMeansBehind ==
  ASSUME TypeOK, MutexInv, mode = "preflight", resume_state_of(exists, log, mark).anomaly = "missing"
  PROVE  /\ log # <<>> /\ Last(log).body.seq \in Nat
         /\ Last(log).body.seq < resume_state_of(exists, log, mark).seq
<1>0. exists /\ log \in Seq(Lines) /\ mark \in Marks \cup {NoMark}
  BY DEF MutexInv, TypeOK
<1>1. Usable(log) /\ mark \in Marks
  BY <1>0 DEF resume_state_of, Resume
<1>2. resume_state_of(exists, log, mark) = ResumeFromBoth(Last(log), mark)
  BY <1>0, <1>1, ResumeUsable
<1>3. log # <<>> /\ Last(log).body.seq \in Nat /\ mark.seq \in Nat
  BY <1>0, <1>1, LastLine DEF Usable, Lines, Bodies, Marks
<1>4. Last(log).body.seq < mark.seq
  BY <1>2 DEF ResumeFromBoth, Resume
<1> QED
  BY <1>2, <1>3, <1>4 DEF ResumeFromBoth, Resume

LEMMA ScarKept == TypeOK /\ MutexInv /\ Carried /\ ScarInv /\ [Next]_vars => ScarInv'
<1> SUFFICES ASSUME TypeOK, MutexInv, Carried, ScarInv, [Next]_vars
             PROVE  ScarInv'
  OBVIOUS
<1>0. AUDIT_SEQ \in Nat /\ log \in Seq(Lines) /\ (log # <<>> => Last(log).body.seq \in Nat)
  BY LastLine DEF TypeOK, Lines, Bodies
<1>1. CASE PreflightOpen \/ UNCHANGED vars
  <2>1. UNCHANGED <<alarm, log, AUDIT_SEQ, pc, mine>>
        /\ (mode' \in {"down", "preflight"} => mode \in {"down", "preflight"})
    BY <1>1 DEF PreflightOpen, vars, process, files
  <2> QED
    BY <2>1 DEF ScarInv, Waiting
<1>2. CASE AuditStartup
  <2>0. mode = "preflight" /\ mode' = "starting" /\ log' = log
        /\ alarm' = resume_state_of(exists, log, mark).anomaly
        /\ AUDIT_SEQ' = resume_state_of(exists, log, mark).seq + 1
        /\ mine' = [mine EXCEPT ![Main] = AUDIT_SEQ'] /\ Go(Main, "seq")
    BY <1>2 DEF AuditStartup, files
  <2>1. \A u \in Threads : pc[u] = "idle"
    BY <2>0 DEF MutexInv
  <2>2. \A u \in Threads \ {Main} : pc'[u] = "idle"
    BY <2>0, <2>1, ThreadsAssumption, GoKeeps, PlacesType
  <2>3. mine'[Main] = AUDIT_SEQ'
    BY <2>0, ThreadsAssumption DEF TypeOK
  <2>4. resume_state_of(exists, log, mark).seq \in Nat
    BY ResumeType DEF TypeOK
  <2>5. ASSUME alarm' = "missing" PROVE Waiting'
    <3>1. log' # <<>> /\ Last(log').body.seq \in Nat /\ Last(log').body.seq + 1 < AUDIT_SEQ'
      BY <2>0, <2>4, <2>5, MissingMeansBehind
    <3> QED
      BY <2>0, <2>2, <2>3, <2>4, <3>1 DEF Waiting
  <2> QED
    BY <2>0, <2>5 DEF ScarInv
\* A call changes neither the alarm nor, before its append, the file.
<1>3. ASSUME NEW t \in Threads, Call(t)
      PROVE  ScarInv'
  <2>1. alarm' = alarm /\ mode' \notin {"down", "preflight"}
    <3>1. alarm' = alarm /\ mode' \in {mode, "up"}
      BY <1>3 DEF Call, TakeSeq, LockAndLink, AppendOk, AppendFails, MarkOpen, MarkWrite, MarkFails, Return
    <3>2. mode \notin {"down", "preflight"}
      BY <1>3, IdleIsOutside
      DEF MutexInv, Call, TakeSeq, LockAndLink, AppendOk, AppendFails, MarkOpen, MarkWrite, MarkFails, At
    <3> QED
      BY <3>1, <3>2
  <2> SUFFICES ASSUME alarm = "missing", Scarred(log) \/ Waiting
               PROVE  Scarred(log') \/ Waiting'
    BY <2>1 DEF ScarInv
  <2>2. CASE TakeSeq(t)
    <3>1. pc'[t] = "seq" /\ \A v \in Threads \ {t} : pc'[v] = pc[v]
      BY <2>2, GoKeeps, PlacesType DEF TakeSeq
    <3>2. log' = log /\ AUDIT_SEQ' = AUDIT_SEQ + 1 /\ mine'[t] = AUDIT_SEQ + 1
          /\ \A v \in Threads \ {t} : mine'[v] = mine[v]
      BY <2>2 DEF TakeSeq, TypeOK, files
    <3>3. ASSUME Waiting PROVE Waiting'
      <4>1. log # <<>> /\ Last(log).body.seq + 1 <= AUDIT_SEQ
        BY <3>3 DEF Waiting
      <4> QED
        BY <1>0, <3>1, <3>2, <3>3, <4>1 DEF Waiting
    <3> QED
      BY <3>2, <3>3
  <2>3. CASE LockAndLink(t)
    <3>1. pc[t] = "seq" /\ pc'[t] = "append" /\ \A v \in Threads \ {t} : pc'[v] = pc[v]
      BY <2>3, GoKeeps, PlacesType DEF LockAndLink, At
    <3>2. UNCHANGED <<log, AUDIT_SEQ, mine>>
      BY <2>3 DEF LockAndLink, files
    <3> QED
      BY <3>1, <3>2 DEF Waiting
  <2>4. CASE AppendOk(t)
    BY <2>4, AnyWriteScars DEF AppendOk, At
  <2>5. CASE AppendFails(t) /\ log' # log
    BY <2>5, AnyWriteScars DEF AppendFails, At
  <2>6. CASE (AppendFails(t) /\ log' = log) \/ MarkOpen(t) \/ MarkWrite(t) \/ MarkFails(t)
    <3>1. UNCHANGED <<log, AUDIT_SEQ, mine>>
      BY <2>6 DEF AppendFails, MarkOpen, MarkWrite, MarkFails, Return, files
    <3>2. PICK there \in {"idle", "writing"} : Go(t, there)
      BY <2>6 DEF AppendFails, MarkOpen, MarkWrite, MarkFails, Return
    <3>3. pc'[t] \notin {"seq", "append"} /\ \A v \in Threads \ {t} : pc'[v] = pc[v]
      BY <3>2, GoKeeps, PlacesType
    <3> QED
      BY <3>1, <3>3 DEF Waiting
  <2> QED
    BY <1>3, <2>2, <2>3, <2>4, <2>5, <2>6 DEF Call
<1>4. CASE Crash
  BY <1>4 DEF Crash, ScarInv
<1>5. CASE Offline
  <2>1. mode' = "down" /\ alarm' = "none"
    BY <1>5 DEF Offline, process, ScarInv
  <2> QED
    BY <2>1 DEF ScarInv
<1> QED
  BY <1>1, <1>2, <1>3, <1>4, <1>5 DEF Next, TailLost, LogGone, MarkGone, LastRewritten

\* NoticedLossLeavesScar: the numbers go on from the mark, so the line after the loss is
\* never the successor of the last one left.
THEOREM NoticedLossAlwaysScars == Spec => NoticedLossLeavesScar
<1> DEFINE Scars == alarm = "missing" /\ acks' > acks => verify_audit_file(log') # "ok"
<1>1. TypeOK /\ TypeOK' /\ Book /\ Carried /\ ScarInv /\ [Next]_vars => Scars
  <2> SUFFICES ASSUME TypeOK, TypeOK', Book, Carried, ScarInv, [Next]_vars, alarm = "missing", acks' > acks
               PROVE  verify_audit_file(log') # "ok"
    OBVIOUS
  <2>1. acks \in Nat /\ log' \in Seq(Lines)
    BY DEF TypeOK
  <2>2. PICK t \in Threads : AppendOk(t)
    <3>1. CASE UNCHANGED acks
      BY <2>1, <3>1
    <3>2. CASE acks' # acks
      BY <3>2 DEF Next, PreflightOpen, AuditStartup, Call, TakeSeq, LockAndLink, AppendFails, MarkOpen,
        MarkWrite, MarkFails, Crash, TailLost, LogGone, MarkGone, LastRewritten, Offline, vars, history
    <3> QED
      BY <3>1, <3>2
  <2>3. pc[t] = "append" /\ log' = AppendLine(log, pending)
    BY <2>2 DEF AppendOk, At
  <2>4. Scarred(log')
    BY <2>3, AnyWriteScars DEF ScarInv
  <2> QED
    BY <2>1, <2>4, ScarRefused
<1>2. Init => ScarInv
  BY DEF Init, ScarInv
<1>3. TypeOK /\ Book /\ Carried /\ ScarInv /\ [Next]_vars => ScarInv'
  BY ScarKept DEF Book
<1>4. TypeOK /\ TypeOK' /\ Book /\ Carried /\ ScarInv /\ [Next]_vars => [Scars]_vars
  BY <1>1
<1> HIDE DEF Scars
<1>5. Spec => [][Scars]_vars
  BY <1>2, <1>3, <1>4, QuietHolds, PTL DEF Spec
<1> QED
  BY <1>5 DEF NoticedLossLeavesScar, Scars
-----------------------------------------------------------------------------
(* Alarms at a start                                                       *)

Begins(g, h) == Len(g) <= Len(h) /\ \A i \in 1 .. Len(g) : h[i] = g[i]

\* Every entry of the history h is newer than the one with number n.
Newer(h, n) == \A i \in DOMAIN h : h[i].seq > n

\* The history h goes on from the marked entry, or began after it.
Follows(h, m) == m # NoMark => Begins(m.hash, h) \/ Newer(h, m.seq)

\* The same of the chain being written, and of what will be hashed onto it.
ChainFollows ==
  mark # NoMark => \/ Begins(mark.hash, AUDIT_PREV)
                   \/ /\ Newer(AUDIT_PREV, mark.seq) /\ AUDIT_SEQ >= mark.seq
                      /\ \A t \in Threads : pc[t] = "seq" => mine[t] > mark.seq

\* The mark commits to something, and so does whoever is past the lock.
HashInv ==
  /\ mark # NoMark => mark.hash # <<>>
  /\ \A t \in Threads : pc[t] \in Inside => pending.hash = AUDIT_PREV /\ pending.hash # <<>>

FileFollows == Usable(log) => Follows(Last(log).hash, mark)

LandedIsLast ==
  \A t \in Threads : pc[t] \in {"opening", "writing"} /\ Usable(log) => Last(log).hash = pending.hash

FollowInv ==
  interference = 0 =>
    /\ FileFollows
    /\ LandedIsLast
    /\ mode \in {"starting", "up"} => ChainFollows

LEMMA HashKept == TypeOK /\ MutexInv /\ HashInv /\ [Next]_vars => HashInv'
<1> SUFFICES ASSUME TypeOK, MutexInv, HashInv, [Next]_vars
             PROVE  HashInv'
  OBVIOUS
<1>1. ASSUME NEW t \in Threads, LockAndLink(t)
      PROVE  pending'.hash = AUDIT_PREV' /\ pending'.hash # <<>>
  <2> DEFINE body == [seq |-> mine[t], by |-> t]
  <2>1. pending' = Entry(body, AUDIT_PREV) /\ AUDIT_PREV' = pending'.hash
    BY <1>1 DEF LockAndLink
  <2>2. pending'.hash = Append(AUDIT_PREV, body) /\ AUDIT_PREV \in Seq(Bodies)
    BY <2>1 DEF Entry, Digest, TypeOK, Hashes
  <2>3. body \in Bodies
    BY DEF TypeOK, Bodies
  <2> HIDE DEF body
  <2>4. Append(AUDIT_PREV, body) # <<>>
    BY <2>2, <2>3
  <2> QED
    BY <2>1, <2>2, <2>4
<1>2. ASSUME NEW u \in Threads, pc'[u] \in Inside
      PROVE  pending'.hash = AUDIT_PREV' /\ pending'.hash # <<>>
  <2>1. CASE pc[u] \in Inside /\ pending' = pending /\ AUDIT_PREV' = AUDIT_PREV
    BY <2>1 DEF HashInv
  <2>2. CASE pc[u] \in Inside /\ pending' = pending /\ AUDIT_PREV' # AUDIT_PREV
    <3>1. AuditStartup \/ Crash \/ \E t \in Threads : LockAndLink(t)
      BY <2>2 DEF Next, PreflightOpen, Call, TakeSeq, AppendOk, AppendFails, MarkOpen, MarkWrite,
                  MarkFails, Return, TailLost, LogGone, MarkGone, LastRewritten, Offline, vars, process
    <3>2. ~AuditStartup
      BY <2>2, IdleIsOutside DEF AuditStartup, MutexInv
    <3>3. ~Crash
      BY <1>2, IdleIsOutside DEF Crash
    <3> QED
      BY <1>1, <3>1, <3>2, <3>3
  <2> QED
    BY <1>1, <1>2, <2>1, <2>2, InsideAfter
<1>3. mark' # NoMark => mark'.hash # <<>>
  <2>1. CASE mark' = mark \/ mark' = NoMark
    BY <2>1 DEF HashInv
  <2>2. CASE mark' # mark /\ mark' # NoMark
    <3>1. PICK t \in Threads : MarkWrite(t)
      BY <2>2 DEF Next, PreflightOpen, AuditStartup, Call, TakeSeq, LockAndLink, AppendOk, AppendFails,
                  MarkOpen, MarkFails, Crash, TailLost, LogGone, MarkGone, LastRewritten, vars, files
    <3>2. pc[t] \in Inside /\ mark'.hash = pending.hash
      BY <3>1, IdleIsOutside DEF MarkWrite, At
    <3> QED
      BY <3>2 DEF HashInv
  <2> QED
    BY <2>1, <2>2
<1> QED
  BY <1>2, <1>3 DEF HashInv

\* Line behind line: a history that grows keeps its prefix.
LEMMA DigestFollows ==
  ASSUME NEW h \in Hashes, NEW g \in Hashes, NEW body \in Bodies, NEW n \in Nat
  PROVE  /\ Begins(g, h) => Begins(g, Digest(h, body))
         /\ Newer(h, n) /\ body.seq > n => Newer(Digest(h, body), n)
         /\ Begins(h, h)
<1>1. h \in Seq(Bodies) /\ g \in Seq(Bodies) /\ Len(h) \in Nat /\ Len(g) \in Nat
  BY DEF Hashes
<1> DEFINE k == Append(h, body)
<1>2. Len(k) = Len(h) + 1 /\ DOMAIN k = 1 .. Len(h) + 1 /\ DOMAIN h = 1 .. Len(h)
      /\ k[Len(h) + 1] = body /\ \A i \in 1 .. Len(h) : k[i] = h[i]
  BY <1>1
<1> HIDE DEF k
<1>3. Begins(g, h) => Begins(g, k)
  BY <1>1, <1>2 DEF Begins
<1>4. Newer(h, n) /\ body.seq > n => Newer(k, n)
  BY <1>1, <1>2 DEF Newer
<1>5. Begins(h, h)
  BY <1>1 DEF Begins
<1> QED
  BY <1>3, <1>4, <1>5 DEF Digest, k

\* What lands at the end of the file is unreadable or commits to the chain.
LEMMA LandsOnChain ==
  ASSUME TypeOK, NEW t \in Threads, pc[t] = "append",
         \/ log' = AppendLine(log, pending)
         \/ \E f \in Fragments : log' = AppendFragment(log, f)
  PROVE  Usable(log') => Last(log').hash = pending.hash
<1>0. log \in Seq(Lines) /\ pending \in Lines
  BY DEF TypeOK
<1>1. CASE Unfinished(log)
  <2>1. Replaced(log', log, Unreadable("junk")) \/ Replaced(log', log, Unreadable("torn"))
    BY <1>0, <1>1, AppendOutcomes, FragmentType
  <2>2. ~Readable(Last(log'))
    BY <1>0, <2>1, LastOfReplaced, UnreadableIsUnreadable
  <2> QED
    BY <2>2 DEF Usable
<1>2. CASE ~Unfinished(log)
  <2>1. PICK x \in Fragments \cup {pending} : Extended(log', log, x)
    BY <1>0, <1>2, AppendOutcomes, FragmentType
  <2>2. Last(log') = x
    BY <1>0, <2>1, LastOfExtended
  <2>3. x = Unreadable("torn") \/ x.hash = pending.hash
    BY <1>0, <2>1 DEF Fragments, Lines
  <2> QED
    BY <2>2, <2>3, UnreadableIsUnreadable DEF Usable
<1> QED
  BY <1>1, <1>2

LEMMA FollowKeptByCall ==
  ASSUME TypeOK, MutexInv, HashInv, FollowInv, interference = 0, NEW t \in Threads, Call(t)
  PROVE  FileFollows' /\ LandedIsLast' /\ ChainFollows'
<1>0. mode \in {"starting", "up"}
  BY IdleIsOutside
  DEF MutexInv, TypeOK, Modes, Call, TakeSeq, LockAndLink, AppendOk, AppendFails, MarkOpen,
      MarkWrite, MarkFails, At
<1>1. FileFollows /\ LandedIsLast /\ ChainFollows
  BY <1>0 DEF FollowInv
<1>t. AUDIT_SEQ \in Nat /\ AUDIT_PREV \in Hashes /\ mine \in [Threads -> Nat]
      /\ (mark # NoMark => mark \in Marks /\ mark.seq \in Nat /\ mark.hash \in Hashes)
  BY DEF TypeOK, Marks
<1>2. CASE TakeSeq(t)
  <2>1. pc'[t] = "seq" /\ \A v \in Threads \ {t} : pc'[v] = pc[v]
    BY <1>2, GoKeeps, PlacesType DEF TakeSeq
  <2>2. AUDIT_SEQ' = AUDIT_SEQ + 1 /\ mine'[t] = AUDIT_SEQ + 1 /\ \A v \in Threads \ {t} : mine'[v] = mine[v]
    BY <1>2 DEF TakeSeq, TypeOK
  <2>3. UNCHANGED <<log, mark, pending, AUDIT_PREV>>
    BY <1>2 DEF TakeSeq, files
  <2>4. FileFollows' /\ LandedIsLast'
    BY <1>1, <2>1, <2>3 DEF FileFollows, LandedIsLast
  <2>5. ChainFollows'
    BY <1>1, <1>t, <2>1, <2>2, <2>3 DEF ChainFollows
  <2> QED
    BY <2>4, <2>5
<1>3. CASE LockAndLink(t)
  <2> DEFINE body == [seq |-> mine[t], by |-> t]
  <2>1. pc[t] = "seq" /\ pc'[t] = "append" /\ \A v \in Threads \ {t} : pc'[v] = pc[v]
    BY <1>3, GoKeeps, PlacesType DEF LockAndLink, At
  <2>2. UNCHANGED <<log, mark, AUDIT_SEQ, mine>> /\ holder = Free /\ AUDIT_PREV' = Digest(AUDIT_PREV, body)
    BY <1>3 DEF LockAndLink, files, Entry
  <2>3. body \in Bodies /\ body.seq = mine[t]
    BY DEF TypeOK, Bodies
  <2> HIDE DEF body
  <2>4. \A v \in Threads : pc'[v] \notin {"opening", "writing"}
    BY <2>1, <2>2, OnlyHolderInside DEF Inside
  <2>5. FileFollows' /\ LandedIsLast'
    BY <1>1, <2>2, <2>4 DEF FileFollows, LandedIsLast
  <2>6. ChainFollows'
    <3> SUFFICES ASSUME mark # NoMark
                 PROVE  \/ Begins(mark.hash, AUDIT_PREV')
                        \/ /\ Newer(AUDIT_PREV', mark.seq) /\ AUDIT_SEQ >= mark.seq
                           /\ \A v \in Threads : pc'[v] = "seq" => mine[v] > mark.seq
      BY <2>2 DEF ChainFollows
    <3>1. CASE Begins(mark.hash, AUDIT_PREV)
      BY <1>t, <2>2, <2>3, <3>1, DigestFollows
    <3>2. CASE /\ Newer(AUDIT_PREV, mark.seq) /\ AUDIT_SEQ >= mark.seq
               /\ \A v \in Threads : pc[v] = "seq" => mine[v] > mark.seq
      <4>1. Newer(AUDIT_PREV', mark.seq)
        BY <1>t, <2>1, <2>2, <2>3, <3>2, DigestFollows
      <4> QED
        BY <2>1, <3>2, <4>1
    <3> QED
      BY <1>1, <3>1, <3>2 DEF ChainFollows
  <2> QED
    BY <2>5, <2>6
\* The append, whole or cut short: what can be read at the end commits to the chain.
<1>4. ASSUME pc[t] = "append", UNCHANGED <<mark, pending, AUDIT_PREV, AUDIT_SEQ, mine>>,
             \/ log' = AppendLine(log, pending)
             \/ \E f \in Fragments : log' = AppendFragment(log, f),
             \A v \in Threads \ {t} : pc'[v] = pc[v], pc'[t] # "seq"
      PROVE  FileFollows' /\ LandedIsLast' /\ ChainFollows'
  <2>1. pending.hash = AUDIT_PREV
    BY <1>4, IdleIsOutside DEF HashInv
  <2>2. Usable(log') => Last(log').hash = pending.hash
    BY <1>4, LandsOnChain
  <2>3. LandedIsLast'
    BY <1>4, <2>2 DEF LandedIsLast
  <2>4. Follows(AUDIT_PREV, mark)
    BY <1>1 DEF ChainFollows, Follows
  <2>5. FileFollows'
    BY <1>4, <2>1, <2>2, <2>4 DEF FileFollows
  <2>6. ChainFollows'
    BY <1>1, <1>4 DEF ChainFollows
  <2> QED
    BY <2>3, <2>5, <2>6
<1>5. CASE AppendOk(t)
  <2>1. pc'[t] = "opening" /\ \A v \in Threads \ {t} : pc'[v] = pc[v]
    BY <1>5, GoKeeps, PlacesType DEF AppendOk
  <2> QED
    BY <1>4, <1>5, <2>1 DEF AppendOk, At
<1>6. CASE AppendFails(t)
  <2>1. pc'[t] = "idle" /\ \A v \in Threads \ {t} : pc'[v] = pc[v]
    BY <1>6, GoKeeps, PlacesType DEF AppendFails, Return
  <2>2. UNCHANGED <<mark, pending, AUDIT_PREV, AUDIT_SEQ, mine>> /\ pc[t] = "append"
    BY <1>6 DEF AppendFails, Return, At
  <2>3. CASE log' = log
    BY <1>1, <2>1, <2>2, <2>3 DEF FileFollows, LandedIsLast, ChainFollows
  <2>4. CASE \E f \in Fragments : log' = AppendFragment(log, f)
    BY <1>4, <2>1, <2>2, <2>4
  <2> QED
    BY <1>6, <2>3, <2>4 DEF AppendFails
<1>7. CASE MarkOpen(t)
  <2>1. pc[t] = "opening" /\ \A v \in Threads \ {t} : pc'[v] = pc[v]
    BY <1>7, GoKeeps, PlacesType DEF MarkOpen, At
  <2>2. mark' = NoMark /\ UNCHANGED <<log, pending>>
    BY <1>7 DEF MarkOpen
  <2> QED
    BY <1>1, <2>1, <2>2 DEF FileFollows, Follows, LandedIsLast, ChainFollows
<1>8. CASE MarkWrite(t)
  <2>1. pc[t] = "writing" /\ pc'[t] = "idle" /\ \A v \in Threads \ {t} : pc'[v] = pc[v]
    BY <1>8, GoKeeps, PlacesType DEF MarkWrite, Return, At
  <2>2. mark'.hash = pending.hash /\ UNCHANGED <<log, pending, AUDIT_PREV>>
    BY <1>8 DEF MarkWrite, Return
  <2>3. pending.hash = AUDIT_PREV /\ (Usable(log) => Last(log).hash = AUDIT_PREV)
    BY <1>1, <2>1, IdleIsOutside DEF HashInv, LandedIsLast
  <2>4. Begins(AUDIT_PREV, AUDIT_PREV)
    BY <1>t DEF Begins, Hashes
  <2> QED
    BY <1>1, <2>1, <2>2, <2>3, <2>4 DEF FileFollows, Follows, LandedIsLast, ChainFollows
<1>9. CASE MarkFails(t)
  <2>1. pc'[t] = "idle" /\ \A v \in Threads \ {t} : pc'[v] = pc[v]
    BY <1>9, GoKeeps, PlacesType DEF MarkFails, Return
  <2>2. UNCHANGED <<log, mark, pending, AUDIT_PREV, AUDIT_SEQ, mine>>
    BY <1>9 DEF MarkFails, Return, files
  <2> QED
    BY <1>1, <2>1, <2>2 DEF FileFollows, LandedIsLast, ChainFollows
<1> QED
  BY <1>2, <1>3, <1>5, <1>6, <1>7, <1>8, <1>9 DEF Call

LEMMA FollowKept == TypeOK /\ MutexInv /\ HashInv /\ FollowInv /\ [Next]_vars => FollowInv'
<1> SUFFICES ASSUME TypeOK, MutexInv, HashInv, FollowInv, [Next]_vars, interference' = 0
             PROVE  FileFollows' /\ LandedIsLast' /\ (mode' \in {"starting", "up"} => ChainFollows')
  BY DEF FollowInv
<1>0. interference \in Nat /\ log \in Seq(Lines)
  BY DEF TypeOK
<1>1. CASE PreflightOpen \/ UNCHANGED vars
  <2>1. UNCHANGED <<log, mark, pending, AUDIT_PREV, AUDIT_SEQ, mine, pc, interference>>
        /\ (mode' \in {"starting", "up"} => mode' = mode)
    BY <1>1 DEF PreflightOpen, vars, process, files, counters
  <2> QED
    BY <2>1 DEF FollowInv, FileFollows, LandedIsLast, ChainFollows
<1>2. CASE AuditStartup
  <2> DEFINE r == resume_state_of(exists, log, mark)
  <2>0. mode = "preflight" /\ UNCHANGED <<log, mark, pending>> /\ AUDIT_PREV' = r.hash /\ AUDIT_SEQ' = r.seq + 1
        /\ mine' = [mine EXCEPT ![Main] = r.seq + 1] /\ Go(Main, "seq") /\ interference = 0
    BY <1>2 DEF AuditStartup, files, counters
  <2>1. \A u \in Threads : pc[u] = "idle"
    BY <2>0 DEF MutexInv
  <2>2. \A u \in Threads \ {Main} : pc'[u] = "idle"
    BY <2>0, <2>1, ThreadsAssumption, GoKeeps, PlacesType
  <2>3. pc'[Main] = "seq" /\ mine'[Main] = r.seq + 1
    BY <2>0, ThreadsAssumption, GoKeeps, PlacesType DEF TypeOK
  <2>4. FileFollows' /\ LandedIsLast'
    BY <2>0, <2>2, <2>3 DEF FollowInv, FileFollows, LandedIsLast
  <2>5. exists
    BY <2>0 DEF MutexInv
  <2>6. ASSUME mark # NoMark PROVE r.seq \in Nat /\ r.seq >= mark.seq /\ mark.seq \in Nat
                                   /\ (Begins(mark.hash, r.hash) \/ Newer(r.hash, mark.seq))
    <3>1. mark \in Marks /\ mark.seq \in Nat
      BY <2>6 DEF TypeOK, Marks
    <3>2. CASE ~Usable(log)
      <4>1. r.seq = mark.seq /\ r.hash = GENESIS
        BY <2>5, <2>6, <3>2 DEF resume_state_of, Resume
      <4> QED
        BY <3>1, <4>1 DEF GENESIS, Newer
    <3>3. CASE Usable(log)
      <4>1. r = ResumeFromBoth(Last(log), mark)
        BY <2>5, <3>1, <3>3, ResumeUsable
      <4>2. Last(log).body.seq \in Nat
        BY <1>0, <3>3, LastLine DEF Usable, Lines, Bodies
      <4>3. r.hash = Last(log).hash /\ r.seq \in Nat /\ r.seq >= mark.seq
        BY <3>1, <4>1, <4>2 DEF ResumeFromBoth, Resume
      <4>4. Follows(Last(log).hash, mark)
        BY <2>0, <3>3 DEF FollowInv, FileFollows
      <4> QED
        BY <2>6, <3>1, <4>3, <4>4 DEF Follows
    <3> QED
      BY <3>2, <3>3
  <2> HIDE DEF r
  <2>7. ChainFollows'
    BY <2>0, <2>2, <2>3, <2>6 DEF ChainFollows
  <2> QED
    BY <2>4, <2>7
<1>3. ASSUME NEW t \in Threads, Call(t)
      PROVE  FileFollows' /\ LandedIsLast' /\ ChainFollows'
  <2>1. interference' = interference
    BY <1>3 DEF Call, TakeSeq, LockAndLink, AppendOk, AppendFails, MarkOpen, MarkWrite, MarkFails, counters
  <2> QED
    BY <1>3, <2>1, FollowKeptByCall
<1>4. CASE Crash
  <2>1. mode' = "down" /\ (\A u \in Threads : pc'[u] = "idle") /\ mark' = mark /\ interference = 0 /\ mode # "down"
    BY <1>4 DEF Crash
  <2>2. FileFollows
    BY <2>1 DEF FollowInv
  <2>3. LandedIsLast'
    BY <2>1 DEF LandedIsLast
  <2>4. ASSUME NEW t \in Threads, pc[t] = "append", \E f \in Fragments : log' = AppendFragment(log, f)
        PROVE  FileFollows'
    <3>1. Usable(log') => Last(log').hash = AUDIT_PREV
      BY <2>4, LandsOnChain, IdleIsOutside DEF HashInv
    <3>2. mode \in {"starting", "up"}
      BY <2>4 DEF MutexInv, TypeOK, Modes
    <3>3. Follows(AUDIT_PREV, mark)
      BY <2>1, <3>2 DEF FollowInv, ChainFollows, Follows
    <3> QED
      BY <2>1, <3>1, <3>3 DEF FileFollows
  <2>5. FileFollows'
    BY <1>4, <2>1, <2>2, <2>4 DEF Crash, At, FileFollows
  <2> QED
    BY <2>1, <2>3, <2>5
<1>5. CASE Offline
  BY <1>0, <1>5 DEF Offline
<1> QED
  BY <1>1, <1>2, <1>3, <1>4, <1>5 DEF Next, TailLost, LogGone, MarkGone, LastRewritten

LEMMA FollowHolds == Spec => [](TypeOK /\ Book /\ WholeInv /\ HashInv /\ FollowInv)
<1>1. Init => HashInv /\ FollowInv
  BY IdleIsOutside DEF Init, HashInv, FollowInv, FileFollows, Usable, LandedIsLast
<1>2. TypeOK /\ Book /\ HashInv /\ FollowInv /\ [Next]_vars => HashInv' /\ FollowInv'
  BY HashKept, FollowKept DEF Book
<1> QED
  BY <1>1, <1>2, WholeHolds, PTL DEF Spec

\* A usable log whose history has growing numbers is never behind a mark it follows.
LEMMA NeverBehind ==
  ASSUME NEW h \in Hashes, NEW g \in Hashes, h # <<>>, g # <<>>,
         \A i, j \in DOMAIN h : i < j => h[i].seq < h[j].seq,
         Begins(g, h) \/ Newer(h, Last(g).seq)
  PROVE  Last(g).seq < Last(h).seq \/ g = h
<1>1. /\ h \in Seq(Bodies) /\ g \in Seq(Bodies) /\ Len(h) \in Nat \ {0} /\ Len(g) \in Nat \ {0}
      /\ DOMAIN h = 1 .. Len(h) /\ DOMAIN g = 1 .. Len(g)
      /\ Last(h) = h[Len(h)] /\ Last(g) = g[Len(g)]
  BY DEF Hashes, Last
<1>2. CASE Newer(h, Last(g).seq)
  <2>1. Len(h) \in DOMAIN h /\ Last(h) \in Bodies /\ Last(g) \in Bodies
    BY <1>1
  <2> QED
    BY <1>1, <1>2, <2>1 DEF Newer, Bodies
<1>3. CASE Begins(g, h) /\ Len(g) < Len(h)
  <2>1. Len(g) \in DOMAIN h /\ Len(h) \in DOMAIN h /\ h[Len(g)] = g[Len(g)]
    BY <1>1, <1>3 DEF Begins
  <2> QED
    BY <1>1, <1>3, <2>1
<1>4. CASE Begins(g, h) /\ Len(g) = Len(h)
  <2>1. g = h
    BY <1>1, <1>4 DEF Begins
  <2> QED
    BY <2>1
<1>5. ASSUME Begins(g, h) PROVE Len(g) < Len(h) \/ Len(g) = Len(h)
  <2>1. Len(g) <= Len(h)
    BY <1>5 DEF Begins
  <2>2. Len(g) \in Nat /\ Len(h) \in Nat
    BY <1>1
  <2>3. \A a, b \in Nat : a <= b => a < b \/ a = b
    OBVIOUS
  <2> QED
    BY <2>1, <2>2, <2>3
<1> QED
  BY <1>2, <1>3, <1>4, <1>5

LEMMA ResumeSilent ==
  ASSUME NEW last, NEW m, last.body.seq \in Nat, m.seq \in Nat,
         m.seq < last.body.seq \/ (m.seq = last.body.seq /\ m.hash = last.hash)
  PROVE  ResumeFromBoth(last, m).anomaly = "none"
<1>1. ~(last.body.seq < m.seq) /\ ~(last.body.seq = m.seq /\ last.hash # m.hash)
  OBVIOUS
<1>2. (CASE last.body.seq < m.seq -> "missing"
         [] last.body.seq = m.seq /\ last.hash # m.hash -> "rewritten"
         [] OTHER -> "none") = "none"
  BY <1>1
<1> QED
  BY <1>2 DEF ResumeFromBoth, Resume

\* NoFalseMissingAlarm: a crash, wherever it falls, leaves a file that is not behind its
\* mark; only other hands, or numbers written out of order, raise that alarm.
THEOREM MissingAlarmAlwaysEarned == Spec => NoFalseMissingAlarm
<1> DEFINE Earned == Starting /\ alarm' \in {"missing", "rewritten"} => interference > 0 \/ ~NeverOvertaken(log)
<1>1. TypeOK /\ Book /\ WholeInv /\ HashInv /\ FollowInv /\ [Next]_vars => Earned
  <2> SUFFICES ASSUME TypeOK, Book, WholeInv, HashInv, FollowInv, [Next]_vars, Starting,
                      interference = 0, NeverOvertaken(log), alarm' \in {"missing", "rewritten"}
               PROVE  FALSE
    BY DEF TypeOK
  <2>1. AuditStartup
    BY DEF Starting, Next, PreflightOpen, Call, TakeSeq, LockAndLink, AppendOk, AppendFails, MarkOpen,
           MarkWrite, MarkFails, Return, Crash, TailLost, LogGone, MarkGone, LastRewritten, Offline,
           vars, process
  <2>2. exists /\ log \in Seq(Lines)
    BY DEF Starting, Book, MutexInv, TypeOK
  <2>3. alarm' = resume_state_of(TRUE, log, mark).anomaly
    BY <2>1, <2>2 DEF AuditStartup, TypeOK
  <2>4. Usable(log) /\ mark # NoMark
    BY <2>3 DEF resume_state_of, Resume
  <2>5. mark \in Marks /\ mark.seq \in Nat /\ mark.hash \in Hashes /\ mark.hash # <<>>
        /\ mark.seq = Last(mark.hash).seq
    BY <2>4 DEF TypeOK, Marks, HashInv, Book, MarkInv, MarkNeverAhead
  <2>6. /\ Last(log) \in Lines /\ Readable(Last(log)) /\ Last(log) = log[Len(log)] /\ Len(log) \in DOMAIN log
    BY <2>2, <2>4, LastLine DEF Usable
  <2> DEFINE h == Last(log).hash
  <2>7. h \in Hashes /\ Last(log).body \in Bodies /\ Last(log).prev \in Hashes
        /\ h = Append(Last(log).prev, Last(log).body) /\ Last(h) = Last(log).body
    <3>1. h = Digest(Last(log).prev, Last(log).body)
      BY <2>6 DEF WholeInv, AllWhole, WholeLine
    <3> QED
      BY <2>6, <3>1, LastOfDigest DEF Lines, Digest
  <2>8. h # <<>>
    <3>1. Append(Last(log).prev, Last(log).body) # <<>>
      BY <2>7 DEF Hashes
    <3> QED
      BY <2>7, <3>1
  <2>9. h \in HashesOf(log)
    BY <2>6 DEF HashesOf
  <2>10. Begins(mark.hash, h) \/ Newer(h, mark.seq)
    BY <2>4 DEF FollowInv, FileFollows, Follows
  <2> HIDE DEF h
  <2>11. mark.seq < Last(h).seq \/ mark.hash = h
    BY <2>5, <2>7, <2>8, <2>9, <2>10, NeverBehind DEF NeverOvertaken
  <2>12. resume_state_of(TRUE, log, mark) = ResumeFromBoth(Last(log), mark)
    BY <2>4, <2>5, ResumeUsable
  <2>13. Last(h).seq \in Nat
    BY <2>7 DEF Bodies
  <2>14. mark.seq < Last(log).body.seq
         \/ (mark.seq = Last(log).body.seq /\ mark.hash = Last(log).hash)
    BY <2>5, <2>7, <2>11 DEF h
  <2>15. ResumeFromBoth(Last(log), mark).anomaly = "none"
    BY <2>5, <2>7, <2>13, <2>14, ResumeSilent
  <2> QED
    BY <2>3, <2>12, <2>15
<1>2. TypeOK /\ Book /\ WholeInv /\ HashInv /\ FollowInv /\ [Next]_vars => [Earned]_vars
  BY <1>1
<1> HIDE DEF Earned
<1>3. Spec => [][Earned]_vars
  BY <1>2, FollowHolds, PTL DEF Spec
<1> QED
  BY <1>3 DEF NoFalseMissingAlarm, Earned

-----------------------------------------------------------------------------
(* How far a reader can follow the links                                   *)

\* The first n lines link, and the next one does not.
Reads(lines, n) ==
  /\ n \in 0 .. Len(lines)
  /\ \A i \in 1 .. n : Linked(lines, i)
  /\ n < Len(lines) => ~Linked(lines, n + 1)

TrailOf(lines, n) == IF n = 0 THEN GENESIS ELSE lines[n].hash

\* There is such an n, and it is the longest that can be followed.
LEMMA ReadsSomewhere ==
  ASSUME NEW lines \in Seq(Lines)
  PROVE  \E n \in 0 .. Len(lines) : Reads(lines, n)
<1> DEFINE bad == {i \in 1 .. Len(lines) : ~Linked(lines, i)}
<1>0. Len(lines) \in Nat
  OBVIOUS
<1>1. CASE bad = {}
  <2>1. Reads(lines, Len(lines))
    BY <1>0, <1>1 DEF Reads
  <2> QED
    BY <1>0, <2>1
<1>2. CASE bad # {}
  <2>1. bad \in SUBSET Nat
    BY <1>0
  <2>2. PICK b \in bad : \A j \in bad : b <= j
    BY <1>2, <2>1, SmallestOf
  <2>3. b \in 1 .. Len(lines) /\ ~Linked(lines, b) /\ b - 1 \in 0 .. Len(lines) /\ (b - 1) + 1 = b
    BY <1>0, <2>2
  <2>4. \A i \in 1 .. b - 1 : i \in 1 .. Len(lines) /\ ~(b <= i)
    BY <1>0, <2>3
  <2>5. \A i \in 1 .. b - 1 : Linked(lines, i)
    BY <2>2, <2>4
  <2> QED
    BY <2>3, <2>5 DEF Reads
<1> QED
  BY <1>1, <1>2

LEMMA FollowedIs ==
  ASSUME NEW lines \in Seq(Lines), NEW n \in 0 .. Len(lines), Reads(lines, n)
  PROVE  FollowedTo(lines) = n
<1>0. Len(lines) \in Nat /\ n \in Nat
  OBVIOUS
<1>1. n \in Followed(lines)
  BY DEF Followed, Reads
<1>2. ASSUME NEW m \in Followed(lines) PROVE m <= n
  <2>1. m \in 0 .. Len(lines) /\ \A i \in 1 .. m : Linked(lines, i)
    BY DEF Followed
  <2>2. CASE m > n
    <3>1. n < Len(lines) /\ n + 1 \in 1 .. m
      BY <1>0, <2>1, <2>2
    <3> QED
      BY <2>1, <3>1 DEF Reads
  <2> QED
    BY <1>0, <2>1, <2>2
<1>3. \A m \in Followed(lines) : (\A k \in Followed(lines) : k <= m) => m = n
  <2> SUFFICES ASSUME NEW m \in Followed(lines), \A k \in Followed(lines) : k <= m
               PROVE  m = n
    OBVIOUS
  <2>1. m \in Nat /\ m <= n /\ n <= m
    BY <1>0, <1>1, <1>2 DEF Followed
  <2> QED
    BY <1>0, <2>1
<1> QED
  BY <1>1, <1>2, <1>3 DEF FollowedTo

LEMMA TrailReads ==
  ASSUME NEW lines \in Seq(Lines)
  PROVE  /\ FollowedTo(lines) \in 0 .. Len(lines) /\ Reads(lines, FollowedTo(lines))
         /\ TrailOf(lines, FollowedTo(lines)) \in Hashes
<1>1. PICK n \in 0 .. Len(lines) : Reads(lines, n)
  BY ReadsSomewhere
<1>2. FollowedTo(lines) = n
  BY <1>1, FollowedIs
<1>3. TrailOf(lines, n) \in Hashes
  <2>1. CASE n = 0
    BY <2>1 DEF TrailOf, GENESIS, Hashes
  <2>2. CASE n # 0
    <3>1. n \in DOMAIN lines /\ lines[n] \in Lines
      BY <2>2
    <3> QED
      BY <2>2, <3>1 DEF TrailOf, Lines
  <2> QED
    BY <2>1, <2>2
<1> QED
  BY <1>1, <1>2, <1>3

\* A line behind the others is followed if all of them are, and it links.
LEMMA TrailExtended ==
  ASSUME NEW lines \in Seq(Lines), NEW x, NEW new, Extended(new, lines, x)
  PROVE  LET n == FollowedTo(lines)
             m == FollowedTo(new)
         IN  /\ \/ TrailOf(new, m) = TrailOf(lines, n)
                \/ /\ x.kind = "entry" /\ x.prev = TrailOf(lines, n)
                   /\ TrailOf(new, m) = x.hash
             /\ n = Len(lines) /\ x.kind = "entry" /\ x.prev = TrailOf(lines, n)
                  => TrailOf(new, m) = x.hash
             /\ x.kind # "entry" => TrailOf(new, m) = TrailOf(lines, n)
<1> DEFINE n == FollowedTo(lines)
           len == Len(lines)
<1>1. n \in 0 .. len /\ Reads(lines, n) /\ len \in Nat /\ new \in Seq(Lines) /\ Len(new) = len + 1
  BY TrailReads DEF Extended
<1>2. new[len + 1] = x /\ \A i \in 1 .. len : new[i] = lines[i]
  BY DEF Extended
<1> HIDE DEF n, len
<1>3. \A i \in 1 .. len : Linked(new, i) <=> Linked(lines, i)
  <2> SUFFICES ASSUME NEW i \in 1 .. len PROVE Linked(new, i) <=> Linked(lines, i)
    OBVIOUS
  <2>1. new[i] = lines[i] /\ (i # 1 => new[i - 1] = lines[i - 1])
    BY <1>1, <1>2
  <2> QED
    BY <2>1 DEF Linked
<1>4. Linked(new, len + 1) <=> x.kind = "entry" /\ x.prev = TrailOf(lines, len)
  <2>1. (len + 1 = 1) <=> (len = 0)
    BY <1>1
  <2>2. len # 0 => new[(len + 1) - 1] = lines[len]
    BY <1>1, <1>2
  <2> QED
    BY <1>2, <2>1, <2>2 DEF Linked, TrailOf
<1>5. \A i \in 1 .. n : Linked(new, i)
  BY <1>1, <1>3 DEF Reads
<1>6. CASE n = len /\ Linked(new, len + 1)
  <2>1. \A i \in 1 .. len + 1 : i = len + 1 \/ i \in 1 .. n
    BY <1>1, <1>6
  <2>2. Reads(new, len + 1)
    BY <1>1, <1>5, <1>6, <2>1 DEF Reads
  <2>3. FollowedTo(new) = len + 1
    BY <1>1, <2>2, FollowedIs
  <2>4. TrailOf(new, len + 1) = x.hash
    BY <1>1, <1>2 DEF TrailOf
  <2> QED
    BY <1>4, <1>6, <2>3, <2>4 DEF n, len
<1>7. CASE ~(n = len /\ Linked(new, len + 1))
  <2>1. ~Linked(new, n + 1)
    <3>1. CASE n < len
      <4>1. n + 1 \in 1 .. len
        BY <1>1, <3>1
      <4> QED
        BY <1>1, <1>3, <3>1, <4>1 DEF Reads, len
    <3>2. CASE n = len
      BY <1>7, <3>2
    <3> QED
      BY <1>1, <3>1, <3>2
  <2>2. Reads(new, n)
    BY <1>1, <1>5, <2>1 DEF Reads
  <2>3. n \in 0 .. Len(new)
    BY <1>1
  <2>4. FollowedTo(new) = n
    BY <1>1, <2>2, <2>3, FollowedIs
  <2>5. TrailOf(new, n) = TrailOf(lines, n)
    BY <1>1, <1>2 DEF TrailOf
  <2> QED
    BY <1>4, <1>7, <2>4, <2>5 DEF n, len
<1> QED
  BY <1>6, <1>7

\* A line that was no entry is followed by nobody, whatever takes its place.
LEMMA TrailReplaced ==
  ASSUME NEW lines \in Seq(Lines), NEW x, NEW new, Replaced(new, lines, x),
         x.kind # "entry", Last(lines).kind # "entry"
  PROVE  TrailOf(new, FollowedTo(new)) = TrailOf(lines, FollowedTo(lines))
<1> DEFINE n == FollowedTo(lines)
           len == Len(lines)
<1>1. n \in 0 .. len /\ Reads(lines, n) /\ len \in Nat \ {0} /\ new \in Seq(Lines) /\ Len(new) = len
  BY TrailReads, SizeOf DEF Replaced
<1>2. new[len] = x /\ Last(lines) = lines[len] /\ \A i \in 1 .. len : i # len => new[i] = lines[i]
  BY DEF Replaced, Last
<1> HIDE DEF n, len
<1>3. ~Linked(lines, len) /\ ~Linked(new, len)
  BY <1>2 DEF Linked
<1>4. n # len
  BY <1>1, <1>3 DEF Reads
<1>5. n < len /\ n \in Nat
  BY <1>1, <1>4
<1>6. \A i \in 1 .. len : Linked(new, i) <=> Linked(lines, i)
  <2> SUFFICES ASSUME NEW i \in 1 .. len PROVE Linked(new, i) <=> Linked(lines, i)
    OBVIOUS
  <2>1. CASE i # len
    <3>1. new[i] = lines[i] /\ (i # 1 => new[i - 1] = lines[i - 1])
      BY <1>1, <1>2, <2>1
    <3> QED
      BY <3>1 DEF Linked
  <2>2. CASE i = len
    BY <1>3, <2>2
  <2> QED
    BY <2>1, <2>2
<1>7. n + 1 \in 1 .. len /\ \A i \in 1 .. n : i \in 1 .. len
  BY <1>1, <1>5
<1>8. Reads(new, n)
  <2>1. ~Linked(lines, n + 1) /\ \A i \in 1 .. n : Linked(lines, i)
    BY <1>1, <1>5 DEF Reads, len
  <2> QED
    BY <1>1, <1>6, <1>7, <2>1 DEF Reads
<1>9. FollowedTo(new) = n
  BY <1>1, <1>8, FollowedIs
<1>10. TrailOf(new, n) = TrailOf(lines, n)
  BY <1>1, <1>2, <1>5 DEF TrailOf
<1> QED
  BY <1>9, <1>10 DEF n
-----------------------------------------------------------------------------
(* Without a fault every line is followed                                  *)

CleanInv ==
  /\ failures = 0 => failed = {}
  /\ tears = 0 => \A i \in DOMAIN log : log[i].kind = "entry"

LEMMA CleanKept == TypeOK /\ MutexInv /\ LinkInv /\ CleanInv /\ [Next]_vars => CleanInv'
<1> SUFFICES ASSUME TypeOK, MutexInv, LinkInv, CleanInv, [Next]_vars
             PROVE  CleanInv'
  OBVIOUS
<1>0. failures \in Nat /\ tears \in Nat /\ log \in Seq(Lines)
  BY DEF TypeOK
<1>1. failures' = 0 => failed' = {}
  <2>1. CASE failures' = failures /\ failed' = failed
    BY <2>1 DEF CleanInv
  <2>2. CASE \E t \in Threads : AppendFails(t) \/ MarkFails(t)
    BY <1>0, <2>2 DEF AppendFails, MarkFails
  <2> QED
    BY <2>1, <2>2 DEF Next, PreflightOpen, AuditStartup, Call, TakeSeq, LockAndLink, AppendOk, MarkOpen,
      MarkWrite, Crash, TailLost, LogGone, MarkGone, LastRewritten, Offline, vars, history, counters
<1>2. ASSUME tears' = 0 PROVE \A i \in DOMAIN log' : log'[i].kind = "entry"
  <2>0. CASE UNCHANGED log /\ tears = 0
    BY <2>0 DEF CleanInv
  <2>1. CASE UNCHANGED log /\ tears' >= tears
    BY <1>0, <1>2, <2>0, <2>1
  <2>2. ASSUME NEW t \in Threads, AppendOk(t)
        PROVE  \A i \in DOMAIN log' : log'[i].kind = "entry"
    <3>1. log' = AppendLine(log, pending) /\ tears = 0 /\ pending \in Lines /\ pending.kind = "entry"
      BY <1>2, <2>2 DEF AppendOk, At, TypeOK, LinkInv
    <3>2. ~Unfinished(log)
      BY <1>0, <3>1, LastLine DEF CleanInv, Unfinished, Terminated
    <3>3. Extended(log', log, pending)
      BY <1>0, <3>1, <3>2, AppendOutcomes
    <3>4. \A i \in DOMAIN log' : log'[i] = pending \/ (i \in DOMAIN log /\ log'[i] = log[i])
      BY <1>0, <3>3 DEF Extended
    <3> QED
      BY <3>1, <3>4 DEF CleanInv
  <2>3. CASE tears' = tears + 1
    BY <1>0, <1>2, <2>3
  <2>4. ASSUME NEW k \in 0 .. Len(log) - 1, TailLost(k)
        PROVE  \A i \in DOMAIN log' : log'[i].kind = "entry"
    <3>1. log' = SubSeq(log, 1, k) /\ tears = 0
      BY <1>2, <2>4 DEF TailLost, Offline
    <3>2. \A i \in DOMAIN log' : i \in DOMAIN log /\ log'[i] = log[i]
      BY <1>0, <3>1
    <3> QED
      BY <3>1, <3>2 DEF CleanInv
  <2>5. CASE LogGone
    BY <2>5 DEF LogGone
  <2>6. CASE LastRewritten
    <3> DEFINE old == Last(log)
               new == Entry([old.body EXCEPT !.by = Free], old.prev)
    <3>1. log' = [log EXCEPT ![Len(log)] = new] /\ new.kind = "entry" /\ tears = 0
      BY <1>2, <2>6 DEF LastRewritten, Offline, Entry
    <3> HIDE DEF new
    <3>2. \A i \in DOMAIN log' : i \in DOMAIN log /\ (log'[i] = new \/ log'[i] = log[i])
      BY <1>0, <3>1
    <3> QED
      BY <3>1, <3>2 DEF CleanInv
  <2> QED
    BY <2>1, <2>2, <2>3, <2>4, <2>5, <2>6, StepsOnLog
<1> QED
  BY <1>1, <1>2 DEF CleanInv

\* The line about to be appended continues what a reader can follow.
LEMMA PendingContinues ==
  ASSUME TypeOK, LinkInv, CleanInv, failures = 0, tears = 0, NEW t \in Threads, pc[t] = "append"
  PROVE  FollowedTo(log) = Len(log) /\ pending.prev = ReadableTrail
<1>0. log \in Seq(Lines) /\ Len(log) \in Nat /\ DOMAIN log = 1 .. Len(log)
      /\ (log # <<>> <=> Len(log) > 0)
  BY DEF TypeOK
<1>1. failed = {} /\ \A i \in 1 .. Len(log) : log[i].kind = "entry"
  BY <1>0 DEF CleanInv
<1>2. \A i \in 1 .. Len(log) : Linked(log, i)
  <2> SUFFICES ASSUME NEW i \in 1 .. Len(log) PROVE Linked(log, i)
    OBVIOUS
  <2>1. LinkedAt(log, {}, i)
    BY <1>0, <1>1 DEF LinkInv, AllLinked
  <2>2. i > 1 => i - 1 \in 1 .. Len(log)
    BY <1>0
  <2>3. Readable(log[i]) /\ (i > 1 => Readable(log[i - 1]))
    BY <1>1, <2>2 DEF Readable
  <2>4. log[i].prev = PrevOf(log, i)
    BY <2>1, <2>3 DEF LinkedAt
  <2> QED
    BY <1>1, <2>4 DEF Linked, PrevOf
<1>3. FollowedTo(log) = Len(log)
  <2>1. Reads(log, Len(log)) /\ Len(log) \in 0 .. Len(log)
    BY <1>0, <1>2 DEF Reads
  <2> QED
    BY <1>0, <2>1, FollowedIs
<1>4. MayFollow(log, {}, pending.prev)
  BY <1>1 DEF LinkInv
<1>5. log # <<>> => Readable(Last(log)) /\ Last(log) = log[Len(log)]
  <2>1. log # <<>> => Last(log) = log[Len(log)] /\ Len(log) \in 1 .. Len(log)
    BY <1>0, LastLine
  <2> QED
    BY <1>1, <2>1 DEF Readable
<1>6. pending.prev = IF log = <<>> THEN GENESIS ELSE Last(log).hash
  BY <1>4, <1>5 DEF MayFollow
<1> QED
  BY <1>0, <1>3, <1>5, <1>6 DEF ReadableTrail

-----------------------------------------------------------------------------
(* The refinement                                                          *)

Faulted == failures > 0 \/ tears > 0

LEMMA TrailIs ==
  /\ ReadableTrail = TrailOf(log, FollowedTo(log))
  /\ ReadableTrail' = TrailOf(log', FollowedTo(log'))
BY DEF ReadableTrail, TrailOf

LEMMA TrailTyped ==
  ASSUME TypeOK
  PROVE  ReadableTrail \in Seq(Bodies)
BY TrailIs, TrailReads DEF TypeOK, Hashes

LEMMA RecordsOne ==
  ASSUME TypeOK, TypeOK', Book, Carried, CleanInv, NEW t \in Threads, AppendOk(t)
  PROVE  Trail!Record \/ Trail!RecordOutOfReach
<1>1. /\ pc[t] = "append" /\ log' = AppendLine(log, pending) /\ acks' = acks + 1
      /\ UNCHANGED <<failures, tears, interference>>
  BY DEF AppendOk, At, counters
<1>2. log \in Seq(Lines) /\ pending \in Lines /\ pending.kind = "entry"
      /\ pending.hash = Digest(pending.prev, pending.body)
  <2>1. pending = Entry(pending.body, pending.prev)
    BY <1>1, IdleIsOutside DEF Carried
  <2> QED
    BY <2>1 DEF TypeOK, Entry
<1>3. UNCHANGED <<Faulted, interference>>
  BY <1>1 DEF Faulted
<1>4. ASSUME pending.prev = ReadableTrail, ReadableTrail' = pending.hash
      PROVE  Trail!Record
  <2>1. ReadableTrail' = Append(ReadableTrail, pending.body)
    BY <1>2, <1>4 DEF Digest
  <2>2. ReadableTrail \in Seq(Bodies) /\ pending.body \in Bodies
    BY <1>2, TrailTyped DEF Lines
  <2> DEFINE trail == ReadableTrail
             longer == Append(trail, pending.body)
  <2>3. longer \in Seq(Bodies) /\ Len(longer) = Len(trail) + 1 /\ SubSeq(longer, 1, Len(trail)) = trail
    <3> HIDE DEF trail
    <3>1. \A s \in Seq(Bodies), b \in Bodies :
            /\ Append(s, b) \in Seq(Bodies) /\ Len(Append(s, b)) = Len(s) + 1
            /\ SubSeq(Append(s, b), 1, Len(s)) = s
      OBVIOUS
    <3> QED
      BY <2>2, <3>1 DEF trail
  <2> QED
    BY <1>1, <1>3, <2>1, <2>3 DEF Trail!Record, Trail!ExtendsByOne, Faulted
<1>5. ASSUME Faulted, ReadableTrail' = ReadableTrail
      PROVE  Trail!RecordOutOfReach
  BY <1>1, <1>3, <1>5 DEF Trail!RecordOutOfReach, Faulted
<1>6. CASE ~Unfinished(log)
  <2>1. Extended(log', log, pending)
    BY <1>1, <1>2, <1>6, AppendOutcomes
  <2>2. \/ ReadableTrail' = ReadableTrail
        \/ pending.prev = ReadableTrail /\ ReadableTrail' = pending.hash
    BY <1>2, <2>1, TrailExtended, TrailIs
  <2>3. ASSUME ~Faulted PROVE pending.prev = ReadableTrail /\ ReadableTrail' = pending.hash
    <3>1. failures = 0 /\ tears = 0
      BY <2>3 DEF Faulted, TypeOK
    <3>2. FollowedTo(log) = Len(log) /\ pending.prev = ReadableTrail
      BY <1>1, <3>1, PendingContinues DEF Book
    <3> QED
      BY <1>2, <2>1, <3>2, TrailExtended, TrailIs
  <2> QED
    BY <1>4, <1>5, <2>2, <2>3
<1>7. CASE Unfinished(log)
  <2>1. Replaced(log', log, Unreadable("junk"))
    BY <1>1, <1>2, <1>7, AppendOutcomes
  <2>2. Last(log).kind # "entry" /\ Unreadable("junk").kind # "entry"
    BY <1>7 DEF Unfinished, Terminated, Unreadable
  <2>3. ReadableTrail' = ReadableTrail
    BY <1>2, <2>1, <2>2, TrailReplaced, TrailIs
  <2>4. tears # 0
    <3>1. log # <<>>
      BY <1>7 DEF Unfinished
    <3> QED
      BY <1>2, <2>2, <3>1, LastLine DEF CleanInv
  <2>5. Faulted
    BY <2>4 DEF Faulted, TypeOK
  <2> QED
    BY <1>5, <2>3, <2>5
<1> QED
  BY <1>6, <1>7

LEMMA TornIsFault ==
  ASSUME TypeOK, Torn, tears' = tears + 1, failures' \in Nat, UNCHANGED <<acks, interference>>
  PROVE  Trail!Fault
<1>1. PICK f \in Fragments : log' = AppendFragment(log, f)
  BY DEF Torn
<1>2. log \in Seq(Lines) /\ f \in Lines /\ f.kind # "entry"
  <2>1. pending \in Lines
    BY DEF TypeOK
  <2>2. [pending EXCEPT !.kind = "bare"].kind = "bare" /\ Unreadable("torn").kind = "torn"
    BY <2>1 DEF Unreadable, Lines
  <2>3. f.kind \in {"bare", "torn"}
    BY <2>2 DEF Fragments
  <2>4. log \in Seq(Lines)
    BY DEF TypeOK
  <2> QED
    BY <2>1, <2>3, <2>4, FragmentType
<1>3. ReadableTrail' = ReadableTrail
  <2>1. CASE ~Unfinished(log)
    <3>1. Extended(log', log, f)
      BY <1>1, <1>2, <2>1, AppendOutcomes
    <3> QED
      BY <1>2, <3>1, TrailExtended, TrailIs
  <2>2. CASE Unfinished(log)
    <3>1. Replaced(log', log, Unreadable("torn"))
      BY <1>1, <1>2, <2>2, AppendOutcomes
    <3>2. Last(log).kind # "entry" /\ Unreadable("torn").kind # "entry"
      BY <2>2 DEF Unfinished, Terminated, Unreadable
    <3> QED
      BY <1>2, <3>1, <3>2, TrailReplaced, TrailIs
  <2> QED
    BY <2>1, <2>2
<1>4. (failures > 0 \/ tears > 0)' = TRUE
  BY DEF TypeOK
<1> QED
  BY <1>3, <1>4 DEF Trail!Fault

LEMMA StepImplements ==
  ASSUME TypeOK, TypeOK', Book, Carried, CleanInv, [Next]_vars
  PROVE  [Trail!Next]_(Trail!vars)
<1>same. ASSUME UNCHANGED <<log, acks, failures, tears, interference>>
         PROVE  UNCHANGED Trail!vars
  <2>1. ReadableTrail' = ReadableTrail
    BY <1>same, TrailIs
  <2> QED
    BY <1>same, <2>1 DEF Trail!vars
<1>1. CASE PreflightOpen \/ AuditStartup \/ UNCHANGED vars
  BY <1>1, <1>same DEF PreflightOpen, AuditStartup, vars, files, history, counters
<1>2. ASSUME NEW t \in Threads, TakeSeq(t) \/ LockAndLink(t) \/ MarkOpen(t) \/ MarkWrite(t)
      PROVE  UNCHANGED Trail!vars
  BY <1>2, <1>same DEF TakeSeq, LockAndLink, MarkOpen, MarkWrite, files, history, counters
<1>3. ASSUME NEW t \in Threads, AppendOk(t)
      PROVE  Trail!Next
  BY <1>3, RecordsOne DEF Trail!Next
\* A fault that leaves the file as it was.
<1>4. ASSUME NEW t \in Threads, MarkFails(t) \/ (AppendFails(t) /\ UNCHANGED <<log, tears>>)
      PROVE  Trail!Fault
  <2>1. UNCHANGED <<log, acks, tears, interference>> /\ failures' = failures + 1
    BY <1>4 DEF MarkFails, AppendFails, files, history
  <2>2. (failures > 0 \/ tears > 0)' = TRUE
    BY <2>1 DEF TypeOK
  <2>3. ReadableTrail' = ReadableTrail
    BY <2>1, TrailIs
  <2> QED
    BY <2>1, <2>2, <2>3 DEF Trail!Fault
<1>5. ASSUME NEW t \in Threads, AppendFails(t), ~UNCHANGED <<log, tears>>
      PROVE  Trail!Fault
  BY <1>5, TornIsFault DEF AppendFails, Torn, TypeOK
<1>6. CASE Crash /\ UNCHANGED <<log, tears>>
  BY <1>6, <1>same DEF Crash
<1>7. CASE Crash /\ ~UNCHANGED <<log, tears>>
  <2>1. Trail!Fault
    BY <1>7, TornIsFault DEF Crash, Torn, TypeOK
  <2> QED
    BY <2>1 DEF Trail!Next
<1>8. CASE Offline
  <2>1. UNCHANGED <<acks, failures, tears>> /\ interference' = interference + 1
    BY <1>8 DEF Offline
  <2>2. ReadableTrail' \in Seq(Bodies)
    BY TrailIs, TrailReads DEF TypeOK, Hashes
  <2>3. Trail!Interfere
    BY <2>1, <2>2 DEF Trail!Interfere
  <2> QED
    BY <2>3 DEF Trail!Next
<1> QED
  BY <1>1, <1>2, <1>3, <1>4, <1>5, <1>6, <1>7, <1>8
  DEF Next, Call, TailLost, LogGone, MarkGone, LastRewritten, Trail!Next

LEMMA InitImplements == Init => Trail!Init
<1> SUFFICES ASSUME Init PROVE Trail!Init
  OBVIOUS
<1>1. log = <<>> /\ acks = 0 /\ failures = 0 /\ tears = 0 /\ interference = 0
  BY DEF Init
<1>2. Reads(<<>>, 0) /\ <<>> \in Seq(Lines) /\ 0 \in 0 .. Len(<<>>)
  BY DEF Reads
<1>3. FollowedTo(log) = 0
  BY <1>1, <1>2, FollowedIs
<1>4. ReadableTrail = <<>>
  BY <1>3 DEF ReadableTrail, GENESIS
<1> QED
  BY <1>1, <1>4 DEF Trail!Init

\* ImplementsTrail: until an append fails or is cut short, each acknowledged call of
\* audit_extra makes the trail exactly one entry longer, and no doing of the server's
\* own ever takes an entry off it.
THEOREM LogImplementsTrail == Spec => ImplementsTrail
<1>1. Init => CleanInv
  BY DEF Init, CleanInv
<1>2. TypeOK /\ Book /\ CleanInv /\ [Next]_vars => CleanInv'
  BY CleanKept DEF Book
<1>3. TypeOK /\ TypeOK' /\ Book /\ Carried /\ CleanInv /\ [Next]_vars => [Trail!Next]_(Trail!vars)
  BY StepImplements
<1>4. Spec => Trail!Init /\ [][Trail!Next]_(Trail!vars)
  BY <1>1, <1>2, <1>3, InitImplements, QuietHolds, PTL DEF Spec
<1> QED
  BY <1>4 DEF ImplementsTrail, Trail!Spec
=============================================================================
