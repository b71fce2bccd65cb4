--------------------------- MODULE AuditLogProofs ---------------------------
(***************************************************************************)
(* What holds of AuditLog for every set of threads and every bound.        *)
(***************************************************************************)
EXTENDS AuditLog, SequenceTheorems, TLAPS

-----------------------------------------------------------------------------
(* Types                                                                   *)

LEMMA DigestType ==
  ASSUME NEW prev \in Hashes, NEW body \in Bodies
  PROVE  Digest(prev, body) \in Hashes
BY DEF Digest, Hashes

LEMMA EntryType ==
  ASSUME NEW prev \in Hashes, NEW body \in Bodies
  PROVE  Entry(body, prev) \in Lines
BY DigestType DEF Entry, Lines, Kinds

LEMMA UnreadableType == \A kind \in Kinds : Unreadable(kind) \in Lines
BY DEF Unreadable, Lines, NoBody, Bodies, GENESIS, Hashes

LEMMA LastLine ==
  ASSUME NEW lines \in Seq(Lines), lines # <<>>
  PROVE  /\ Last(lines) \in Lines
         /\ Last(lines) = lines[Len(lines)]
         /\ Len(lines) \in DOMAIN lines
         /\ Len(lines) \in Nat \ {0}
BY DEF Last

\* Every start resumes from a number, a hash and an anomaly, whatever the files hold.
LEMMA ResumeType ==
  ASSUME NEW there \in BOOLEAN, NEW lines \in Seq(Lines), NEW m \in Marks \cup {NoMark}
  PROVE  /\ resume_state_of(there, lines, m).seq \in Nat
         /\ resume_state_of(there, lines, m).hash \in Hashes
         /\ resume_state_of(there, lines, m).anomaly \in Anomalies
<1>g. GENESIS \in Hashes
  BY DEF GENESIS, Hashes
<1>m. m # NoMark => m.seq \in Nat /\ m.hash \in Hashes
  BY DEF Marks
<1>1. CASE ~there /\ m = NoMark
  BY <1>1, <1>g DEF resume_state_of, Resume, Anomalies
<1>2. CASE ~there /\ m # NoMark
  BY <1>2, <1>g, <1>m DEF resume_state_of, Resume, Anomalies
<1>3. CASE there /\ ~Usable(lines)
  BY <1>3, <1>g, <1>m DEF resume_state_of, Resume, Anomalies
<1>4. CASE there /\ Usable(lines)
  <2>1. Last(lines).body.seq \in Nat /\ Last(lines).hash \in Hashes
    BY <1>4, LastLine DEF Usable, Lines, Bodies
  <2>2. CASE m = NoMark
    BY <1>4, <2>1, <2>2 DEF resume_state_of, Resume, Anomalies
  <2>3. CASE m # NoMark
    <3>1. resume_state_of(there, lines, m) = ResumeFromBoth(Last(lines), m)
      BY <1>4, <2>3 DEF resume_state_of
    <3>2. QED BY <3>1, <2>1, <2>3, <1>m DEF ResumeFromBoth, Resume, Anomalies
  <2>4. QED BY <2>2, <2>3
<1>5. QED BY <1>1, <1>2, <1>3, <1>4

LEMMA AppendLineType ==
  ASSUME NEW lines \in Seq(Lines), NEW line \in Lines
  PROVE  /\ AppendLine(lines, line) \in Seq(Lines)
         /\ AppendFragment(lines, line) \in Seq(Lines)
<1>1. Unreadable("junk") \in Lines /\ Unreadable("torn") \in Lines
  BY UnreadableType DEF Kinds
<1>2. QED BY <1>1, LastLine DEF AppendLine, AppendFragment, Unfinished

LEMMA FragmentType == pending \in Lines => Fragments \subseteq Lines
<1>1. Unreadable("torn") \in Lines
  BY UnreadableType DEF Kinds
<1>2. pending \in Lines => [pending EXCEPT !.kind = "bare"] \in Lines
  BY DEF Lines, Kinds
<1>3. QED BY <1>1, <1>2 DEF Fragments

LEMMA HashesOfType ==
  ASSUME NEW lines \in Seq(Lines)
  PROVE  HashesOf(lines) \subseteq Hashes
<1>1. \A i \in DOMAIN lines : lines[i] \in Lines
  OBVIOUS
<1>2. \A i \in DOMAIN lines : lines[i].hash \in Hashes
  BY <1>1 DEF Lines
<1>3. QED BY <1>2 DEF HashesOf

LEMMA PlacesType ==
  "idle" \in Places /\ "seq" \in Places /\ "append" \in Places
  /\ "opening" \in Places /\ "writing" \in Places
BY DEF Places

LEMMA ModesType ==
  "down" \in Modes /\ "preflight" \in Modes /\ "starting" \in Modes /\ "up" \in Modes
BY DEF Modes

\* One lemma per action.
LEMMA PreflightTypes == TypeOK /\ PreflightOpen => TypeOK'
BY ModesType DEF TypeOK, PreflightOpen, history, counters

LEMMA StartupTypes == TypeOK /\ AuditStartup => TypeOK'
<1> SUFFICES ASSUME TypeOK, AuditStartup
             PROVE  TypeOK'
  OBVIOUS
<1> DEFINE r == resume_state_of(exists, log, mark)
<1>1. r.seq \in Nat /\ r.hash \in Hashes /\ r.anomaly \in Anomalies
  BY ResumeType DEF TypeOK
<1> HIDE DEF r
<1>2. mine' \in [Threads -> Nat]
  BY <1>1, ThreadsAssumption DEF TypeOK, AuditStartup, r
<1>3. pc' \in [Threads -> Places]
  BY PlacesType, ThreadsAssumption DEF TypeOK, AuditStartup, Go
<1>4. cut' \in Seq(Lines)
  BY DEF AuditStartup
<1>5. mode' \in Modes /\ AUDIT_SEQ' \in Nat /\ AUDIT_PREV' \in Hashes /\ alarm' \in Anomalies
  BY <1>1, ModesType DEF AuditStartup, r
<1>6. QED BY <1>2, <1>3, <1>4, <1>5 DEF TypeOK, AuditStartup, files, counters

LEMMA CallTypes ==
  ASSUME TypeOK, NEW t \in Threads, Call(t)
  PROVE  TypeOK'
<1>go. \A there \in Places : Go(t, there) => pc' \in [Threads -> Places]
  BY DEF TypeOK, Go
<1>return. Return(t) => /\ holder' \in Threads \cup {Free} /\ mode' \in Modes
                        /\ pc' \in [Threads -> Places]
                        /\ UNCHANGED <<AUDIT_SEQ, AUDIT_PREV, mine, pending, alarm>>
  BY <1>go, PlacesType, ModesType DEF Return
<1>hash. pending.hash \in Hashes
  BY DEF TypeOK, Lines
<1>1. CASE TakeSeq(t)
  <2>1. pc' \in [Threads -> Places]
    BY <1>1, <1>go, PlacesType DEF TakeSeq
  <2>2. AUDIT_SEQ' \in Nat /\ mine' \in [Threads -> Nat]
    BY <1>1 DEF TypeOK, TakeSeq
  <2>3. QED BY <1>1, <2>1, <2>2 DEF TypeOK, TakeSeq, files, history, counters
<1>2. CASE LockAndLink(t)
  <2> DEFINE body == [seq |-> mine[t], by |-> t]
  <2>1. body \in Bodies
    BY DEF TypeOK, Bodies
  <2>2. Entry(body, AUDIT_PREV) \in Lines /\ Entry(body, AUDIT_PREV).hash \in Hashes
    BY <2>1, EntryType, DigestType DEF TypeOK, Entry
  <2>3. pc' \in [Threads -> Places]
    BY <1>2, <1>go, PlacesType DEF LockAndLink
  <2>4. QED BY <1>2, <2>2, <2>3 DEF TypeOK, LockAndLink, files, history, counters
<1>3. CASE AppendOk(t)
  <2>1. log' \in Seq(Lines)
    BY <1>3, AppendLineType DEF TypeOK, AppendOk
  <2>2. pc' \in [Threads -> Places]
    BY <1>3, <1>go, PlacesType DEF AppendOk
  <2>3. acked' = acked \cup {pending.hash} /\ acks' = acks + 1
    BY <1>3 DEF AppendOk
  <2>4. acked' \subseteq Hashes
    BY <1>hash, <2>3 DEF TypeOK
  <2>5. acks' \in Nat
    BY <2>3 DEF TypeOK
  <2>6. QED BY <1>3, <2>1, <2>2, <2>4, <2>5 DEF TypeOK, AppendOk, counters
<1>4. CASE AppendFails(t)
  <2>1. \A f \in Fragments : AppendFragment(log, f) \in Seq(Lines)
    BY FragmentType, AppendLineType DEF TypeOK
  <2>2. log' \in Seq(Lines) /\ tears' \in Nat
    BY <1>4, <2>1 DEF TypeOK, AppendFails
  <2>3. QED BY <1>4, <1>hash, <1>return, <2>2 DEF TypeOK, AppendFails
<1>5. CASE MarkOpen(t)
  <2>1. pc' \in [Threads -> Places]
    BY <1>5, <1>go, PlacesType DEF MarkOpen
  <2>2. QED BY <1>5, <2>1 DEF TypeOK, MarkOpen, history, counters
<1>6. CASE MarkWrite(t)
  <2>1. mark' \in Marks
    BY <1>6, <1>hash DEF TypeOK, MarkWrite, Marks
  <2>2. QED BY <1>6, <1>return, <2>1 DEF TypeOK, MarkWrite, history, counters
<1>7. CASE MarkFails(t)
  <2>1. Return(t) /\ UNCHANGED <<files, history, crashes, interference>>
    BY <1>7 DEF MarkFails
  <2>2. failures' \in Nat
    BY <1>7 DEF TypeOK, MarkFails
  <2>3. QED BY <1>return, <2>1, <2>2 DEF TypeOK, files, history
<1>8. QED BY <1>1, <1>2, <1>3, <1>4, <1>5, <1>6, <1>7 DEF Call

LEMMA CrashTypes == TypeOK /\ Crash => TypeOK'
<1> SUFFICES ASSUME TypeOK, Crash
             PROVE  TypeOK'
  OBVIOUS
<1>1. \A f \in Fragments : AppendFragment(log, f) \in Seq(Lines)
  BY FragmentType, AppendLineType DEF TypeOK
<1>2. log' \in Seq(Lines) /\ tears' \in Nat
  BY <1>1 DEF TypeOK, Crash
<1>3. pending' \in Lines
  BY UnreadableType DEF Crash, Kinds
<1>4. pc' \in [Threads -> Places]
  BY PlacesType DEF Crash
<1>5. mode' \in Modes /\ alarm' \in Anomalies /\ AUDIT_PREV' \in Hashes
  BY DEF Crash, Modes, Anomalies, Hashes, GENESIS
<1>6. QED BY <1>2, <1>3, <1>4, <1>5 DEF TypeOK, Crash

LEMMA OfflineTypes ==
  TypeOK /\ Offline =>
    /\ mode' \in Modes
    /\ AUDIT_SEQ' \in Nat /\ AUDIT_PREV' \in Hashes
    /\ holder' \in Threads \cup {Free}
    /\ pc' \in [Threads -> Places]
    /\ mine' \in [Threads -> Nat]
    /\ pending' \in Lines
    /\ alarm' \in Anomalies
    /\ acked' \in SUBSET Hashes /\ acks' \in Nat /\ failed' \in SUBSET Hashes
    /\ tears' \in Nat
    /\ crashes' \in Nat /\ failures' \in Nat /\ interference' \in Nat
BY DEF TypeOK, Offline, process

LEMMA TailLostTypes ==
  ASSUME TypeOK, NEW k \in 0 .. Len(log) - 1, TailLost(k)
  PROVE  TypeOK'
<1> DEFINE lost == SubSeq(log, k + 1, Len(log))
<1>0. log \in Seq(Lines) /\ Len(log) \in Nat /\ k \in Nat /\ k + 1 \in 1 .. Len(log)
  BY DEF TypeOK
<1>1. lost \in Seq(Lines)
  BY <1>0
<1>2. SubSeq(log, 1, k) \in Seq(Lines)
  BY <1>0
<1>3. HashesOf(lost) \subseteq Hashes
  BY <1>1, HashesOfType
<1> HIDE DEF lost
<1>4. log' = SubSeq(log, 1, k) /\ cut' = lost \o cut /\ foreign' = foreign \cup HashesOf(lost)
      /\ UNCHANGED <<exists, mark>> /\ Offline
  BY DEF TailLost, lost
<1>5. cut' \in Seq(Lines)
  BY <1>1, <1>4 DEF TypeOK
<1>6. foreign' \in SUBSET Hashes
  BY <1>3, <1>4 DEF TypeOK
<1>7. QED BY <1>2, <1>4, <1>5, <1>6, OfflineTypes DEF TypeOK

LEMMA LogGoneTypes == TypeOK /\ LogGone => TypeOK'
<1> SUFFICES ASSUME TypeOK, LogGone
             PROVE  TypeOK'
  OBVIOUS
<1>1. HashesOf(log) \subseteq Hashes
  BY HashesOfType DEF TypeOK
<1>2. foreign' \in SUBSET Hashes
  BY <1>1 DEF TypeOK, LogGone
<1>3. log' \in Seq(Lines) /\ cut' \in Seq(Lines)
  BY DEF TypeOK, LogGone
<1>4. QED BY <1>2, <1>3, OfflineTypes DEF TypeOK, LogGone

LEMMA MarkGoneTypes == TypeOK /\ MarkGone => TypeOK'
BY OfflineTypes DEF TypeOK, MarkGone

LEMMA LastRewrittenTypes == TypeOK /\ LastRewritten => TypeOK'
<1> SUFFICES ASSUME TypeOK, LastRewritten
             PROVE  TypeOK'
  OBVIOUS
<1> DEFINE old == Last(log)
           new == Entry([old.body EXCEPT !.by = Free], old.prev)
<1>1. log \in Seq(Lines) /\ log # <<>> /\ old \in Lines
  BY LastLine DEF TypeOK, LastRewritten, Usable
<1>2. old.body \in Bodies /\ old.prev \in Hashes /\ old.hash \in Hashes
  BY <1>1 DEF Lines
<1>3. [old.body EXCEPT !.by = Free] \in Bodies
  BY <1>2 DEF Bodies
<1>4. new \in Lines
  BY <1>2, <1>3, EntryType
<1>5. log' = [log EXCEPT ![Len(log)] = new] /\ foreign' = foreign \cup {old.hash}
  BY DEF LastRewritten
<1> HIDE DEF old, new
<1>6. log' \in Seq(Lines)
  BY <1>1, <1>4, <1>5
<1>7. foreign' \in SUBSET Hashes
  BY <1>2, <1>5 DEF TypeOK
<1>8. QED BY <1>6, <1>7, OfflineTypes DEF TypeOK, LastRewritten

\* Every variable keeps its type in every behaviour.
THEOREM TypeCorrect == Spec => []TypeOK
<1>1. Init => TypeOK
  <2> SUFFICES ASSUME Init
               PROVE  TypeOK
    OBVIOUS
  <2>1. pending \in Lines
    BY UnreadableType DEF Init, Kinds
  <2>2. pc \in [Threads -> Places]
    BY PlacesType DEF Init
  <2>3. AUDIT_PREV \in Hashes
    BY DEF Init, Hashes, GENESIS
  <2>4. mode \in Modes /\ alarm \in Anomalies
    BY DEF Init, Modes, Anomalies
  <2>5. mine \in [Threads -> Nat] /\ holder \in Threads \cup {Free}
    BY DEF Init
  <2>6. log = <<>> /\ cut = <<>> /\ exists = FALSE /\ mark = NoMark
    BY DEF Init
  <2>7. /\ AUDIT_SEQ \in Nat /\ acks \in Nat /\ tears \in Nat
        /\ crashes \in Nat /\ failures \in Nat /\ interference \in Nat
    BY DEF Init
  <2>8. acked = {} /\ failed = {} /\ foreign = {}
    BY DEF Init
  <2>9. <<>> \in Seq(Lines)
    OBVIOUS
  <2>10. log \in Seq(Lines) /\ cut \in Seq(Lines)
    BY <2>6, <2>9
  <2>11. exists \in BOOLEAN /\ mark \in Marks \cup {NoMark}
    BY <2>6
  <2>12. QED BY <2>1, <2>2, <2>3, <2>4, <2>5, <2>7, <2>8, <2>10, <2>11 DEF TypeOK
<1>2. TypeOK /\ [Next]_vars => TypeOK'
  <2> SUFFICES ASSUME TypeOK, [Next]_vars
               PROVE  TypeOK'
    OBVIOUS
  <2>1. CASE UNCHANGED vars
    BY <2>1 DEF TypeOK, vars, process, files, history, counters
  <2>2. QED
    BY <2>1, PreflightTypes, StartupTypes, CallTypes, CrashTypes, TailLostTypes,
       LogGoneTypes, MarkGoneTypes, LastRewrittenTypes
    DEF Next
<1>3. QED BY <1>1, <1>2, PTL DEF Spec
-----------------------------------------------------------------------------
(* The mutex                                                               *)

Inside == {"append", "opening", "writing"}

\* Whoever is past the lock holds it, nobody has started a call before the
\* startup record, and a running server has created its log.
MutexInv ==
  /\ \A t \in Threads : pc[t] \in Inside => holder = t
  /\ mode \in {"down", "preflight"} => \A t \in Threads : pc[t] = "idle"
  /\ mode # "down" => exists
  /\ ~exists => log = <<>>

LEMMA GoKeeps ==
  ASSUME TypeOK, NEW t \in Threads, NEW there \in Places, Go(t, there)
  PROVE  pc'[t] = there /\ \A u \in Threads \ {t} : pc'[u] = pc[u]
BY DEF TypeOK, Go

LEMMA IdleIsOutside ==
  "idle" \notin Inside /\ "seq" \notin Inside /\ "append" \in Inside
  /\ "opening" \in Inside /\ "writing" \in Inside
BY DEF Inside

\* At most one thread is past the lock.
LEMMA OnlyHolderInside ==
  ASSUME MutexInv, NEW t \in Threads, pc[t] \in Inside \/ holder = Free
  PROVE  \A u \in Threads \ {t} : pc[u] \notin Inside
BY ThreadsAssumption DEF MutexInv

LEMMA MutexKeptByCall ==
  ASSUME TypeOK, MutexInv, NEW t \in Threads, Call(t)
  PROVE  MutexInv'
<1>1. mode \notin {"down", "preflight"}
  BY IdleIsOutside
  DEF MutexInv, Call, TakeSeq, LockAndLink, AppendOk, AppendFails, MarkOpen, MarkWrite,
      MarkFails, At
<1>2. mode' \in {mode, "up"}
  BY DEF Call, TakeSeq, LockAndLink, AppendOk, AppendFails, MarkOpen, MarkWrite, MarkFails,
         Return
<1>3. exists' = exists /\ exists
  BY <1>1
  DEF MutexInv, Call, TakeSeq, LockAndLink, AppendOk, AppendFails, MarkOpen, MarkWrite,
      MarkFails, files
<1>4. \A u \in Threads : pc'[u] \in Inside => holder' = u
  <2>1. CASE TakeSeq(t)
    <3>1. pc'[t] = "seq" /\ \A u \in Threads \ {t} : pc'[u] = pc[u]
      BY <2>1, GoKeeps, PlacesType DEF TakeSeq
    <3>2. QED BY <2>1, <3>1, IdleIsOutside DEF TakeSeq, MutexInv
  <2>2. CASE LockAndLink(t)
    <3>1. \A u \in Threads \ {t} : pc'[u] = pc[u]
      BY <2>2, GoKeeps, PlacesType DEF LockAndLink
    <3>2. holder = Free /\ holder' = t
      BY <2>2 DEF LockAndLink
    <3>3. QED BY <3>1, <3>2, OnlyHolderInside
  <2>3. CASE AppendOk(t)
    <3>1. \A u \in Threads \ {t} : pc'[u] = pc[u]
      BY <2>3, GoKeeps, PlacesType DEF AppendOk
    <3>2. pc[t] \in Inside /\ holder' = holder
      BY <2>3, IdleIsOutside DEF AppendOk, At
    <3>3. QED BY <3>1, <3>2, OnlyHolderInside DEF MutexInv
  <2>4. CASE MarkOpen(t)
    <3>1. \A u \in Threads \ {t} : pc'[u] = pc[u]
      BY <2>4, GoKeeps, PlacesType DEF MarkOpen
    <3>2. pc[t] \in Inside /\ holder' = holder
      BY <2>4, IdleIsOutside DEF MarkOpen, At
    <3>3. QED BY <3>1, <3>2, OnlyHolderInside DEF MutexInv
  <2>5. CASE pc[t] \in Inside /\ Return(t)
    <3>1. pc'[t] = "idle" /\ \A u \in Threads \ {t} : pc'[u] = pc[u]
      BY <2>5, GoKeeps, PlacesType DEF Return
    <3>2. QED BY <2>5, <3>1, OnlyHolderInside, IdleIsOutside
  <2>6. QED
    BY <2>1, <2>2, <2>3, <2>4, <2>5, IdleIsOutside DEF Call, AppendFails, MarkWrite, MarkFails, At
<1>5. QED BY <1>1, <1>2, <1>3, <1>4 DEF MutexInv

LEMMA MutexKept == TypeOK /\ MutexInv /\ [Next]_vars => MutexInv'
<1> SUFFICES ASSUME TypeOK, MutexInv, [Next]_vars
             PROVE  MutexInv'
  OBVIOUS
<1>1. CASE PreflightOpen
  BY <1>1 DEF PreflightOpen, MutexInv
<1>2. CASE AuditStartup
  <2>1. \A u \in Threads : pc[u] = "idle"
    BY <1>2 DEF AuditStartup, MutexInv
  <2>2. \A u \in Threads : pc'[u] \in {"seq", "idle"}
    BY <1>2, <2>1, ThreadsAssumption, GoKeeps, PlacesType DEF AuditStartup
  <2>3. QED BY <1>2, <2>2, IdleIsOutside DEF AuditStartup, MutexInv, files
<1>3. ASSUME NEW t \in Threads, Call(t)
      PROVE  MutexInv'
  BY <1>3, MutexKeptByCall
<1>4. CASE Crash
  <2>1. \A u \in Threads : pc'[u] = "idle"
    BY <1>4 DEF Crash
  <2>2. mode' = "down" /\ exists /\ exists' = exists
    BY <1>4 DEF Crash, MutexInv
  <2>3. QED BY <2>1, <2>2, IdleIsOutside DEF MutexInv
<1>5. ASSUME Offline, ~exists' => log' = <<>>
      PROVE  MutexInv'
  BY <1>5 DEF Offline, process, MutexInv
<1>6. ASSUME NEW k \in 0 .. Len(log) - 1, TailLost(k)
      PROVE  MutexInv'
  <2>1. log # <<>>
    OBVIOUS
  <2>2. exists
    BY <2>1 DEF MutexInv
  <2>3. QED BY <1>5, <1>6, <2>2 DEF TailLost
<1>7. CASE LogGone
  BY <1>5, <1>7 DEF LogGone
<1>8. CASE MarkGone
  BY <1>5, <1>8 DEF MarkGone, MutexInv
<1>9. CASE LastRewritten
  <2>1. exists
    BY <1>9 DEF LastRewritten, Usable, MutexInv
  <2>2. QED BY <1>5, <1>9, <2>1 DEF LastRewritten
<1>10. CASE UNCHANGED vars
  BY <1>10 DEF vars, process, files, MutexInv
<1>11. QED
  BY <1>1, <1>2, <1>3, <1>4, <1>6, <1>7, <1>8, <1>9, <1>10 DEF Next

\* At most one thread is past the lock, and the lock knows which.
THEOREM MutexHeld == Spec => []MutexInv
<1>1. Init => MutexInv
  BY IdleIsOutside DEF Init, MutexInv
<1>2. QED BY <1>1, TypeCorrect, MutexKept, PTL DEF Spec
-----------------------------------------------------------------------------
(* The mark                                                                *)

\* What the holder of the mutex carries from its append to its mark.
MarkInv ==
  /\ \A t \in Threads : pc[t] \in Inside => Last(pending.hash).seq = mine[t]
  /\ \A t \in Threads : pc[t] \in {"opening", "writing"} => pending.hash \in acked
  /\ MarkNeverAhead

LEMMA LastOfDigest ==
  ASSUME NEW prev \in Hashes, NEW body \in Bodies
  PROVE  Last(Digest(prev, body)) = body
BY DEF Digest, Hashes, Last

\* A call that leaves its own fields alone.
LEMMA MarkKeptBy ==
  ASSUME MutexInv, MarkInv, NEW t \in Threads, pc[t] \in Inside,
         \A u \in Threads \ {t} : pc'[u] = pc[u],
         pending' = pending, mine' = mine,
         pc'[t] \in {"opening", "writing"} => pending.hash \in acked',
         acked \subseteq acked', MarkNeverAhead'
  PROVE  MarkInv'
<1>1. \A u \in Threads \ {t} : pc'[u] \notin Inside
  BY OnlyHolderInside
<1>2. \A u \in Threads : pc'[u] \in Inside => Last(pending'.hash).seq = mine'[u]
  BY <1>1 DEF MarkInv
<1>3. \A u \in Threads : pc'[u] \in {"opening", "writing"} => pending'.hash \in acked'
  BY <1>1, IdleIsOutside
<1>4. QED BY <1>2, <1>3 DEF MarkInv

LEMMA MarkKeptByCall ==
  ASSUME TypeOK, MutexInv, MarkInv, NEW t \in Threads, Call(t)
  PROVE  MarkInv'
<1>1. CASE TakeSeq(t)
  <2>1. pc'[t] = "seq" /\ \A u \in Threads \ {t} : pc'[u] = pc[u]
    BY <1>1, GoKeeps, PlacesType DEF TakeSeq
  <2>2. \A u \in Threads \ {t} : mine'[u] = mine[u]
    BY <1>1 DEF TypeOK, TakeSeq
  <2>3. pending' = pending /\ acked' = acked /\ mark' = mark
    BY <1>1 DEF TakeSeq, history, files
  <2>4. QED BY <2>1, <2>2, <2>3, IdleIsOutside DEF MarkInv, MarkNeverAhead
<1>2. CASE LockAndLink(t)
  <2> DEFINE body == [seq |-> mine[t], by |-> t]
  <2>1. pc'[t] = "append" /\ \A u \in Threads \ {t} : pc'[u] = pc[u]
    BY <1>2, GoKeeps, PlacesType DEF LockAndLink
  <2>2. holder = Free
    BY <1>2 DEF LockAndLink
  <2>3. \A u \in Threads \ {t} : pc'[u] \notin Inside
    BY <2>1, <2>2, OnlyHolderInside
  <2>4. body \in Bodies /\ AUDIT_PREV \in Hashes
    BY DEF TypeOK, Bodies
  <2>5. pending'.hash = Digest(AUDIT_PREV, body)
    BY <1>2 DEF LockAndLink, Entry
  <2>6. Last(pending'.hash) = body
    BY <2>4, <2>5, LastOfDigest
  <2>7. mine' = mine /\ acked' = acked /\ mark' = mark
    BY <1>2 DEF LockAndLink, history, files
  <2>8. Last(pending'.hash).seq = mine'[t]
    BY <2>6, <2>7
  <2>9. \A u \in Threads : pc'[u] \notin {"opening", "writing"}
    BY <2>1, <2>3, IdleIsOutside
  <2> HIDE DEF body
  <2>10. QED BY <2>3, <2>7, <2>8, <2>9 DEF MarkInv, MarkNeverAhead
<1>3. CASE AppendOk(t)
  <2>1. \A u \in Threads \ {t} : pc'[u] = pc[u]
    BY <1>3, GoKeeps, PlacesType DEF AppendOk
  <2>2. pc[t] \in Inside
    BY <1>3, IdleIsOutside DEF AppendOk, At
  <2>3. pending' = pending /\ mine' = mine /\ mark' = mark /\ acked' = acked \cup {pending.hash}
    BY <1>3 DEF AppendOk
  <2>4. MarkNeverAhead'
    BY <2>3 DEF MarkInv, MarkNeverAhead
  <2>5. QED BY <2>1, <2>2, <2>3, <2>4, MarkKeptBy
<1>4. CASE MarkOpen(t)
  <2>1. \A u \in Threads \ {t} : pc'[u] = pc[u]
    BY <1>4, GoKeeps, PlacesType DEF MarkOpen
  <2>2. pc[t] = "opening"
    BY <1>4 DEF MarkOpen, At
  <2>3. pending' = pending /\ mine' = mine /\ mark' = NoMark /\ acked' = acked
    BY <1>4 DEF MarkOpen, history
  <2>4. pending.hash \in acked
    BY <2>2 DEF MarkInv
  <2>5. QED BY <2>1, <2>2, <2>3, <2>4, IdleIsOutside, MarkKeptBy DEF MarkNeverAhead
<1>5. CASE AppendFails(t)
  <2>1. pc'[t] = "idle" /\ \A u \in Threads \ {t} : pc'[u] = pc[u]
    BY <1>5, GoKeeps, PlacesType DEF AppendFails, Return
  <2>2. pc[t] \in Inside
    BY <1>5, IdleIsOutside DEF AppendFails, At
  <2>3. pending' = pending /\ mine' = mine /\ mark' = mark /\ acked' = acked
    BY <1>5 DEF AppendFails, Return
  <2>4. QED BY <2>1, <2>2, <2>3, MarkKeptBy DEF MarkInv, MarkNeverAhead
<1>6. CASE MarkWrite(t)
  <2>1. pc'[t] = "idle" /\ \A u \in Threads \ {t} : pc'[u] = pc[u]
    BY <1>6, GoKeeps, PlacesType DEF MarkWrite, Return
  <2>2. pc[t] = "writing"
    BY <1>6 DEF MarkWrite, At
  <2>3. /\ pending' = pending /\ mine' = mine /\ acked' = acked
        /\ mark' = [seq |-> mine[t], hash |-> pending.hash]
    BY <1>6 DEF MarkWrite, Return, history
  <2>4. pending.hash \in acked /\ Last(pending.hash).seq = mine[t]
    BY <2>2, IdleIsOutside DEF MarkInv
  <2>5. MarkNeverAhead'
    BY <2>3, <2>4 DEF MarkNeverAhead
  <2>6. QED BY <2>1, <2>2, <2>3, <2>5, IdleIsOutside, MarkKeptBy
<1>7. CASE MarkFails(t)
  <2>1. pc'[t] = "idle" /\ \A u \in Threads \ {t} : pc'[u] = pc[u]
    BY <1>7, GoKeeps, PlacesType DEF MarkFails, Return
  <2>2. pc[t] \in Inside
    BY <1>7, IdleIsOutside DEF MarkFails, At
  <2>3. pending' = pending /\ mine' = mine /\ mark' = mark /\ acked' = acked
    BY <1>7 DEF MarkFails, Return, files, history
  <2>4. QED BY <2>1, <2>2, <2>3, MarkKeptBy DEF MarkInv, MarkNeverAhead
<1>8. QED BY <1>1, <1>2, <1>3, <1>4, <1>5, <1>6, <1>7 DEF Call

\* Whatever is done to the files while nobody is inside.
LEMMA MarkKeptOutside ==
  ASSUME MarkInv, \A u \in Threads : pc'[u] \notin Inside,
         acked' = acked, mark' = mark \/ mark' = NoMark
  PROVE  MarkInv'
BY IdleIsOutside DEF MarkInv, MarkNeverAhead

LEMMA OfflineIsOutside ==
  ASSUME MutexInv, Offline
  PROVE  /\ \A u \in Threads : pc'[u] \notin Inside
         /\ acked' = acked /\ failed' = failed /\ mode' = "down"
         /\ \A u \in Threads : pc'[u] = "idle"
BY IdleIsOutside DEF MutexInv, Offline, process

LEMMA MarkKept == TypeOK /\ MutexInv /\ MarkInv /\ [Next]_vars => MarkInv'
<1> SUFFICES ASSUME TypeOK, MutexInv, MarkInv, [Next]_vars
             PROVE  MarkInv'
  OBVIOUS
<1>1. CASE PreflightOpen \/ UNCHANGED vars
  BY <1>1
  DEF PreflightOpen, vars, process, files, history, MarkInv, MarkNeverAhead
<1>2. CASE AuditStartup
  <2>1. \A u \in Threads : pc[u] = "idle"
    BY <1>2 DEF AuditStartup, MutexInv
  <2>2. \A u \in Threads : pc'[u] \in {"seq", "idle"}
    BY <1>2, <2>1, ThreadsAssumption, GoKeeps, PlacesType DEF AuditStartup
  <2>3. QED BY <1>2, <2>2, IdleIsOutside, MarkKeptOutside DEF AuditStartup, files
<1>3. ASSUME NEW t \in Threads, Call(t)
      PROVE  MarkInv'
  BY <1>3, MarkKeptByCall
<1>4. CASE Crash
  <2>1. \A u \in Threads : pc'[u] = "idle"
    BY <1>4 DEF Crash
  <2>2. QED BY <1>4, <2>1, IdleIsOutside, MarkKeptOutside DEF Crash
<1>5. CASE \E k \in 0 .. Len(log) - 1 : TailLost(k)
  BY <1>5, OfflineIsOutside, MarkKeptOutside DEF TailLost
<1>6. CASE LogGone \/ MarkGone \/ LastRewritten
  BY <1>6, OfflineIsOutside, MarkKeptOutside DEF LogGone, MarkGone, LastRewritten
<1>7. QED
  BY <1>1, <1>2, <1>3, <1>4, <1>5, <1>6 DEF Next

\* Whatever crashes, failed writes and interleavings: <log>.hwm never names an
\* entry that was not acknowledged as appended, nor under a number not its own.
THEOREM MarkTrustworthy == Spec => []MarkNeverAhead
<1>1. Init => MarkInv
  BY IdleIsOutside DEF Init, MarkInv, MarkNeverAhead
<1>2. MarkInv => MarkNeverAhead
  BY DEF MarkInv
<1>3. QED BY <1>1, <1>2, TypeCorrect, MutexHeld, MarkKept, PTL DEF Spec
-----------------------------------------------------------------------------
(* The links                                                               *)

PrevOf(lines, i) == IF i = 1 THEN GENESIS ELSE lines[i - 1].hash

\* Line i links, or its predecessor is an entry whose append failed (lost).
LinkedAt(lines, lost, i) ==
  (Readable(lines[i]) /\ (i > 1 => Readable(lines[i - 1])) /\ lines[i].prev # PrevOf(lines, i))
    => lines[i].prev \in lost

AllLinked(lines, lost) == \A i \in DOMAIN lines : LinkedAt(lines, lost, i)

\* An entry hashed onto prev may be put at the end of the file.
MayFollow(lines, lost, prev) ==
  \/ prev \in lost
  \/ lines # <<>> /\ ~Readable(Last(lines))
  \/ prev = IF lines = <<>> THEN GENESIS ELSE Last(lines).hash

LinkInv ==
  /\ AllLinked(log, failed)
  /\ mode \in {"starting", "up"} /\ (\A t \in Threads : pc[t] # "append")
       => MayFollow(log, failed, AUDIT_PREV)
  /\ \A t \in Threads : pc[t] = "append" =>
       /\ MayFollow(log, failed, pending.prev)
       /\ pending.hash = AUDIT_PREV /\ pending.kind = "entry"

LEMMA AllLinkedIsProperty == AllLinked(log, failed) <=> BrokenLinkHasFailedAppend
BY DEF AllLinked, LinkedAt, PrevOf, BrokenLinkHasFailedAppend

LEMMA LinksMonotone ==
  ASSUME NEW lines, NEW lost, NEW more, lost \subseteq more, AllLinked(lines, lost)
  PROVE  AllLinked(lines, more)
BY DEF AllLinked, LinkedAt

\* A line added at the end.
LEMMA LinksExtended ==
  ASSUME NEW lines \in Seq(Lines), NEW lost, NEW line \in Lines,
         AllLinked(lines, lost), MayFollow(lines, lost, line.prev)
  PROVE  AllLinked(Append(lines, line), lost)
<1> DEFINE longer == Append(lines, line)
           n == Len(lines)
<1>1. /\ n \in Nat /\ DOMAIN longer = 1 .. n + 1 /\ DOMAIN lines = 1 .. n
      /\ longer[n + 1] = line
      /\ \A i \in 1 .. n : longer[i] = lines[i]
  OBVIOUS
<1> HIDE DEF longer
<1>2. ASSUME NEW i \in 1 .. n
      PROVE  LinkedAt(longer, lost, i)
  <2>1. longer[i] = lines[i] /\ (i > 1 => longer[i - 1] = lines[i - 1])
    BY <1>1
  <2>2. LinkedAt(lines, lost, i)
    BY <1>1 DEF AllLinked
  <2>3. QED BY <2>1, <2>2, <1>1 DEF LinkedAt, PrevOf
<1>3. LinkedAt(longer, lost, n + 1)
  <2>1. CASE lines = <<>>
    <3>1. n = 0
      BY <2>1
    <3>2. QED BY <2>1, <3>1, <1>1 DEF LinkedAt, PrevOf, MayFollow
  <2>2. CASE lines # <<>>
    <3>1. n \in 1 .. n /\ Last(lines) = lines[n] /\ n + 1 > 1 /\ (n + 1) - 1 = n
      BY <2>2, <1>1, LastLine
    <3>2. longer[(n + 1) - 1] = Last(lines)
      BY <3>1, <1>1
    <3>3. PrevOf(longer, n + 1) = Last(lines).hash
      BY <3>1, <3>2 DEF PrevOf
    <3>4. QED BY <2>2, <3>1, <3>2, <3>3, <1>1 DEF LinkedAt, MayFollow
  <2>3. QED BY <2>1, <2>2
<1>4. QED BY <1>1, <1>2, <1>3 DEF AllLinked, longer

LEMMA PredecessorInRange ==
  ASSUME NEW n \in Nat, NEW i \in 1 .. n, i > 1
  PROVE  i - 1 \in 1 .. n /\ i - 1 # n
OBVIOUS

\* The last line replaced by one that cannot be read, or that keeps its predecessor.
LEMMA LinksWithLastReplaced ==
  ASSUME NEW lines \in Seq(Lines), lines # <<>>, NEW lost, NEW line \in Lines,
         AllLinked(lines, lost),
         Readable(line) => Readable(Last(lines)) /\ line.prev = Last(lines).prev
  PROVE  AllLinked([lines EXCEPT ![Len(lines)] = line], lost)
<1> DEFINE n == Len(lines)
           new == [lines EXCEPT ![n] = line]
<1>1. /\ n \in Nat /\ n \in 1 .. n /\ Last(lines) = lines[n] /\ DOMAIN lines = 1 .. n
      /\ DOMAIN new = 1 .. n /\ new[n] = line
      /\ \A i \in 1 .. n : i # n => new[i] = lines[i]
  BY LastLine
<1> HIDE DEF new, n
<1>2. ASSUME NEW i \in 1 .. n
      PROVE  LinkedAt(new, lost, i)
  <2>0. i > 1 => i - 1 \in 1 .. n /\ i - 1 # n
    BY <1>1, PredecessorInRange
  <2>1. i > 1 => new[i - 1] = lines[i - 1]
    BY <1>1, <2>0
  <2>2. LinkedAt(lines, lost, i)
    BY <1>1 DEF AllLinked
  <2>3. PrevOf(new, i) = PrevOf(lines, i)
    BY <2>1 DEF PrevOf
  <2>4. Readable(new[i]) => Readable(lines[i]) /\ new[i].prev = lines[i].prev
    BY <1>1
  <2>5. QED BY <2>1, <2>2, <2>3, <2>4 DEF LinkedAt
<1>3. QED BY <1>1, <1>2 DEF AllLinked, new, n

LEMMA LinksShortened ==
  ASSUME NEW lines \in Seq(Lines), NEW k \in 0 .. Len(lines) - 1, NEW lost,
         AllLinked(lines, lost)
  PROVE  AllLinked(SubSeq(lines, 1, k), lost)
<1> DEFINE new == SubSeq(lines, 1, k)
<1>1. Len(lines) \in Nat /\ DOMAIN lines = 1 .. Len(lines)
  OBVIOUS
<1>2. DOMAIN new = 1 .. k /\ \A i \in 1 .. k : new[i] = lines[i]
  BY <1>1
<1> HIDE DEF new
<1>3. ASSUME NEW i \in 1 .. k
      PROVE  LinkedAt(new, lost, i)
  <2>1. i \in DOMAIN lines /\ new[i] = lines[i] /\ (i > 1 => new[i - 1] = lines[i - 1])
    BY <1>1, <1>2
  <2>2. LinkedAt(lines, lost, i)
    BY <2>1 DEF AllLinked
  <2>3. QED BY <2>1, <2>2 DEF LinkedAt, PrevOf
<1>4. QED BY <1>2, <1>3 DEF AllLinked, new

LEMMA UnreadableIsUnreadable ==
  ~Readable(Unreadable("junk")) /\ ~Readable(Unreadable("torn"))
BY DEF Readable, Unreadable

\* An append, whole or cut short.
LEMMA LinksAppended ==
  ASSUME NEW lines \in Seq(Lines), NEW lost, NEW line \in Lines,
         AllLinked(lines, lost), MayFollow(lines, lost, line.prev)
  PROVE  /\ AllLinked(AppendLine(lines, line), lost)
         /\ AllLinked(AppendFragment(lines, line), lost)
         /\ MayFollow(AppendLine(lines, line), lost, line.hash)
<1>1. Unreadable("junk") \in Lines /\ Unreadable("torn") \in Lines
  BY UnreadableType DEF Kinds
<1>2. CASE Unfinished(lines)
  <2>1. lines # <<>>
    BY <1>2 DEF Unfinished
  <2>2. AppendLine(lines, line) = [lines EXCEPT ![Len(lines)] = Unreadable("junk")]
        /\ AppendFragment(lines, line) = [lines EXCEPT ![Len(lines)] = Unreadable("torn")]
    BY <1>2 DEF AppendLine, AppendFragment
  <2>3. AllLinked(AppendLine(lines, line), lost) /\ AllLinked(AppendFragment(lines, line), lost)
    BY <1>1, <2>1, <2>2, UnreadableIsUnreadable, LinksWithLastReplaced
  <2> DEFINE new == AppendLine(lines, line)
  <2>4. new # <<>> /\ Last(new) = Unreadable("junk")
    BY <1>1, <2>1, <2>2, LastLine DEF Last
  <2>5. QED BY <2>3, <2>4, UnreadableIsUnreadable DEF MayFollow
<1>3. CASE ~Unfinished(lines)
  <2>1. AppendLine(lines, line) = Append(lines, line)
        /\ AppendFragment(lines, line) = Append(lines, line)
    BY <1>3 DEF AppendLine, AppendFragment
  <2>2. AllLinked(Append(lines, line), lost)
    BY LinksExtended
  <2> DEFINE longer == Append(lines, line)
  <2>3. Len(lines) \in Nat /\ Len(longer) = Len(lines) + 1 /\ longer[Len(lines) + 1] = line
    OBVIOUS
  <2> HIDE DEF longer
  <2>4. longer # <<>>
    BY <2>3
  <2>5. Last(longer) = line
    BY <2>3 DEF Last
  <2>6. QED BY <2>1, <2>2, <2>4, <2>5 DEF MayFollow, longer
<1>4. QED BY <1>2, <1>3

\* A fragment that cannot be read disturbs no link.
LEMMA UnreadableLinks ==
  ASSUME NEW lines \in Seq(Lines), NEW lost, AllLinked(lines, lost)
  PROVE  AllLinked(AppendFragment(lines, Unreadable("torn")), lost)
<1> DEFINE torn == Unreadable("torn")
           longer == Append(lines, torn)
           n == Len(lines)
<1>1. torn \in Lines /\ ~Readable(torn)
  BY UnreadableType, UnreadableIsUnreadable DEF Kinds
<1> HIDE DEF torn
<1>2. CASE Unfinished(lines)
  <2>1. AppendFragment(lines, torn) = [lines EXCEPT ![Len(lines)] = torn] /\ lines # <<>>
    BY <1>2 DEF AppendFragment, Unfinished, torn
  <2>2. QED BY <1>1, <2>1, LinksWithLastReplaced DEF torn
<1>3. CASE ~Unfinished(lines)
  <2>1. AppendFragment(lines, torn) = longer
    BY <1>3 DEF AppendFragment, torn
  <2>2. /\ n \in Nat /\ DOMAIN longer = 1 .. n + 1 /\ DOMAIN lines = 1 .. n
        /\ longer[n + 1] = torn
        /\ \A i \in 1 .. n : longer[i] = lines[i]
    OBVIOUS
  <2> HIDE DEF longer
  <2>3. ASSUME NEW i \in 1 .. n
        PROVE  LinkedAt(longer, lost, i)
    <3>1. longer[i] = lines[i] /\ (i > 1 => longer[i - 1] = lines[i - 1])
      BY <2>2
    <3>2. LinkedAt(lines, lost, i)
      BY <2>2 DEF AllLinked
    <3>3. QED BY <3>1, <3>2, <2>2 DEF LinkedAt, PrevOf
  <2>4. LinkedAt(longer, lost, n + 1)
    BY <1>1, <2>2 DEF LinkedAt
  <2>5. QED BY <2>1, <2>2, <2>3, <2>4 DEF AllLinked, torn
<1>4. QED BY <1>2, <1>3

LEMMA FragmentLinks ==
  ASSUME TypeOK, NEW f \in Fragments,
         AllLinked(log, failed), MayFollow(log, failed, pending.prev)
  PROVE  AllLinked(AppendFragment(log, f), failed)
<1>1. f \in Lines
  BY FragmentType DEF TypeOK
<1>2. CASE f = Unreadable("torn")
  BY <1>1, <1>2, UnreadableLinks DEF TypeOK
<1>3. CASE f = [pending EXCEPT !.kind = "bare"]
  <2>1. f.prev = pending.prev
    BY <1>3 DEF TypeOK, Lines
  <2>2. QED BY <1>1, <2>1, LinksAppended DEF TypeOK
<1>4. QED BY <1>2, <1>3 DEF Fragments

\* Every start goes on from a hash the next entry may be linked to.
LEMMA ResumeFollows ==
  ASSUME NEW there \in BOOLEAN, NEW lines \in Seq(Lines), NEW m \in Marks \cup {NoMark},
         NEW lost, ~there => lines = <<>>
  PROVE  MayFollow(lines, lost, resume_state_of(there, lines, m).hash)
<1>1. CASE ~there
  <2>1. resume_state_of(there, lines, m).hash = GENESIS
    BY <1>1 DEF resume_state_of, Resume
  <2>2. QED BY <1>1, <2>1 DEF MayFollow
<1>2. CASE there /\ ~Usable(lines)
  <2>1. resume_state_of(there, lines, m).hash = GENESIS
    BY <1>2 DEF resume_state_of, Resume
  <2>2. QED BY <1>2, <2>1 DEF MayFollow, Usable
<1>3. CASE there /\ Usable(lines)
  <2>1. resume_state_of(there, lines, m).hash = Last(lines).hash
    <3>1. CASE m = NoMark
      BY <1>3, <3>1 DEF resume_state_of, Resume
    <3>2. CASE m # NoMark
      BY <1>3, <3>2 DEF resume_state_of, ResumeFromBoth, Resume
    <3>3. QED BY <3>1, <3>2
  <2>2. QED BY <1>3, <2>1 DEF MayFollow, Usable
<1>4. QED BY <1>1, <1>2, <1>3

LEMMA LinksKeptByCall ==
  ASSUME TypeOK, MutexInv, LinkInv, NEW t \in Threads, Call(t)
  PROVE  LinkInv'
<1>mode. mode \in {"starting", "up"}
  BY IdleIsOutside
  DEF MutexInv, TypeOK, Modes, Call, TakeSeq, LockAndLink, AppendOk, AppendFails, MarkOpen,
      MarkWrite, MarkFails, At
\* A step that neither enters nor leaves the append.
<1>aside. ASSUME \A u \in Threads : (pc'[u] = "append") <=> (pc[u] = "append"),
                 UNCHANGED <<log, failed, AUDIT_PREV, pending>>
          PROVE  LinkInv'
  BY <1>mode, <1>aside DEF LinkInv
\* A step after which nobody is appending.
<1>left. ASSUME \A u \in Threads : pc'[u] # "append",
                AllLinked(log', failed'), MayFollow(log', failed', AUDIT_PREV')
         PROVE  LinkInv'
  BY <1>left DEF LinkInv
<1>1. CASE TakeSeq(t)
  <2>1. pc[t] = "idle" /\ pc'[t] = "seq" /\ \A u \in Threads \ {t} : pc'[u] = pc[u]
    BY <1>1, GoKeeps, PlacesType DEF TakeSeq, At
  <2>2. UNCHANGED <<log, failed, AUDIT_PREV, pending>>
    BY <1>1 DEF TakeSeq, files, history
  <2>3. QED BY <2>1, <2>2, <1>aside
<1>2. CASE LockAndLink(t)
  <2>1. pc[t] = "seq" /\ pc'[t] = "append" /\ \A u \in Threads \ {t} : pc'[u] = pc[u]
    BY <1>2, GoKeeps, PlacesType DEF LockAndLink, At
  <2>2. holder = Free /\ log' = log /\ failed' = failed
    BY <1>2 DEF LockAndLink, files, history
  <2>3. \A u \in Threads \ {t} : pc[u] # "append"
    BY <2>2, OnlyHolderInside, IdleIsOutside
  <2>4. MayFollow(log, failed, AUDIT_PREV)
    BY <1>mode, <2>1, <2>3 DEF LinkInv
  <2>5. pending'.prev = AUDIT_PREV /\ pending'.hash = AUDIT_PREV' /\ pending'.kind = "entry"
    BY <1>2 DEF LockAndLink, Entry
  <2>6. QED BY <2>1, <2>2, <2>3, <2>4, <2>5 DEF LinkInv
<1>3. CASE AppendOk(t)
  <2>1. pc'[t] = "opening" /\ \A u \in Threads \ {t} : pc'[u] = pc[u]
    BY <1>3, GoKeeps, PlacesType DEF AppendOk
  <2>2. pc[t] = "append"
    BY <1>3 DEF AppendOk, At
  <2>3. \A u \in Threads : pc'[u] # "append"
    BY <2>1, <2>2, OnlyHolderInside, IdleIsOutside
  <2>4. log' = AppendLine(log, pending) /\ failed' = failed /\ AUDIT_PREV' = AUDIT_PREV
    BY <1>3 DEF AppendOk
  <2>5. /\ AllLinked(AppendLine(log, pending), failed)
        /\ MayFollow(AppendLine(log, pending), failed, pending.hash)
    BY <2>2, LinksAppended DEF LinkInv, TypeOK
  <2>6. pending.hash = AUDIT_PREV
    BY <2>2 DEF LinkInv
  <2>7. QED BY <2>3, <2>4, <2>5, <2>6, <1>left
<1>4. CASE AppendFails(t)
  <2>1. pc'[t] = "idle" /\ \A u \in Threads \ {t} : pc'[u] = pc[u]
    BY <1>4, GoKeeps, PlacesType DEF AppendFails, Return
  <2>2. pc[t] = "append"
    BY <1>4 DEF AppendFails, At
  <2>3. \A u \in Threads : pc'[u] # "append"
    BY <2>1, <2>2, OnlyHolderInside, IdleIsOutside
  <2>4. failed' = failed \cup {pending.hash} /\ AUDIT_PREV' = AUDIT_PREV
    BY <1>4 DEF AppendFails, Return
  <2>5. pending.hash = AUDIT_PREV /\ MayFollow(log, failed, pending.prev)
    BY <2>2 DEF LinkInv
  <2>6. MayFollow(log', failed', AUDIT_PREV')
    BY <2>4, <2>5 DEF MayFollow
  <2>7. AllLinked(log', failed)
    <3>1. CASE log' = log
      BY <3>1 DEF LinkInv
    <3>2. ASSUME NEW f \in Fragments, log' = AppendFragment(log, f)
          PROVE  AllLinked(log', failed)
      BY <2>5, <3>2, FragmentLinks DEF LinkInv
    <3>3. QED BY <1>4, <3>1, <3>2 DEF AppendFails
  <2>8. AllLinked(log', failed')
    BY <2>4, <2>7, LinksMonotone
  <2>9. QED BY <2>3, <2>6, <2>8, <1>left
<1>5. CASE MarkOpen(t)
  <2>1. pc[t] = "opening" /\ pc'[t] = "writing" /\ \A u \in Threads \ {t} : pc'[u] = pc[u]
    BY <1>5, GoKeeps, PlacesType DEF MarkOpen, At
  <2>2. UNCHANGED <<log, failed, AUDIT_PREV, pending>>
    BY <1>5 DEF MarkOpen, history
  <2>3. QED BY <2>1, <2>2, <1>aside
<1>6. CASE MarkWrite(t) \/ MarkFails(t)
  <2>1. pc'[t] = "idle" /\ \A u \in Threads \ {t} : pc'[u] = pc[u]
    BY <1>6, GoKeeps, PlacesType DEF MarkWrite, MarkFails, Return
  <2>2. pc[t] \in {"opening", "writing"}
    BY <1>6 DEF MarkWrite, MarkFails, At
  <2>3. UNCHANGED <<log, failed, AUDIT_PREV, pending>>
    BY <1>6 DEF MarkWrite, MarkFails, Return, files, history
  <2>4. QED BY <2>1, <2>2, <2>3, <1>aside
<1>7. QED BY <1>1, <1>2, <1>3, <1>4, <1>5, <1>6 DEF Call

LEMMA LinksKept == TypeOK /\ MutexInv /\ LinkInv /\ [Next]_vars => LinkInv'
<1> SUFFICES ASSUME TypeOK, MutexInv, LinkInv, [Next]_vars
             PROVE  LinkInv'
  OBVIOUS
\* A step after which the server is not serving: only the file matters.
<1>down. ASSUME AllLinked(log', failed'), mode' \in {"down", "preflight"},
                \A u \in Threads : pc'[u] = "idle"
         PROVE  LinkInv'
  BY <1>down DEF LinkInv
<1>1. CASE PreflightOpen
  <2>1. \A u \in Threads : pc'[u] = "idle"
    BY <1>1 DEF PreflightOpen, MutexInv
  <2>2. QED BY <1>1, <2>1, <1>down DEF PreflightOpen, history, LinkInv
<1>2. CASE AuditStartup
  <2>1. \A u \in Threads : pc[u] = "idle"
    BY <1>2 DEF AuditStartup, MutexInv
  <2>2. \A u \in Threads : pc'[u] # "append"
    BY <1>2, <2>1, ThreadsAssumption, GoKeeps, PlacesType DEF AuditStartup
  <2>3. AUDIT_PREV' = resume_state_of(exists, log, mark).hash /\ log' = log /\ failed' = failed
    BY <1>2 DEF AuditStartup, files
  <2>4. MayFollow(log, failed, resume_state_of(exists, log, mark).hash)
    BY ResumeFollows DEF TypeOK, MutexInv
  <2>5. QED BY <2>2, <2>3, <2>4 DEF LinkInv
<1>3. ASSUME NEW t \in Threads, Call(t)
      PROVE  LinkInv'
  BY <1>3, LinksKeptByCall
<1>4. CASE Crash
  <2>1. mode' = "down" /\ (\A u \in Threads : pc'[u] = "idle") /\ failed' = failed
    BY <1>4 DEF Crash
  <2>2. CASE log' = log
    BY <2>1, <2>2, <1>down DEF LinkInv
  <2>3. ASSUME NEW t \in Threads, pc[t] = "append",
               NEW f \in Fragments, log' = AppendFragment(log, f)
        PROVE  LinkInv'
    <3>1. AllLinked(log', failed)
      BY <2>3, FragmentLinks DEF LinkInv
    <3>2. QED BY <2>1, <3>1, <1>down
  <2>4. QED BY <1>4, <2>2, <2>3 DEF Crash, At
<1>5. ASSUME Offline, AllLinked(log', failed)
      PROVE  LinkInv'
  BY <1>5, OfflineIsOutside, <1>down
<1>6. ASSUME NEW k \in 0 .. Len(log) - 1, TailLost(k)
      PROVE  LinkInv'
  <2>1. AllLinked(SubSeq(log, 1, k), failed)
    BY LinksShortened DEF LinkInv, TypeOK
  <2>2. QED BY <1>5, <1>6, <2>1 DEF TailLost
<1>7. CASE LogGone
  <2>1. AllLinked(<<>>, failed)
    BY DEF AllLinked
  <2>2. QED BY <1>5, <1>7, <2>1 DEF LogGone
<1>8. CASE MarkGone
  BY <1>5, <1>8 DEF MarkGone, LinkInv
<1>9. CASE LastRewritten
  <2> DEFINE old == Last(log)
             new == Entry([old.body EXCEPT !.by = Free], old.prev)
  <2>1. log # <<>> /\ Readable(old) /\ old \in Lines
    BY <1>9, LastLine DEF LastRewritten, Usable, TypeOK
  <2>2. old.body \in Bodies /\ old.prev \in Hashes
    BY <2>1 DEF Lines
  <2>3. [old.body EXCEPT !.by = Free] \in Bodies
    BY <2>2 DEF Bodies
  <2>4. new \in Lines
    BY <2>2, <2>3, EntryType
  <2>5. new.prev = old.prev
    BY DEF Entry
  <2>6. log' = [log EXCEPT ![Len(log)] = new] /\ Offline
    BY <1>9 DEF LastRewritten
  <2> HIDE DEF new
  <2>7. AllLinked([log EXCEPT ![Len(log)] = new], failed)
    BY <2>1, <2>4, <2>5, LinksWithLastReplaced DEF LinkInv, TypeOK
  <2>8. QED BY <2>6, <2>7, <1>5
<1>10. CASE UNCHANGED vars
  BY <1>10 DEF vars, process, files, history, LinkInv
<1>11. QED
  BY <1>1, <1>2, <1>3, <1>4, <1>6, <1>7, <1>8, <1>9, <1>10 DEF Next

\* In every behaviour a link of the log is broken only where an append failed:
\* no order of the threads, crash, restart or shortened file breaks another.
THEOREM LinksHold == Spec => []BrokenLinkHasFailedAppend
<1>1. Init => LinkInv
  BY DEF Init, LinkInv, AllLinked
<1>2. LinkInv => BrokenLinkHasFailedAppend
  BY AllLinkedIsProperty DEF LinkInv
<1>3. QED BY <1>1, <1>2, TypeCorrect, MutexHeld, LinksKept, PTL DEF Spec
=============================================================================
