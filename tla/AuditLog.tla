------------------------------ MODULE AuditLog ------------------------------
(***************************************************************************)
(* The hash-chained audit log of src/src/audit_log.rs: concurrent callers  *)
(* of audit_extra, the high-water mark kept beside the log, and resuming   *)
(* after a crash or a restart.                                             *)
(*                                                                         *)
(* A hash is modelled by the history it commits to: GENESIS is the empty   *)
(* sequence and hashing an entry onto a hash appends the entry's body, so  *)
(* two hashes are equal exactly when they commit to the same entries.  A   *)
(* body is abstracted to its sequence number and its author.               *)
(***************************************************************************)
EXTENDS Naturals, Sequences, FiniteSets, SequencesExt

CONSTANTS
  Threads,          \* threads that call audit_extra
  Main,             \* the one that runs main(), and so audit_startup
  Free,             \* nobody: owner of a free mutex, author of a foreign entry
  NoMark,           \* <log>.hwm is missing or cannot be parsed
  MaxSeq,           \* bound: sequence numbers handed out
  MaxMishaps        \* bound: process exits, failed writes and foreign changes together

ASSUME ThreadsAssumption == Main \in Threads /\ Free \notin Threads
ASSUME BoundsAssumption == MaxSeq \in Nat /\ MaxMishaps \in Nat

Bodies == [seq : Nat, by : Threads \cup {Free}]
Hashes == Seq(Bodies)
GENESIS == <<>>
Digest(prev, body) == Append(prev, body)

\* entry: a whole line.  bare: a whole entry, its newline missing.
\* torn: a fragment without a newline.  junk: a line that is not JSON.
Kinds == {"entry", "bare", "torn", "junk"}
Lines == [kind : Kinds, body : Bodies, prev : Hashes, hash : Hashes]
Marks == [seq : Nat, hash : Hashes]
\* An empty or unreadable mark file is not taken for a mark.
ASSUME MarksAssumption == NoMark \notin Marks
Anomalies == {"none", "gone", "unusable", "missing", "rewritten"}

Modes == {"down", "preflight", "starting", "up"}
Places == {"idle", "seq", "append", "opening", "writing"}

NoBody == [seq |-> 0, by |-> Free]
Unreadable(kind) == [kind |-> kind, body |-> NoBody, prev |-> GENESIS, hash |-> GENESIS]
Entry(body, prev) ==
  [kind |-> "entry", body |-> body, prev |-> prev, hash |-> Digest(prev, body)]

Readable(line) == line.kind \in {"entry", "bare"}
Terminated(line) == line.kind \in {"entry", "junk"}

VARIABLES
  \* the process; lost when it ends
  mode,         \* "down", "preflight", "starting" (audit_startup) or "up"
  AUDIT_SEQ,    \* the last sequence number handed out
  AUDIT_PREV,   \* the last hash computed
  holder,       \* owner of the AUDIT_PREV mutex
  pc,           \* where each thread is in audit_extra
  mine,         \* the sequence number each thread took
  pending,      \* the line the holder of the mutex is writing
  alarm,        \* the anomaly reported at start
  \* the files
  exists,       \* the log file exists
  log,          \* its lines
  mark,         \* <log>.hwm
  \* history
  acked,        \* hashes of the entries whose append succeeded
  acks,         \* how many appends succeeded
  failed,       \* hashes of the entries whose append failed
  tears,        \* appends that left part of a line behind
  cut,          \* lines removed since the server was last up
  foreign,      \* hashes removed or replaced by someone else
  crashes,      \* exits of the process
  failures,     \* failed writes to the log or to the mark
  interference  \* changes made to the files while the server was down

process == <<mode, AUDIT_SEQ, AUDIT_PREV, holder, pc, mine, pending, alarm>>
files == <<exists, log, mark>>
history == <<acked, acks, failed, tears, cut, foreign>>
counters == <<crashes, failures, interference>>
vars == <<process, files, history, counters>>

-----------------------------------------------------------------------------
(* Reading the files back                                                  *)

\* The line resume_state_of goes by; the file may be missing, empty or end badly.
Usable(lines) == lines # <<>> /\ Readable(Last(lines))

Resume(seq, hash, anomaly) == [seq |-> seq, hash |-> hash, anomaly |-> anomaly]

\* Mistakes a comparison could make (each replaces ResumeFromBoth in a mutant run):
\* it never looks at how far the mark went,
ResumeIgnoringMark(last, m) == Resume(last.body.seq, last.hash, "none")

\* takes any difference for a loss,
ResumeAlarmingOnAnyDifference(last, m) ==
  Resume(m.seq, last.hash, IF last.hash # m.hash THEN "missing" ELSE "none")

\* or notices the loss and numbers on from the log.
ResumeNumberingFromLog(last, m) ==
  Resume(last.body.seq, last.hash, IF last.body.seq < m.seq THEN "missing" ELSE "none")

ResumeFromBoth(last, m) ==
  Resume(IF last.body.seq > m.seq THEN last.body.seq ELSE m.seq,
         last.hash,
         CASE last.body.seq < m.seq -> "missing"
           [] last.body.seq = m.seq /\ last.hash # m.hash -> "rewritten"
           [] OTHER -> "none")

\* Mistake: a restart starts a new chain although the log has entries.
ResumeWithFreshChain(there, lines, m) ==
  Resume(IF Usable(lines) THEN Last(lines).body.seq ELSE 0, GENESIS, "none")

resume_state_of(there, lines, m) ==
  CASE ~there /\ m = NoMark -> Resume(0, GENESIS, "none")
    [] ~there /\ m # NoMark -> Resume(m.seq, GENESIS, "gone")
    [] there /\ ~Usable(lines) ->
         Resume(IF m = NoMark THEN 0 ELSE m.seq, GENESIS, "unusable")
    [] there /\ Usable(lines) /\ m = NoMark ->
         Resume(Last(lines).body.seq, Last(lines).hash, "none")
    [] there /\ Usable(lines) /\ m # NoMark -> ResumeFromBoth(Last(lines), m)

\* What the offline verifier says of line i, its checks in the code's order.
LineVerdict(lines, i) ==
  LET line == lines[i]
      prev == IF i = 1 THEN GENESIS ELSE lines[i - 1].hash
  IN  IF ~Readable(line) THEN "invalid"
      ELSE IF line.prev # prev THEN "broken"
      ELSE IF i > 1 /\ line.body.seq # lines[i - 1].body.seq + 1 THEN "gap"
      ELSE IF line.hash # Digest(prev, line.body) THEN "mismatch"
      ELSE "ok"

\* The first complaint is the verdict.
verify_audit_file(lines) ==
  LET bad == {i \in DOMAIN lines : LineVerdict(lines, i) # "ok"}
  IN IF bad = {} THEN "ok"
     ELSE LineVerdict(lines, CHOOSE i \in bad : \A j \in bad : i <= j)

-----------------------------------------------------------------------------
(* Writing                                                                 *)

Unfinished(lines) == lines # <<>> /\ ~Terminated(Last(lines))

\* Mistake: the line is written without its newline.
AppendLineUnfinished(lines, line) ==
  IF Unfinished(lines)
  THEN [lines EXCEPT ![Len(lines)] = Unreadable("torn")]
  ELSE Append(lines, [line EXCEPT !.kind = "bare"])

\* writeln! on a file opened for appending: a line that lands behind a
\* fragment becomes part of it.
AppendLine(lines, line) ==
  IF Unfinished(lines)
  THEN [lines EXCEPT ![Len(lines)] = Unreadable("junk")]
  ELSE Append(lines, line)

\* What an append that stops half way leaves: part of the text, or all of it
\* without the newline.
AppendFragment(lines, fragment) ==
  IF Unfinished(lines)
  THEN [lines EXCEPT ![Len(lines)] = Unreadable("torn")]
  ELSE Append(lines, fragment)

Fragments == {Unreadable("torn"), [pending EXCEPT !.kind = "bare"]}

MishapsLeft == crashes + failures + interference < MaxMishaps

At(t, here) == pc[t] = here
Go(t, there) == pc' = [pc EXCEPT ![t] = there]

Init ==
  /\ mode = "down" /\ AUDIT_SEQ = 0 /\ AUDIT_PREV = GENESIS /\ holder = Free
  /\ pc = [t \in Threads |-> "idle"] /\ mine = [t \in Threads |-> 0]
  /\ pending = Unreadable("torn") /\ alarm = "none"
  /\ exists = FALSE /\ log = <<>> /\ mark = NoMark
  /\ acked = {} /\ acks = 0 /\ failed = {} /\ tears = 0 /\ cut = <<>> /\ foreign = {}
  /\ crashes = 0 /\ failures = 0 /\ interference = 0

\* Mistake: the log is opened with truncation instead of for appending.
PreflightTruncates ==
  /\ mode = "down"
  /\ mode' = "preflight"
  /\ exists' = TRUE /\ log' = <<>>
  /\ UNCHANGED <<AUDIT_SEQ, AUDIT_PREV, holder, pc, mine, pending, alarm, mark,
                 history, counters>>

\* preflight_config opens the log to prove it can be written, creating it.
PreflightOpen ==
  /\ mode = "down"
  /\ mode' = "preflight"
  /\ exists' = TRUE
  /\ UNCHANGED <<AUDIT_SEQ, AUDIT_PREV, holder, pc, mine, pending, alarm, log, mark,
                 history, counters>>

\* audit_startup makes the first call, which forces RESUME: the files are read,
\* the anomaly announced, and Main has the first number of this run.
AuditStartup ==
  LET r == resume_state_of(exists, log, mark)
  IN /\ mode = "preflight"
     /\ r.seq < MaxSeq
     /\ mode' = "starting"
     /\ AUDIT_SEQ' = r.seq + 1
     /\ AUDIT_PREV' = r.hash
     /\ alarm' = r.anomaly
     /\ mine' = [mine EXCEPT ![Main] = r.seq + 1]
     /\ Go(Main, "seq")
     /\ cut' = <<>>
     /\ UNCHANGED <<holder, pending, files, acked, acks, failed, tears, foreign, counters>>

\* AUDIT_SEQ.fetch_add, before the mutex is taken.
TakeSeq(t) ==
  /\ mode = "up" /\ At(t, "idle")
  /\ AUDIT_SEQ < MaxSeq
  /\ AUDIT_SEQ' = AUDIT_SEQ + 1
  /\ mine' = [mine EXCEPT ![t] = AUDIT_SEQ + 1]
  /\ Go(t, "seq")
  /\ UNCHANGED <<mode, AUDIT_PREV, holder, pending, alarm, files, history, counters>>

\* Mistake: the mark moves before the entry is appended.
LockAndMark(t) ==
  LET line == Entry([seq |-> mine[t], by |-> t], AUDIT_PREV)
  IN /\ At(t, "seq") /\ holder = Free
     /\ holder' = t
     /\ pending' = line
     /\ AUDIT_PREV' = line.hash
     /\ mark' = [seq |-> mine[t], hash |-> line.hash]
     /\ Go(t, "append")
     /\ UNCHANGED <<mode, AUDIT_SEQ, mine, alarm, exists, log, history, counters>>

\* The mutex is taken, the entry hashed onto AUDIT_PREV, and AUDIT_PREV moved on:
\* nothing outside the mutex reads what changes here.
LockAndLink(t) ==
  LET line == Entry([seq |-> mine[t], by |-> t], AUDIT_PREV)
  IN /\ At(t, "seq") /\ holder = Free
     /\ holder' = t
     /\ pending' = line
     /\ AUDIT_PREV' = line.hash
     /\ Go(t, "append")
     /\ UNCHANGED <<mode, AUDIT_SEQ, mine, alarm, files, history, counters>>

AppendOk(t) ==
  /\ At(t, "append")
  /\ log' = AppendLine(log, pending)
  /\ acked' = acked \cup {pending.hash}
  /\ acks' = acks + 1
  /\ Go(t, "opening")
  /\ UNCHANGED <<mode, AUDIT_SEQ, AUDIT_PREV, holder, mine, pending, alarm, exists, mark,
                 failed, tears, cut, foreign, counters>>

\* audit_extra returns: the mutex guard is dropped, and once the startup record
\* has been dealt with main() goes on to start the other threads.
Return(t) ==
  /\ holder' = Free
  /\ Go(t, "idle")
  /\ mode' = "up"
  /\ UNCHANGED <<AUDIT_SEQ, AUDIT_PREV, mine, pending, alarm>>

\* The append fails, possibly after part of the line was written.  It is counted
\* and reported; AUDIT_PREV stays where it is and the mark is left alone.
AppendFails(t) ==
  /\ At(t, "append")
  /\ MishapsLeft
  /\ \/ /\ UNCHANGED <<log, tears>>
     \/ /\ \E f \in Fragments : log' = AppendFragment(log, f)
        /\ tears' = tears + 1
  /\ failed' = failed \cup {pending.hash}
  /\ failures' = failures + 1
  /\ Return(t)
  /\ UNCHANGED <<exists, mark, acked, acks, cut, foreign, crashes, interference>>

\* write_hwm, first half: fs::write empties the file it opens.
MarkOpen(t) ==
  /\ At(t, "opening")
  /\ mark' = NoMark
  /\ Go(t, "writing")
  /\ UNCHANGED <<mode, AUDIT_SEQ, AUDIT_PREV, holder, mine, pending, alarm, exists, log,
                 history, counters>>

\* or a mark is kept back when a higher number has been handed out.
MarkWriteIfNewest(t) ==
  /\ At(t, "writing")
  /\ mark' = IF mine[t] = AUDIT_SEQ THEN [seq |-> mine[t], hash |-> pending.hash] ELSE mark
  /\ Return(t)
  /\ UNCHANGED <<exists, log, history, counters>>

\* write_hwm, second half, and the end of the call.
MarkWrite(t) ==
  /\ At(t, "writing")
  /\ mark' = [seq |-> mine[t], hash |-> pending.hash]
  /\ Return(t)
  /\ UNCHANGED <<exists, log, history, counters>>

\* Either half of write_hwm fails; the error is printed and the call ends.
MarkFails(t) ==
  /\ At(t, "opening") \/ At(t, "writing")
  /\ MishapsLeft
  /\ failures' = failures + 1
  /\ Return(t)
  /\ UNCHANGED <<files, history, crashes, interference>>

\* The process ends, orderly or not.  An append under way may leave a fragment.
Crash ==
  /\ mode # "down" /\ MishapsLeft
  /\ mode' = "down" /\ AUDIT_SEQ' = 0 /\ AUDIT_PREV' = GENESIS /\ holder' = Free
  /\ pc' = [t \in Threads |-> "idle"] /\ mine' = [t \in Threads |-> 0]
  /\ pending' = Unreadable("torn") /\ alarm' = "none"
  /\ \/ UNCHANGED <<log, tears>>
     \/ /\ \E t \in Threads : At(t, "append")
        /\ \E f \in Fragments : log' = AppendFragment(log, f)
        /\ tears' = tears + 1
  /\ crashes' = crashes + 1
  /\ UNCHANGED <<exists, mark, acked, acks, failed, cut, foreign, failures, interference>>

-----------------------------------------------------------------------------
(* Other hands on the files while the server is down                       *)

HashesOf(lines) == {lines[i].hash : i \in {j \in DOMAIN lines : Readable(lines[j])}}

Offline ==
  /\ mode = "down" /\ MishapsLeft
  /\ interference' = interference + 1
  /\ UNCHANGED <<process, acked, acks, failed, tears, crashes, failures>>

\* The file is shortened to its first k lines: an old copy restored, a tail cut off.
TailLost(k) ==
  LET lost == SubSeq(log, k + 1, Len(log))
  IN /\ log' = SubSeq(log, 1, k)
     /\ cut' = lost \o cut
     /\ foreign' = foreign \cup HashesOf(lost)
     /\ Offline
     /\ UNCHANGED <<exists, mark>>

\* The log is deleted or moved away without its mark.
LogGone ==
  /\ exists
  /\ exists' = FALSE /\ log' = <<>>
  /\ cut' = log \o cut
  /\ foreign' = foreign \cup HashesOf(log)
  /\ Offline
  /\ UNCHANGED mark

\* The log is kept and its mark is not.
MarkGone ==
  /\ mark # NoMark
  /\ mark' = NoMark
  /\ Offline
  /\ UNCHANGED <<exists, log, cut, foreign>>

\* The last entry is replaced by another with a hash recomputed to match.
LastRewritten ==
  /\ Usable(log) /\ Last(log).body.by # Free
  /\ LET old == Last(log)
     IN /\ log' = [log EXCEPT ![Len(log)] = Entry([old.body EXCEPT !.by = Free], old.prev)]
        /\ foreign' = foreign \cup {old.hash}
  /\ Offline
  /\ UNCHANGED <<exists, mark, cut>>

-----------------------------------------------------------------------------
Call(t) ==
  \/ TakeSeq(t) \/ LockAndLink(t) \/ AppendOk(t) \/ AppendFails(t)
  \/ MarkOpen(t) \/ MarkWrite(t) \/ MarkFails(t)

Next ==
  \/ PreflightOpen
  \/ AuditStartup
  \/ \E t \in Threads : Call(t)
  \/ Crash
  \/ \E k \in 0 .. Len(log) - 1 : TailLost(k)
  \/ LogGone
  \/ MarkGone
  \/ LastRewritten

Spec == Init /\ [][Next]_vars

-----------------------------------------------------------------------------
(* Properties                                                              *)

\* The variables keep their types.
TypeOK ==
  /\ mode \in Modes
  /\ AUDIT_SEQ \in Nat /\ AUDIT_PREV \in Hashes
  /\ holder \in Threads \cup {Free}
  /\ pc \in [Threads -> Places]
  /\ mine \in [Threads -> Nat]
  /\ pending \in Lines
  /\ alarm \in Anomalies
  /\ exists \in BOOLEAN
  /\ log \in Seq(Lines)
  /\ mark \in Marks \cup {NoMark}
  /\ acked \in SUBSET Hashes /\ acks \in Nat /\ failed \in SUBSET Hashes
  /\ tears \in Nat /\ cut \in Seq(Lines) /\ foreign \in SUBSET Hashes
  /\ crashes \in Nat /\ failures \in Nat /\ interference \in Nat

\* Two neighbouring entries of the log fail to link only because an append
\* failed between them: AUDIT_PREV had already moved to the entry that was never
\* written.  Neither the order in which threads reach the mutex, nor a crash at
\* any point, nor resuming from a damaged file breaks a link.
BrokenLinkHasFailedAppend ==
  \A i \in DOMAIN log :
    LET prev == IF i = 1 THEN GENESIS ELSE log[i - 1].hash
    IN (Readable(log[i]) /\ (i > 1 => Readable(log[i - 1])) /\ log[i].prev # prev)
         => log[i].prev \in failed

\* The mark only ever names an entry whose append succeeded, under the number
\* that entry carries (README: "updated only after the entry is durably appended").
MarkNeverAhead ==
  mark # NoMark => /\ mark.hash \in acked
                   /\ mark.seq = Last(mark.hash).seq

\* Whenever no call is inside the mutex and no write has failed, the mark of a
\* serving process names the last line of the log: shortening the log then
\* always disagrees with the mark.
MarkIsLastWhenQuiet ==
  mode = "up" /\ holder = Free /\ failures = 0 /\ tears = 0 =>
    /\ mark # NoMark /\ log # <<>>
    /\ mark = [seq |-> Last(log).body.seq, hash |-> Last(log).hash]

\* An append that left part of a line behind spoils at most one later entry: the
\* one that lands on the same line although its own write succeeded.
TearCostsAtMostOneEntry ==
  Cardinality(acked \ (HashesOf(log) \cup foreign)) <= tears

\* Entries in file order carry increasing numbers.
InOrder(lines) ==
  \A i, j \in DOMAIN lines :
    i < j /\ Readable(lines[i]) /\ Readable(lines[j]) => lines[i].body.seq < lines[j].body.seq

\* Nor was any entry hashed onto one with a higher number (a hash is its history).
NeverOvertaken(lines) ==
  \A h \in HashesOf(lines) : \A i, j \in DOMAIN h : i < j => h[i].seq < h[j].seq

Starting == mode = "preflight" /\ mode' = "starting"

\* A start announces missing entries only if somebody removed some, or callers
\* overtook each other between taking a number and taking the mutex.  A crash
\* alone, wherever it falls, never raises that alarm.
NoFalseMissingAlarm ==
  [][Starting /\ alarm' \in {"missing", "rewritten"} => interference > 0 \/ ~NeverOvertaken(log)]_vars

\* Removing the entry the mark names, with any lines after it, is announced at
\* the next start, provided the entries had been written in order.
LossOfMarkedEntryNoticed ==
  [][(Starting /\ mark # NoMark /\ InOrder(log \o cut)
        /\ mark.hash \in HashesOf(cut) /\ mark.hash \notin HashesOf(log))
       => alarm' # "none"]_vars

\* A loss announced at start is not forgotten: as soon as one more entry is
\* written the offline verifier refuses the file, because numbering went on from
\* the mark.
NoticedLossLeavesScar ==
  [][alarm = "missing" /\ acks' > acks => verify_audit_file(log') # "ok"]_vars

\* The comment at the check in verify_audit_file: "A gap in the sequence =
\* someone cut an entry out of the MIDDLE and recomputed the rest."
GapMeansRemoval == verify_audit_file(log) = "gap" => interference > 0

-----------------------------------------------------------------------------
(* The trail a reader can follow from GENESIS, as AuditTrail sees it       *)

Linked(lines, i) ==
  lines[i].kind = "entry" /\ lines[i].prev = IF i = 1 THEN GENESIS ELSE lines[i - 1].hash

Followed(lines) ==
  {n \in 0 .. Len(lines) : \A i \in 1 .. n : Linked(lines, i)}

FollowedTo(lines) == CHOOSE n \in Followed(lines) : \A m \in Followed(lines) : m <= n

ReadableTrail ==
  IF FollowedTo(log) = 0 THEN GENESIS ELSE log[FollowedTo(log)].hash

Trail == INSTANCE AuditTrail WITH
  trail <- ReadableTrail,
  acks <- acks,
  faulted <- failures > 0 \/ tears > 0,
  interference <- interference

\* The log implements the trail: until an append fails or is cut short, every
\* acknowledged call makes the readable trail exactly one entry longer, and the
\* server never takes anything off it.
ImplementsTrail == Trail!Spec
=============================================================================
