----------------------------- MODULE AuditTrail -----------------------------
(***************************************************************************)
(* What the hash-chained audit file promises its reader, without saying    *)
(* how.  The trail is the part of the file a reader can follow link by     *)
(* link from GENESIS.  Until something goes wrong while a line is being    *)
(* appended, every acknowledged audit call makes the trail one entry       *)
(* longer and changes nothing that was there before, whatever the threads  *)
(* do and however often the process dies and starts again.  Afterwards     *)
(* the trail may stop growing, but it never loses an entry by the server's *)
(* own doing.                                                              *)
(***************************************************************************)
EXTENDS Naturals, Sequences

CONSTANT Bodies         \* what one audit entry can say

VARIABLES
  trail,                \* bodies of the entries a reader can follow
  acks,                 \* audit calls that ended with a successful append
  faulted,              \* some append failed or was cut short
  interference          \* changes made to the file by someone else

vars == <<trail, acks, faulted, interference>>

TypeOK ==
  /\ trail \in Seq(Bodies)
  /\ acks \in Nat
  /\ faulted \in BOOLEAN
  /\ interference \in Nat

Init ==
  /\ trail = <<>>
  /\ acks = 0
  /\ faulted = FALSE
  /\ interference = 0

\* longer is trail with one more body at its end
ExtendsByOne(longer) ==
  /\ longer \in Seq(Bodies)
  /\ Len(longer) = Len(trail) + 1
  /\ SubSeq(longer, 1, Len(trail)) = trail

\* An audit call is acknowledged and can be read back.
Record ==
  /\ ExtendsByOne(trail')
  /\ acks' = acks + 1
  /\ UNCHANGED <<faulted, interference>>

\* After a fault an acknowledged entry may be out of the reader's reach.
RecordOutOfReach ==
  /\ faulted
  /\ acks' = acks + 1
  /\ UNCHANGED <<trail, faulted, interference>>

\* An append fails or the process dies in the middle of one.
Fault ==
  /\ faulted' = TRUE
  /\ UNCHANGED <<trail, acks, interference>>

\* Somebody else changes the file.
Interfere ==
  /\ trail' \in Seq(Bodies)
  /\ interference' = interference + 1
  /\ UNCHANGED <<acks, faulted>>

Next == Record \/ RecordOutOfReach \/ Fault \/ Interfere

Spec == Init /\ [][Next]_vars
=============================================================================
