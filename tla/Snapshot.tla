------------------------------ MODULE Snapshot ------------------------------
(***************************************************************************)
(* Copy-on-publish snapshots with per-CPU reader slots: ReadMostlySnapshot *)
(* (sync/read_mostly.rs) and its older copies on the process control block *)
(* (task/process.rs: filesystem context, fd table, credentials).  A reader *)
(* claims its slot, checks the sequence again and borrows the value; the   *)
(* publisher makes the sequence odd, waits for every slot to be idle,      *)
(* swaps the value and frees the old one.                                  *)
(*                                                                         *)
(* The copies differ in how the slot is claimed.  fetch_add(AcqRel) is an  *)
(* atomic read-modify-write in memory.  store(Release) may stay behind the *)
(* loads that follow it: it goes through a store buffer, which both        *)
(* architectures allow for a store before a load of another address.       *)
(***************************************************************************)
EXTENDS Naturals, Sequences, TLAPS

CONSTANTS Reader,          \* CPUs that read
          PlainStore,      \* readers that claim their slot with a store
          MaxPublish,      \* bound on the number of publications
          MaxBuffer        \* bound on the stores a store buffer holds

VARIABLES
    sequence,  \* odd while a publication is under way
    current,   \* the value published, as the number of its publication
    freed,     \* values that were reclaimed
    active,    \* the reader slots in memory
    buffer,    \* a reader's stores to its slot that memory does not have yet
    rstep,     \* where a reader is in read()
    seenSeq,   \* the sequence it loaded
    borrowed,  \* the value it uses
    since,     \* ghost: the last value whose publication was over when it began
    wstep,     \* where the publisher is
    waiting    \* the slots the publisher has not seen idle yet

snapVars == <<sequence, current, freed, active, buffer, rstep, seenSeq, borrowed,
              since, wstep, waiting>>

SnapInit ==
    /\ sequence = 0 /\ current = 0 /\ freed = {}
    /\ active = [r \in Reader |-> 0]
    /\ buffer = [r \in Reader |-> <<>>]
    /\ rstep = [r \in Reader |-> "idle"]
    /\ seenSeq = [r \in Reader |-> 0]
    /\ borrowed = [r \in Reader |-> 0]
    /\ since = [r \in Reader |-> 0]
    /\ wstep = "idle" /\ waiting = {}

Step(r, s) == rstep' = [rstep EXCEPT ![r] = s]

\* A store to the slot: buffered, or an atomic operation which drains the buffer.
SetActive(r, v) ==
    IF r \in PlainStore
    THEN /\ Len(buffer[r]) < MaxBuffer
         /\ buffer' = [buffer EXCEPT ![r] = Append(@, v)] /\ UNCHANGED active
    ELSE active' = [active EXCEPT ![r] = v] /\ UNCHANGED buffer

Drain(r) ==
    /\ buffer[r] # <<>>
    /\ active' = [active EXCEPT ![r] = Head(buffer[r])]
    /\ buffer' = [buffer EXCEPT ![r] = Tail(@)]
    /\ UNCHANGED <<sequence, current, freed, rstep, seenSeq, borrowed, since, wstep, waiting>>

-----------------------------------------------------------------------------
(* read().                                                                 *)

\* An odd sequence spins; at an even one the reader goes on with it.
LoadSequence(r) ==
    /\ rstep[r] = "idle" /\ sequence % 2 = 0
    /\ seenSeq' = [seenSeq EXCEPT ![r] = sequence]
    /\ since' = [since EXCEPT ![r] = sequence \div 2]
    /\ Step(r, "enter")
    /\ UNCHANGED <<sequence, current, freed, active, buffer, borrowed, wstep, waiting>>

EnterSlot(r) ==
    /\ rstep[r] = "enter"
    /\ SetActive(r, 1)
    /\ Step(r, "check")
    /\ UNCHANGED <<sequence, current, freed, seenSeq, borrowed, since, wstep, waiting>>

\* The second load of the sequence; another one than the first gives up the slot.
Check(r) ==
    /\ rstep[r] = "check"
    /\ IF sequence = seenSeq[r] THEN Step(r, "load") /\ UNCHANGED <<active, buffer>>
                                ELSE Step(r, "idle") /\ SetActive(r, 0)
    /\ UNCHANGED <<sequence, current, freed, seenSeq, borrowed, since, wstep, waiting>>

LoadCurrent(r) ==
    /\ rstep[r] = "load"
    /\ borrowed' = [borrowed EXCEPT ![r] = current]
    /\ Step(r, "use")
    /\ UNCHANGED <<sequence, current, freed, active, buffer, seenSeq, since, wstep, waiting>>

Leave(r) ==
    /\ rstep[r] = "use"
    /\ SetActive(r, 0)
    /\ Step(r, "idle")
    /\ UNCHANGED <<sequence, current, freed, seenSeq, borrowed, since, wstep, waiting>>

-----------------------------------------------------------------------------
(* publish(); publishers are serialized by their callers.                  *)

Close ==
    /\ wstep = "idle" /\ sequence < 2 * MaxPublish
    /\ sequence' = sequence + 1
    /\ waiting' = Reader
    /\ wstep' = "wait"
    /\ UNCHANGED <<current, freed, active, buffer, rstep, seenSeq, borrowed, since>>

SeeIdle(r) ==
    /\ wstep = "wait" /\ r \in waiting /\ active[r] = 0
    /\ waiting' = waiting \ {r}
    /\ UNCHANGED <<sequence, current, freed, active, buffer, rstep, seenSeq, borrowed,
                   since, wstep>>

\* Swap the pointer and drop the box it held.
Swap ==
    /\ wstep = "wait" /\ waiting = {}
    /\ current' = current + 1
    /\ freed' = freed \cup {current}
    /\ wstep' = "swapped"
    /\ UNCHANGED <<sequence, active, buffer, rstep, seenSeq, borrowed, since, waiting>>

\* Mutant: readers are let in again before the pointer is swapped.
MutReopen ==
    /\ wstep = "wait" /\ waiting = {}
    /\ sequence' = sequence + 1
    /\ wstep' = "idle"
    /\ UNCHANGED <<current, freed, active, buffer, rstep, seenSeq, borrowed, since, waiting>>

Reopen ==
    /\ wstep = "swapped"
    /\ sequence' = sequence + 1
    /\ wstep' = "idle"
    /\ UNCHANGED <<current, freed, active, buffer, rstep, seenSeq, borrowed, since, waiting>>

ReaderStep(r) == LoadSequence(r) \/ EnterSlot(r) \/ Check(r) \/ LoadCurrent(r) \/ Leave(r)
PublishStep == Swap \/ Reopen \/ \E r \in Reader : SeeIdle(r)
SnapNext == Close \/ PublishStep \/ \E r \in Reader : ReaderStep(r) \/ Drain(r)

SnapSpec == SnapInit /\ [][SnapNext]_snapVars
SnapFairness == /\ \A r \in Reader : WF_snapVars(ReaderStep(r)) /\ WF_snapVars(Drain(r))
                /\ WF_snapVars(Swap \/ Reopen)
                /\ \A r \in Reader : WF_snapVars(SeeIdle(r))

-----------------------------------------------------------------------------
\* "publication closes the read phase, waits for prior readers, swaps ownership,
\* and reclaims the old value before reopening it" (read_mostly.rs): no reader that
\* claims its slot with an atomic read-modify-write uses a value that was freed.  With
\* a reader that claims it with a store, as those of process.rs and mount.rs do, this
\* does not hold: the publisher can pass the slot while the store is in the buffer.
NoUseAfterFree == \A r \in Reader : rstep[r] = "use" => borrowed[r] \notin freed

\* A read that begins after a publication is over sees that publication or a
\* later one.
ReadsAreFresh == \A r \in Reader : rstep[r] = "use" => borrowed[r] >= since[r]

\* A publication ends although readers keep coming: an odd sequence turns them
\* away.
PublicationEnds == wstep = "wait" ~> wstep = "idle"

-----------------------------------------------------------------------------
(***************************************************************************)
(* Proofs, for any set of readers and any number of publications           *)
(***************************************************************************)
Places == {"idle", "enter", "check", "load", "use"}

\* The sequence tells how many publications are over and whether one is under way.
SequenceExact ==
    /\ wstep = "idle" => sequence = 2 * current
    /\ wstep = "wait" => sequence = 2 * current + 1
    /\ wstep = "swapped" => sequence = 2 * current - 1

PublisherTypes ==
    /\ sequence \in Nat /\ current \in Nat
    /\ wstep \in {"idle", "wait", "swapped"}
    /\ rstep \in [Reader -> Places]
    /\ borrowed \in [Reader -> Nat] /\ since \in [Reader -> Nat]

\* What a reader holds is no older than what it saw published when it began.
FreshInv ==
    /\ PublisherTypes /\ SequenceExact
    /\ \A r \in Reader : /\ since[r] <= current
                         /\ rstep[r] = "use" => borrowed[r] >= since[r]

\* The freshness invariant holds initially.
LEMMA InitFresh == SnapInit => FreshInv
  BY DEF SnapInit, FreshInv, PublisherTypes, SequenceExact, Places

\* Every step preserves it.
LEMMA StepFresh == FreshInv /\ [SnapNext]_snapVars => FreshInv'
  <1>. SUFFICES ASSUME FreshInv, [SnapNext]_snapVars PROVE FreshInv'
    OBVIOUS
  <1>. USE DEF FreshInv, PublisherTypes, SequenceExact, Places, Step
  <1>1. ASSUME NEW r \in Reader, LoadSequence(r) PROVE FreshInv'
    <2>1. sequence = 2 * current /\ sequence \div 2 = current
      BY <1>1 DEF LoadSequence
    <2>. QED
      BY <1>1, <2>1 DEF LoadSequence
  <1>2. ASSUME NEW r \in Reader, EnterSlot(r) PROVE FreshInv'
    BY <1>2 DEF EnterSlot
  <1>3. ASSUME NEW r \in Reader, Check(r) PROVE FreshInv'
    BY <1>3 DEF Check
  <1>4. ASSUME NEW r \in Reader, LoadCurrent(r) PROVE FreshInv'
    BY <1>4 DEF LoadCurrent
  <1>5. ASSUME NEW r \in Reader, Leave(r) PROVE FreshInv'
    BY <1>5 DEF Leave
  <1>6. ASSUME NEW r \in Reader, Drain(r) PROVE FreshInv'
    BY <1>6 DEF Drain
  <1>7. CASE Close
    BY <1>7 DEF Close
  <1>8. ASSUME NEW r \in Reader, SeeIdle(r) PROVE FreshInv'
    BY <1>8 DEF SeeIdle
  <1>9. CASE Swap
    BY <1>9 DEF Swap
  <1>10. CASE Reopen
    BY <1>10 DEF Reopen
  <1>11. CASE UNCHANGED snapVars
    BY <1>11 DEF snapVars
  <1>. QED
    BY <1>1, <1>2, <1>3, <1>4, <1>5, <1>6, <1>7, <1>8, <1>9, <1>10, <1>11
       DEF SnapNext, ReaderStep, PublishStep

\* A read that begins after a publication is over sees it or a later one, however
\* the readers claim their slots: read() and publish() of ReadMostlySnapshot and
\* of its copies in process.rs.
THEOREM Freshness == SnapSpec => []ReadsAreFresh
  <1>1. FreshInv => ReadsAreFresh
    BY DEF FreshInv, ReadsAreFresh
  <1>. QED
    BY <1>1, InitFresh, StepFresh, PTL DEF SnapSpec

-----------------------------------------------------------------------------
(***************************************************************************)
(* A reader between its second look at the sequence and the end of its use *)
(* keeps the publisher from swapping: its slot is claimed, and a publisher *)
(* that closed since then has it still to see idle.  Only freed values are *)
(* older than the current one, which is the one such a reader uses.        *)
(***************************************************************************)
Inside(r) == rstep[r] \in {"load", "use"}

SlotsExact == \A r \in Reader : active[r] # 0 <=> rstep[r] \in {"check", "load", "use"}
SeenEven == \A r \in Reader : rstep[r] # "idle" => \E n \in Nat : seenSeq[r] = 2 * n
FreedOlder == \A v \in freed : v < current
InsideHolds ==
    \A r \in Reader : Inside(r) =>
        /\ wstep # "swapped"
        /\ wstep = "wait" => r \in waiting
        /\ rstep[r] = "use" => borrowed[r] = current

SlotInv ==
    /\ buffer = [r \in Reader |-> <<>>]
    /\ active \in [Reader -> Nat] /\ seenSeq \in [Reader -> Nat]
    /\ freed \subseteq Nat /\ waiting \subseteq Reader
    /\ SlotsExact /\ SeenEven /\ FreedOlder /\ InsideHolds

\* The slot invariant holds initially.
LEMMA InitSlot == SnapInit => SlotInv
  BY DEF SnapInit, SlotInv, SlotsExact, SeenEven, FreedOlder, InsideHolds, Inside

\* Every step preserves it when all readers claim their slot atomically.
LEMMA StepSlot ==
  ASSUME PlainStore = {}
  PROVE  FreshInv /\ SlotInv /\ [SnapNext]_snapVars => SlotInv'
  <1>. SUFFICES ASSUME FreshInv, SlotInv, [SnapNext]_snapVars PROVE SlotInv'
    OBVIOUS
  <1>. USE DEF FreshInv, PublisherTypes, SequenceExact, Places, Step, SetActive,
               SlotInv, SlotsExact, FreedOlder, InsideHolds, Inside
  <1>1. ASSUME NEW r \in Reader, LoadSequence(r) PROVE SlotInv'
    <2>1. sequence = 2 * current
      BY <1>1 DEF LoadSequence
    <2>2. SeenEven'
      BY <1>1, <2>1 DEF LoadSequence, SeenEven
    <2>. QED
      BY <1>1, <2>2 DEF LoadSequence
  <1>2. ASSUME NEW r \in Reader, EnterSlot(r) PROVE SlotInv'
    <2>1. SeenEven'
      BY <1>2 DEF EnterSlot, SeenEven
    <2>. QED
      BY <1>2, <2>1 DEF EnterSlot
  <1>3. ASSUME NEW r \in Reader, Check(r) PROVE SlotInv'
    <2>1. SeenEven'
      BY ZenonT(40), <1>3 DEF Check, SeenEven
    <2>2. CASE sequence = seenSeq[r]
      <3>1. PICK n \in Nat : seenSeq[r] = 2 * n
        BY Zenon, <1>3 DEF Check, SeenEven
      <3>2. wstep = "idle"
        BY <2>2, <3>1
      <3>. QED
        BY Zenon, <1>3, <2>1, <2>2, <3>2 DEF Check
    <2>3. CASE sequence # seenSeq[r]
      <3>1. /\ rstep' = [rstep EXCEPT ![r] = "idle"] /\ active' = [active EXCEPT ![r] = 0]
            /\ UNCHANGED <<current, freed, buffer, seenSeq, borrowed, wstep, waiting>>
        BY Zenon, <1>3, <2>3 DEF Check
      <3>. QED
        BY <2>1, <3>1
    <2>. QED
      BY <2>2, <2>3
  <1>4. ASSUME NEW r \in Reader, LoadCurrent(r) PROVE SlotInv'
    <2>1. SeenEven'
      BY <1>4 DEF LoadCurrent, SeenEven
    <2>. QED
      BY <1>4, <2>1 DEF LoadCurrent
  <1>5. ASSUME NEW r \in Reader, Leave(r) PROVE SlotInv'
    <2>1. SeenEven'
      BY <1>5 DEF Leave, SeenEven
    <2>. QED
      BY <1>5, <2>1 DEF Leave
  <1>6. ASSUME NEW r \in Reader, Drain(r) PROVE SlotInv'
    <2>1. SeenEven'
      BY <1>6 DEF Drain, SeenEven
    <2>. QED
      BY <1>6, <2>1 DEF Drain
  <1>7. CASE Close
    <2>1. SeenEven'
      BY <1>7 DEF Close, SeenEven
    <2>. QED
      BY <1>7, <2>1 DEF Close
  <1>8. ASSUME NEW r \in Reader, SeeIdle(r) PROVE SlotInv'
    <2>1. SeenEven'
      BY <1>8 DEF SeeIdle, SeenEven
    <2>. QED
      BY <1>8, <2>1 DEF SeeIdle
  <1>9. CASE Swap
    <2>1. SeenEven'
      BY <1>9 DEF Swap, SeenEven
    <2>. QED
      BY <1>9, <2>1 DEF Swap
  <1>10. CASE Reopen
    <2>1. SeenEven'
      BY <1>10 DEF Reopen, SeenEven
    <2>. QED
      BY <1>10, <2>1 DEF Reopen
  <1>11. CASE UNCHANGED snapVars
    <2>1. SeenEven'
      BY <1>11 DEF snapVars, SeenEven
    <2>. QED
      BY <1>11, <2>1 DEF snapVars
  <1>. QED
    BY SMTT(30), <1>1, <1>2, <1>3, <1>4, <1>5, <1>6, <1>7, <1>8, <1>9, <1>10, <1>11
       DEF SnapNext, ReaderStep, PublishStep

\* When every reader claims its slot with an atomic operation, as
\* ReaderSlot::enter does, publish() frees no value a reader uses.
THEOREM Reclamation ==
  ASSUME PlainStore = {}
  PROVE  SnapSpec => []NoUseAfterFree
  <1>1. FreshInv /\ SlotInv => NoUseAfterFree
    BY DEF FreshInv, PublisherTypes, SlotInv, FreedOlder, InsideHolds, Inside, NoUseAfterFree
  <1>. QED
    BY <1>1, InitFresh, StepFresh, InitSlot, StepSlot, PTL DEF SnapSpec
=============================================================================
