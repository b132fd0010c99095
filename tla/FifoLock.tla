------------------------------ MODULE FifoLock ------------------------------
(***************************************************************************)
(* What a sleeping lock promises: one owner at a time, and ownership       *)
(* passing to the waiters in the order in which they arrived.              *)
(***************************************************************************)
EXTENDS Sequences

CONSTANTS Thread,
          NoThread  \* not a thread

VARIABLES owner,    \* the thread that holds the lock, NoThread if none
          line      \* the threads waiting for it, in arrival order

fifoVars == <<owner, line>>

FifoInit == owner = NoThread /\ line = <<>>

\* A free lock is taken at once; otherwise the caller joins the line.
Arrive(t) ==
    /\ t # owner
    /\ \A i \in DOMAIN line : line[i] # t
    /\ IF owner = NoThread THEN owner' = t /\ line' = line
       ELSE owner' = owner /\ line' = Append(line, t)

\* The owner hands the lock to the head of the line, or frees it.
Depart(t) ==
    /\ owner = t
    /\ IF line = <<>> THEN owner' = NoThread /\ line' = line
       ELSE owner' = Head(line) /\ line' = Tail(line)

FifoNext == \E t \in Thread : Arrive(t) \/ Depart(t)

FifoSpec == FifoInit /\ [][FifoNext]_fifoVars

=============================================================================
