-------------------------- MODULE RemoteSyncProofs --------------------------
(***************************************************************************)
(* Proofs about RemoteSync, for any finite set of CPUs, any set of locks,  *)
(* any number of requests, with or without failing IPIs.                   *)
(***************************************************************************)
EXTENDS RemoteSync, WellFoundedInduction, TLAPS

Busy(c) == pc[c] \in {"insert", "publish", "send", "wait"}

\* The targets whose completion bit the submitter's loop has not armed yet.
Unarmed(c) == todo[c] \cup (IF pc[c] = "insert" THEN {target[c]} ELSE {})

\* What a request slot holds at each point of its owner's program.
SlotInv(c) ==
    /\ active[c] <=> Busy(c)
    /\ active[c] => action[c] # None
    /\ pc[c] \in {"idle", "spin"} => remaining[c] = {} /\ todo[c] = {}
    /\ pc[c] = "panic" => remaining[c] = {}
    /\ pc[c] \in {"insert", "publish", "send"} =>
          target[c] \in goal[c] /\ target[c] \notin todo[c]
    /\ pc[c] = "insert" => target[c] \notin remaining[c]
    /\ pc[c] = "publish" => target[c] \in remaining[c]
    /\ c \notin goal[c]
    /\ todo[c] \subseteq goal[c]
    /\ remaining[c] \subseteq goal[c] /\ remaining[c] \cap todo[c] = {}
    /\ failed[c] => pc[c] \in {"wait", "panic"}
    /\ pc[c] = "wait" /\ ~failed[c] => todo[c] = {}

\* What a source c and a target t know of each other.
PairInv(c, t) ==
    /\ c \in pendingSources[t] \cup taken[t] => t \in remaining[c]
    /\ ~ (c \in pendingSources[t] /\ c \in taken[t])
    /\ pc[c] = "publish" /\ t = target[c] =>
          c \notin pendingSources[t] /\ c \notin taken[t]
    /\ observed[t][c] <= sequence[c]
    /\ t \in remaining[c] \cup Unarmed(c) => observed[t][c] < sequence[c]
    /\ Busy(c) /\ ~failed[c] /\ t \in goal[c] /\ t \notin remaining[c] \cup Unarmed(c)
          => observed[t][c] = sequence[c]

IInv ==
    /\ TypeOK
    /\ \A c \in CPU : SlotInv(c)
    /\ \A c, t \in CPU : PairInv(c, t)

-----------------------------------------------------------------------------
\* The ascending loop of submit_remote_sync always finds its next target.
LEMMA LeastTarget ==
    ASSUME NEW rest \in SUBSET CPU, rest # {}
    PROVE  (CHOOSE t \in rest : \A u \in rest : t <= u) \in rest
<1> DEFINE Less == {ss \in Nat \X Nat : ss[1] < ss[2]}
<1>1. IsWellFoundedOn(Less, Nat)
  BY NatLessThanWellFounded DEF OpToRel
<1>2. \E x \in rest : \A y \in rest : ~ (<<y, x>> \in Less)
  <2> HIDE DEF Less
  <2> QED BY Zenon, <1>1, WFMin, CpuAssumption
<1>3. \E x \in rest : \A y \in rest : x <= y
  <2>1. PICK x \in rest : \A y \in rest : ~ (<<y, x>> \in Less)
    BY <1>2
  <2>2. ASSUME NEW y \in rest PROVE x <= y
    <3>1. x \in Nat /\ y \in Nat
      BY CpuAssumption
    <3>2. ~ (<<y, x>> \in Less)
      BY <2>1
    <3>3. ~ (y < x)
      BY <3>1, <3>2
    <3> QED BY <3>1, <3>3
  <2> QED BY <2>2
<1> QED BY <1>3

\* What the end of one loop iteration may do, without the choice of a target.
LEMMA NextTargetCases ==
    ASSUME NEW c \in CPU, NEW rest \in SUBSET CPU, NextTarget(c, rest), TypeOK
    PROVE  \/ /\ rest = {}
              /\ pc' = [pc EXCEPT ![c] = "wait"]
              /\ todo' = todo /\ target' = target
           \/ \E t \in rest : /\ pc' = [pc EXCEPT ![c] = "insert"]
                              /\ todo' = [todo EXCEPT ![c] = rest \ {t}]
                              /\ target' = [target EXCEPT ![c] = t]
BY Zenon, LeastTarget DEF NextTarget

-----------------------------------------------------------------------------
\* No request is active and no source is pending when the CPUs come up.
LEMMA InitIInv == Init => IInv
BY DEF Init, IInv, TypeOK, Place, SlotInv, PairInv, Busy, Unarmed, None, NoLock

\* submit_remote_sync claims the CPU's own slot: filling in a free slot disturbs no
\* other, and the new sequence number is one no target has seen.
LEMMA BeginIInv ==
    ASSUME IInv, NEW c \in CPU, NEW targets \in SUBSET CPU, NEW a \in Action,
           pc[c] \in {"idle", "spin"}, Begin(c, targets, a),
           wanted' \in [CPU -> IrqLock \cup {NoLock}], owner' \in [IrqLock -> SUBSET CPU]
    PROVE  IInv'
<1>1. PICK t \in targets : /\ pc' = [pc EXCEPT ![c] = "insert"]
                            /\ todo' = [todo EXCEPT ![c] = targets \ {t}]
                            /\ target' = [target EXCEPT ![c] = t]
  BY NextTargetCases DEF Begin, IInv
<1>2. TypeOK'
  <2>1. pc' \in [CPU -> Place] /\ todo' \in [CPU -> SUBSET CPU] /\ target' \in [CPU -> CPU]
    BY <1>1 DEF IInv, TypeOK, Place
  <2>2. /\ goal' \in [CPU -> SUBSET CPU] /\ active' \in [CPU -> BOOLEAN]
        /\ sequence' \in [CPU -> Nat] /\ action' \in [CPU -> Action \cup {None}]
    <3>1. /\ goal' = [goal EXCEPT ![c] = targets]
          /\ active' = [active EXCEPT ![c] = TRUE]
          /\ sequence' = [sequence EXCEPT ![c] = @ + 1]
          /\ action' = [action EXCEPT ![c] = a]
      BY DEF Begin
    <3> QED BY <3>1 DEF IInv, TypeOK
  <2>3. UNCHANGED <<failed, remaining, pendingSources, observed, ipi, handler>>
    BY DEF Begin
  <2> QED BY <2>1, <2>2, <2>3 DEF IInv, TypeOK, handler
<1>3. ASSUME NEW d \in CPU PROVE SlotInv(d)'
  BY <1>1, ActionAssumption DEF Begin, IInv, TypeOK, Place, SlotInv, Busy, handler
<1>4. ASSUME NEW d \in CPU, NEW u \in CPU PROVE PairInv(d, u)'
  BY <1>1 DEF Begin, IInv, TypeOK, Place, SlotInv, PairInv, Busy, Unarmed, handler
<1> QED BY <1>2, <1>3, <1>4 DEF IInv

\* Every step of a submitter (arm, publish, send, wait), of a handler (take, observe,
\* run, answer) and of a spinning CPU keeps the slots and the pairs as IInv says.
LEMMA StepIInv == IInv /\ [Next]_vars => IInv'
<1> SUFFICES ASSUME IInv, [Next]_vars PROVE IInv'
  OBVIOUS
<1> USE DEF submitter, request, handler
<1>1. ASSUME NEW c \in CPU, Submit(c) PROVE IInv'
  BY Zenon, <1>1, BeginIInv DEF Submit, IInv, TypeOK, Place
<1>2. ASSUME NEW c \in CPU, WantLock(c) PROVE IInv'
  <2>1. TypeOK'
    BY <1>2 DEF WantLock, IInv, TypeOK, Place
  <2>2. ASSUME NEW d \in CPU PROVE SlotInv(d)'
    BY <1>2 DEF WantLock, IInv, TypeOK, Place, SlotInv, Busy
  <2>3. ASSUME NEW d \in CPU, NEW u \in CPU PROVE PairInv(d, u)'
    BY <1>2 DEF WantLock, IInv, TypeOK, Place, SlotInv, PairInv, Busy, Unarmed
  <2> QED BY <2>1, <2>2, <2>3 DEF IInv
<1>3. ASSUME NEW c \in CPU, Spin(c) PROVE IInv'
  <2>1. CASE owner[wanted[c]] = {}
    <3>1. /\ pc[c] = "spin" /\ wanted' = wanted
          /\ owner' = [owner EXCEPT ![wanted[c]] = {c}]
      BY <1>3, <2>1 DEF Spin
    <3>2. PICK targets \in SUBSET CPU, a \in Action : Begin(c, targets, a)
      BY <1>3, <2>1 DEF Spin
    <3>3. wanted' \in [CPU -> IrqLock \cup {NoLock}] /\ owner' \in [IrqLock -> SUBSET CPU]
      BY ZenonT(40), <3>1 DEF IInv, TypeOK, Place
    <3> QED BY <3>1, <3>2, <3>3, BeginIInv
  <2>2. CASE owner[wanted[c]] # {}
    <3>1. /\ handling' = [handling EXCEPT ![c] = TRUE]
          /\ UNCHANGED <<submitter, request, pendingSources, observed, ipi, taken>>
      BY <1>3, <2>2 DEF Spin
    <3> QED BY <3>1 DEF IInv, TypeOK, Place, SlotInv, PairInv, Busy, Unarmed
  <2> QED BY <2>1, <2>2
<1>4. ASSUME NEW c \in CPU, InsertRemaining(c) PROVE IInv'
  <2>1. TypeOK'
    BY <1>4 DEF InsertRemaining, IInv, TypeOK, Place
  <2>2. ASSUME NEW d \in CPU PROVE SlotInv(d)'
    BY <1>4 DEF InsertRemaining, IInv, TypeOK, Place, SlotInv, Busy
  <2>3. ASSUME NEW d \in CPU, NEW u \in CPU PROVE PairInv(d, u)'
    BY <1>4 DEF InsertRemaining, IInv, TypeOK, Place, SlotInv, PairInv, Busy, Unarmed
  <2> QED BY <2>1, <2>2, <2>3 DEF IInv
<1>5. ASSUME NEW c \in CPU, PublishSource(c) PROVE IInv'
  <2>0. \/ pc' = [pc EXCEPT ![c] = "send"] /\ todo' = todo /\ target' = target
        \/ todo[c] = {} /\ pc' = [pc EXCEPT ![c] = "wait"] /\ todo' = todo /\ target' = target
        \/ \E t \in todo[c] : /\ pc' = [pc EXCEPT ![c] = "insert"]
                              /\ todo' = [todo EXCEPT ![c] = todo[c] \ {t}]
                              /\ target' = [target EXCEPT ![c] = t]
    <3>1. todo[c] \in SUBSET CPU
      BY DEF IInv, TypeOK, Place
    <3> QED BY <1>5, <3>1, NextTargetCases DEF PublishSource, IInv
  <2>1. TypeOK'
    <3>1. /\ pc' \in [CPU -> Place]
          /\ todo' \in [CPU -> SUBSET CPU] /\ target' \in [CPU -> CPU]
      <4>1. ASSUME NEW t \in todo[c]
            PROVE  todo[c] \ {t} \in SUBSET CPU /\ t \in CPU
        BY DEF IInv, TypeOK, Place
      <4>2. {"insert", "send", "wait"} \subseteq Place
        BY DEF Place
      <4>3. pc \in [CPU -> Place] /\ todo \in [CPU -> SUBSET CPU] /\ target \in [CPU -> CPU]
        BY DEF IInv, TypeOK
      <4>4. CASE \E t \in todo[c] : /\ pc' = [pc EXCEPT ![c] = "insert"]
                                    /\ todo' = [todo EXCEPT ![c] = todo[c] \ {t}]
                                    /\ target' = [target EXCEPT ![c] = t]
        BY <4>1, <4>2, <4>3, <4>4
      <4>5. CASE todo' = todo /\ target' = target /\ pc' = [pc EXCEPT ![c] = "wait"]
        BY <4>2, <4>3, <4>5
      <4>6. CASE todo' = todo /\ target' = target /\ pc' = [pc EXCEPT ![c] = "send"]
        BY <4>2, <4>3, <4>6
      <4> QED BY <2>0, <4>4, <4>5, <4>6
    <3> QED BY ZenonT(40), <1>5, <3>1 DEF PublishSource, IInv, TypeOK, Place
  <2>2. ASSUME NEW d \in CPU PROVE SlotInv(d)'
    <3>1. SlotInv(d) /\ d \in CPU /\ TypeOK
      BY DEF IInv
    <3>2. UNCHANGED <<goal, failed, request>> /\ pc[c] = "publish"
      BY <1>5 DEF PublishSource
    <3> QED BY <2>0, <3>1, <3>2 DEF TypeOK, Place, SlotInv, Busy
  <2>3. ASSUME NEW d \in CPU, NEW u \in CPU PROVE PairInv(d, u)'
    BY <1>5, <2>0 DEF PublishSource, IInv, TypeOK, Place, SlotInv, PairInv, Busy, Unarmed
  <2> QED BY <2>1, <2>2, <2>3 DEF IInv
<1>6. ASSUME NEW c \in CPU, SendIpi(c) PROVE IInv'
  <2>0. \/ todo[c] = {} /\ pc' = [pc EXCEPT ![c] = "wait"] /\ todo' = todo /\ target' = target
        \/ \E t \in todo[c] : /\ pc' = [pc EXCEPT ![c] = "insert"]
                              /\ todo' = [todo EXCEPT ![c] = todo[c] \ {t}]
                              /\ target' = [target EXCEPT ![c] = t]
    <3>1. todo[c] \in SUBSET CPU
      BY DEF IInv, TypeOK, Place
    <3> QED BY <1>6, <3>1, NextTargetCases DEF SendIpi, IInv
  <2>1. TypeOK'
    <3>1. /\ pc' \in [CPU -> Place]
          /\ todo' \in [CPU -> SUBSET CPU] /\ target' \in [CPU -> CPU]
      <4>1. ASSUME NEW t \in todo[c]
            PROVE  todo[c] \ {t} \in SUBSET CPU /\ t \in CPU
        BY DEF IInv, TypeOK, Place
      <4>2. {"insert", "send", "wait"} \subseteq Place
        BY DEF Place
      <4>3. pc \in [CPU -> Place] /\ todo \in [CPU -> SUBSET CPU] /\ target \in [CPU -> CPU]
        BY DEF IInv, TypeOK
      <4>4. CASE \E t \in todo[c] : /\ pc' = [pc EXCEPT ![c] = "insert"]
                                    /\ todo' = [todo EXCEPT ![c] = todo[c] \ {t}]
                                    /\ target' = [target EXCEPT ![c] = t]
        BY <4>1, <4>2, <4>3, <4>4
      <4>5. CASE todo' = todo /\ target' = target /\ pc' = [pc EXCEPT ![c] = "wait"]
        BY <4>2, <4>3, <4>5
      <4>6. CASE todo' = todo /\ target' = target /\ pc' = [pc EXCEPT ![c] = "send"]
        BY <4>2, <4>3, <4>6
      <4> QED BY <2>0, <4>4, <4>5, <4>6
    <3> QED BY Zenon, <1>6, <3>1 DEF SendIpi, IInv, TypeOK, Place
  <2>2. ASSUME NEW d \in CPU PROVE SlotInv(d)'
    BY <1>6, <2>0 DEF SendIpi, IInv, TypeOK, Place, SlotInv, Busy
  <2>3. ASSUME NEW d \in CPU, NEW u \in CPU PROVE PairInv(d, u)'
    BY <1>6, <2>0 DEF SendIpi, IInv, TypeOK, Place, SlotInv, PairInv, Busy, Unarmed
  <2> QED BY <2>1, <2>2, <2>3 DEF IInv
<1>7. ASSUME NEW c \in CPU, SendIpiFails(c) PROVE IInv'
  <2>1. TypeOK'
    <3>1. remaining' \in [CPU -> SUBSET CPU]
      <4>1. remaining[c] \ {target[c]} \in SUBSET CPU
        BY DEF IInv, TypeOK, Place
      <4> QED BY ZenonT(40), <1>7, <4>1 DEF SendIpiFails, IInv, TypeOK, Place
    <3> QED BY Zenon, <1>7, <3>1 DEF SendIpiFails, IInv, TypeOK, Place
  <2>2. ASSUME NEW d \in CPU PROVE SlotInv(d)'
    BY <1>7 DEF SendIpiFails, IInv, TypeOK, Place, SlotInv, Busy
  <2>3. ASSUME NEW d \in CPU, NEW u \in CPU PROVE PairInv(d, u)'
    BY <1>7 DEF SendIpiFails, IInv, TypeOK, Place, SlotInv, PairInv, Busy, Unarmed
  <2> QED BY <2>1, <2>2, <2>3 DEF IInv
<1>8. ASSUME NEW c \in CPU, WaitCompletion(c) PROVE IInv'
  <2>1. TypeOK'
    <3>1. CASE remaining[c] = {}
      <4>1. owner' \in [IrqLock -> SUBSET CPU]
        BY <1>8, <3>1 DEF WaitCompletion, IInv, TypeOK, Place
      <4>2. pc' \in [CPU -> Place]
        <5>1. (IF failed[c] THEN "panic" ELSE "idle") \in Place
          BY DEF Place
        <5>2. pc' = [pc EXCEPT ![c] = IF failed[c] THEN "panic" ELSE "idle"]
          BY <1>8, <3>1 DEF WaitCompletion
        <5> QED BY <5>1, <5>2 DEF IInv, TypeOK
      <4>3. wanted' \in [CPU -> IrqLock \cup {NoLock}]
        BY ZenonT(40), <1>8, <3>1 DEF WaitCompletion, IInv, TypeOK
      <4>4. goal' \in [CPU -> SUBSET CPU] /\ todo' \in [CPU -> SUBSET CPU]
        BY ZenonT(40), <1>8, <3>1 DEF WaitCompletion, IInv, TypeOK
      <4>5. target' \in [CPU -> CPU] /\ active' \in [CPU -> BOOLEAN]
        <5>1. /\ target' = [target EXCEPT ![c] = c]
              /\ active' = [active EXCEPT ![c] = FALSE]
          BY <1>8, <3>1 DEF WaitCompletion
        <5> QED BY <5>1 DEF IInv, TypeOK
      <4>6. action' \in [CPU -> Action \cup {None}]
        BY ZenonT(40), <1>8, <3>1 DEF WaitCompletion, IInv, TypeOK
      <4>7. UNCHANGED <<failed, sequence, remaining, pendingSources, observed, ipi,
                        taken, handling>>
        BY <1>8, <3>1 DEF WaitCompletion
      <4> QED BY <4>1, <4>2, <4>3, <4>4, <4>5, <4>6, <4>7 DEF IInv, TypeOK
    <3>2. CASE remaining[c] # {}
      BY ZenonT(40), <1>8, <3>2 DEF WaitCompletion, IInv, TypeOK, Place
    <3> QED BY <3>1, <3>2
  <2>2. ASSUME NEW d \in CPU PROVE SlotInv(d)'
    BY SMTT(30), <1>8 DEF WaitCompletion, IInv, TypeOK, Place, SlotInv, Busy
  <2>3. ASSUME NEW d \in CPU, NEW u \in CPU PROVE PairInv(d, u)'
    BY <1>8 DEF WaitCompletion, IInv, TypeOK, Place, SlotInv, PairInv, Busy, Unarmed
  <2> QED BY <2>1, <2>2, <2>3 DEF IInv
<1>9. ASSUME NEW c \in CPU, Interrupt(c) PROVE IInv'
  BY <1>9 DEF Interrupt, IInv, TypeOK, Place, SlotInv, PairInv, Busy, Unarmed
<1>10. ASSUME NEW c \in CPU, TakeSources(c) PROVE IInv'
  <2>1. TypeOK'
    BY <1>10 DEF TakeSources, IInv, TypeOK, Place
  <2>2. ASSUME NEW d \in CPU PROVE SlotInv(d)'
    BY <1>10 DEF TakeSources, IInv, TypeOK, Place, SlotInv, Busy
  <2>3. ASSUME NEW d \in CPU, NEW u \in CPU PROVE PairInv(d, u)'
    BY <1>10 DEF TakeSources, IInv, TypeOK, Place, SlotInv, PairInv, Busy, Unarmed
  <2> QED BY <2>1, <2>2, <2>3 DEF IInv
<1>11. ASSUME NEW c \in CPU, NEW s \in CPU, Acknowledge(c, s) PROVE IInv'
  <2>1. TypeOK'
    BY <1>11 DEF Acknowledge, IInv, TypeOK, Place
  <2>2. ASSUME NEW d \in CPU PROVE SlotInv(d)'
    BY <1>11 DEF Acknowledge, IInv, TypeOK, Place, SlotInv, PairInv, Busy
  <2>3. ASSUME NEW d \in CPU, NEW u \in CPU PROVE PairInv(d, u)'
    BY <1>11 DEF Acknowledge, IInv, TypeOK, Place, SlotInv, PairInv, Busy, Unarmed
  <2> QED BY <2>1, <2>2, <2>3 DEF IInv
<1>12. CASE UNCHANGED vars
  BY <1>12 DEF vars, IInv, TypeOK, Place, SlotInv, PairInv, Busy, Unarmed
<1> QED
  BY <1>1, <1>2, <1>3, <1>4, <1>5, <1>6, <1>7, <1>8, <1>9, <1>10, <1>11, <1>12
  DEF Next, SubmitStep, HandleStep

\* The slots of all CPUs and what each source and target know of each other agree in
\* every state: the invariant that the theorems below draw on.
THEOREM Invariance == Spec => []IInv
BY InitIInv, StepIInv, PTL DEF Spec

\* The state of the rendezvous (slots, masks, sequence numbers) is well typed in every
\* state of submit_remote_sync and handle_remote_sync_ipi.
THEOREM TypeCorrect == Spec => []TypeOK
<1>1. IInv => TypeOK BY DEF IInv
<1> QED BY <1>1, Invariance, PTL

\* The assertions of handle_remote_sync_ipi and submit_remote_sync never fail,
\* for any number of CPUs and requests.
THEOREM LiveRequests == Spec => []RequestsAreLive
<1>1. IInv => RequestsAreLive
  <2> SUFFICES ASSUME IInv, NEW t \in CPU, NEW s \in CPU,
                      s \in pendingSources[t] \cup taken[t]
               PROVE  /\ s # t /\ active[s] /\ action[s] # None
                      /\ sequence[s] > observed[t][s] /\ t \in remaining[s]
    BY DEF RequestsAreLive
  <2>1. t \in remaining[s] /\ observed[t][s] < sequence[s]
    BY DEF IInv, PairInv
  <2>2. s # t /\ pc[s] \notin {"idle", "spin", "panic"}
    BY <2>1 DEF IInv, SlotInv
  <2>3. active[s] /\ action[s] # None
    BY <2>2 DEF IInv, TypeOK, Place, SlotInv, Busy
  <2> QED BY <2>1, <2>2, <2>3 DEF IInv, TypeOK, Place
<1> QED BY <1>1, Invariance, PTL

\* submit_remote_sync returns only after every target of its mask has executed
\* the barrier of this very request.
THEOREM RendezvousHolds == Spec => Rendezvous
<1>1. IInv /\ [Next]_vars =>
        [\A c \in CPU : pc[c] = "wait" /\ pc'[c] = "idle" =>
            \A t \in goal[c] : observed[t][c] = sequence[c]]_vars
  <2> SUFFICES ASSUME IInv, Next, NEW c \in CPU, pc[c] = "wait", pc'[c] = "idle",
                      NEW t \in goal[c]
               PROVE  observed[t][c] = sequence[c]
    BY DEF vars
  <2> USE DEF submitter, request, handler
  <2>1. WaitCompletion(c)
    <3>1. ASSUME NEW d \in CPU, Submit(d) \/ Spin(d) PROVE pc'[c] # "idle"
      <4>1. pc[d] # "wait" \/ pc' = pc
        BY <3>1 DEF Submit, Spin
      <4>2. \/ pc' = pc
            \/ \E targets \in SUBSET CPU, a \in Action : Begin(d, targets, a)
        BY <3>1 DEF Submit, Spin
      <4>3. d # c \/ pc' = pc
        BY <3>1 DEF Submit, Spin
      <4> QED BY <4>2, <4>3 DEF Begin, NextTarget, IInv, TypeOK, Place
    <3>2. ASSUME NEW d \in CPU,
                 WantLock(d) \/ InsertRemaining(d) \/ PublishSource(d)
                 \/ SendIpi(d) \/ SendIpiFails(d) \/ (WaitCompletion(d) /\ d # c)
          PROVE  pc'[c] # "idle"
      <4>1. CASE WantLock(d) \/ InsertRemaining(d) \/ SendIpiFails(d)
        BY ZenonT(40), <4>1 DEF WantLock, InsertRemaining, SendIpiFails, IInv, TypeOK, Place
      <4>2. CASE PublishSource(d) \/ SendIpi(d)
        <5>1. d # c
          BY <4>2 DEF PublishSource, SendIpi
        <5>2. \/ pc' = [pc EXCEPT ![d] = "send"]
              \/ pc' = [pc EXCEPT ![d] = "wait"]
              \/ pc' = [pc EXCEPT ![d] = "insert"]
          BY <4>2 DEF PublishSource, SendIpi, NextTarget
        <5> QED BY <5>1, <5>2 DEF IInv, TypeOK
      <4>3. CASE WaitCompletion(d) /\ d # c
        BY <4>3 DEF WaitCompletion, IInv, TypeOK, Place
      <4> QED BY <3>2, <4>1, <4>2, <4>3
    <3>3. ASSUME NEW d \in CPU, HandleStep(d) PROVE pc'[c] # "idle"
      BY <3>3 DEF HandleStep, Interrupt, TakeSources, Acknowledge
    <3> QED BY <3>1, <3>2, <3>3 DEF Next, SubmitStep
  <2>2. remaining[c] = {} /\ ~failed[c]
    BY <2>1 DEF WaitCompletion, IInv, TypeOK, Place
  <2>3. t \in CPU /\ t \notin remaining[c] \cup Unarmed(c)
    BY <2>2 DEF IInv, TypeOK, SlotInv, Unarmed
  <2> QED BY <2>2, <2>3 DEF IInv, PairInv, Busy
<1> QED BY <1>1, Invariance, PTL DEF Spec, Rendezvous
=============================================================================
