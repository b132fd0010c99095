--------------------------- MODULE SignalsProofs ----------------------------
(***************************************************************************)
(* Proofs about signals, for any number of threads, senders and signals.   *)
(***************************************************************************)
EXTENDS Signals, NaturalsInduction, WellFoundedInduction, TLAPS

Acts == Action \cup {DefaultAct}
LocalVars == [sig : Sig \cup {0}, act : Acts, old : SUBSET Sig, want : SUBSET Sig,
              scan : Task, wake : SUBSET Sig]
Frame == [sig : Sig, defer : BOOLEAN, mask : SUBSET Sig]
Job == [step : {"idle", "scan", "queue", "wake", "wake all"}, sig : Sig \cup {0},
        target : Task, index : Task, whole : BOOLEAN]
Places == {"user", "deliver", "published", "rescan", "poll", "polling", "suspend",
           "suspend block", "suspended", "wait", "wait again", "wait block", "waiting",
           "consume", "act", "discard", "build", "force", "segv", "check", "drop"}

Types ==
    /\ SigTypeOK
    /\ sigFrames \in [Task -> Seq(Frame)]
    /\ sigPlace \in [Task -> Places]
    /\ sigAt \in [Task -> LocalVars]
    /\ sigAction \in [Sig -> Acts]
    /\ sigSender \in [Sender -> Job]

\* A signal that was chosen is a signal, and stays one until it is dealt with.
Chosen ==
    /\ \A t \in Task : /\ sigPlace[t] \in {"act", "discard", "build"} => sigAt[t].sig \in Sig
                       /\ sigPlace[t] = "act" => CanDeliver(sigAt[t].sig)
                       /\ sigPlace[t] \in {"force", "segv"} => SIGSEGV \in Sig
    /\ \A k \in Sender : sigSender[k].step # "idle" => sigSender[k].sig \in Sig

\* The published mask is the one of the dispositions.
Published == wakeMask = WakeMask(sigAction)

SigInv == Types /\ Chosen /\ Published

-----------------------------------------------------------------------------
\* A set of natural numbers has a least element.
LEMMA LeastNumber ==
  ASSUME NEW T \in SUBSET Nat, T # {}
  PROVE  \E i \in T : \A j \in T : i <= j
  <1>1. IsWellFoundedOn(OpToRel(<, Nat), Nat)
    BY NatLessThanWellFounded
  <1>2. PICK i \in T : \A j \in T : ~(<<j, i>> \in OpToRel(<, Nat))
    BY <1>1, WFMin
  <1>3. \A j \in T : ~(j < i)
    BY Zenon, <1>2 DEF OpToRel
  <1>. QED
    BY <1>3

\* lowest_signal() returns one of the signals it is given.
LEMMA LowestIsMember == \A S \in SUBSET Sig : S # {} => Lowest(S) \in S
  <1>. SUFFICES ASSUME NEW S \in SUBSET Sig, S # {} PROVE Lowest(S) \in S
    OBVIOUS
  <1>1. S \in SUBSET Nat
    BY SignalsAssumption
  <1>2. \E s \in S : \A r \in S : s <= r
    BY <1>1, LeastNumber
  <1>. QED
    BY <1>2 DEF Lowest

\* The local variables a call starts with are typed, and so is an idle sender.
LEMMA TypedStarts == Locals \in LocalVars /\ Idle \in Job
  BY SignalsAssumption DEF Locals, LocalVars, Acts, Idle, Job, Task

\* The published mask is a set of signals.
LEMMA WakeMaskTyped == \A acts : WakeMask(acts) \in SUBSET Sig
  BY DEF WakeMask

\* The initial state.
LEMMA InitSigInv == SigInit => SigInv
  <1>. SUFFICES ASSUME SigInit PROVE SigInv
    OBVIOUS
  <1>. USE DEF SigInit
  <1>a. sigFast \in [Task -> BOOLEAN] /\ sigAsleep \in [Task -> BOOLEAN]
    BY Zenon
  <1>b. /\ sigPending \in [Task -> SUBSET Sig] /\ sigMask \in [Task -> SUBSET Sig]
        /\ sigRestore \in [Task -> (SUBSET Sig) \cup {NoMask}]
    OBVIOUS
  <1>1. SigTypeOK
    BY <1>a, <1>b, WakeMaskTyped DEF SigTypeOK
  <1>c. sigFrames \in [Task -> Seq(Frame)]
    OBVIOUS
  <1>d. sigAt \in [Task -> LocalVars] /\ sigSender \in [Sender -> Job]
    BY TypedStarts
  <1>e. sigAction \in [Sig -> Acts]
    BY SignalsAssumption DEF Acts
  <1>f. sigPlace \in [Task -> Places]
    BY DEF Places
  <1>2. Types
    BY <1>1, <1>c, <1>d, <1>e, <1>f DEF Types
  <1>3. Chosen
    BY DEF Chosen, Idle
  <1>. QED
    BY <1>2, <1>3 DEF SigInv, Published

\* A change of one local variable keeps them typed.
LEMMA LocalUpdates ==
  \A l \in LocalVars : /\ \A s \in Sig : [l EXCEPT !.sig = s] \in LocalVars
                       /\ \A m \in SUBSET Sig : /\ [l EXCEPT !.old = m] \in LocalVars
                                                /\ [l EXCEPT !.want = m] \in LocalVars
                                                /\ [l EXCEPT !.wake = m, !.scan = 1] \in LocalVars
                       /\ \A u \in Task : [l EXCEPT !.scan = u] \in LocalVars
                       /\ \A a \in Acts : [l EXCEPT !.act = a] \in LocalVars
  <1>. SUFFICES ASSUME NEW l \in LocalVars
                PROVE  /\ \A s \in Sig : [l EXCEPT !.sig = s] \in LocalVars
                       /\ \A m \in SUBSET Sig : /\ [l EXCEPT !.old = m] \in LocalVars
                                                /\ [l EXCEPT !.want = m] \in LocalVars
                                                /\ [l EXCEPT !.wake = m, !.scan = 1] \in LocalVars
                       /\ \A u \in Task : [l EXCEPT !.scan = u] \in LocalVars
                       /\ \A a \in Acts : [l EXCEPT !.act = a] \in LocalVars
    OBVIOUS
  <1>0. 1 \in Task
    BY SignalsAssumption DEF Task
  <1>1. \A s \in Sig : [l EXCEPT !.sig = s] \in LocalVars
    BY DEF LocalVars
  <1>2. \A m \in SUBSET Sig : [l EXCEPT !.old = m] \in LocalVars /\ [l EXCEPT !.want = m] \in LocalVars
    BY DEF LocalVars
  <1>3. \A m \in SUBSET Sig : [l EXCEPT !.wake = m, !.scan = 1] \in LocalVars
    BY Zenon, <1>0 DEF LocalVars
  <1>4. \A u \in Task : [l EXCEPT !.scan = u] \in LocalVars
    BY DEF LocalVars
  <1>5. \A a \in Acts : [l EXCEPT !.act = a] \in LocalVars
    BY DEF LocalVars
  <1>. QED
    BY Zenon, <1>1, <1>2, <1>3, <1>4, <1>5

\* The loop of rt_sigaction() stays within the tasks.
LEMMA NextTask == \A u \in Task : u # TaskCount => u + 1 \in Task
  BY SignalsAssumption DEF Task

\* A disposition has typed fields.
LEMMA ActsTyped == \A a \in Acts : a.mask \in SUBSET Sig /\ a.defer \in BOOLEAN
  <1>1. DefaultAct \in [h : {"default", "ignore", "user"}, reset : BOOLEAN,
                        defer : BOOLEAN, mask : SUBSET Sig]
    BY DEF DefaultAct
  <1>2. Acts \subseteq [h : {"default", "ignore", "user"}, reset : BOOLEAN,
                        defer : BOOLEAN, mask : SUBSET Sig]
    BY <1>1, SignalsAssumption DEF Acts
  <1>. QED
    BY <1>2

\* Taking a signal out of the pending set keeps the set and its summary typed.
LEMMA ClearTyped ==
  ASSUME Types, NEW t \in Task, NEW s, Clear(t, s)
  PROVE  sigPending' \in [Task -> SUBSET Sig] /\ sigFast' \in [Task -> BOOLEAN]
  BY DEF Types, SigTypeOK, Clear

\* Trap keeps the types.
LEMMA TrapSigInv ==
  ASSUME SigInv, NEW t \in Task, Trap(t)
  PROVE  SigInv'
  <1>. USE DEF Trap, Go, queueVars, maskVars, actionVars, processVars, SigInv
  <1>1. SigTypeOK'
    BY DEF Types, SigTypeOK
  <1>3. sigPlace' \in [Task -> Places]
    BY Zenon DEF Types, Places
  <1>4. Types'
    BY <1>1, <1>3 DEF Types
  <1>5. Chosen'
    BY DEF Types, Chosen
  <1>6. Published'
    BY DEF Published
  <1>. QED
    BY <1>4, <1>5, <1>6

\* Fault keeps the types.
LEMMA FaultSigInv ==
  ASSUME SigInv, NEW t \in Task, Fault(t)
  PROVE  SigInv'
  <1>. USE DEF Fault, Enqueue, SysEnter, Go, queueVars, maskVars, actionVars, processVars, SigInv
  <1>s. SIGSEGV \in Sig
    BY SignalsAssumption
  <1>1. SigTypeOK'
    BY <1>s DEF Types, SigTypeOK
  <1>3. sigPlace' \in [Task -> Places]
    BY Zenon DEF Types, Places
  <1>4. Types'
    BY <1>1, <1>3 DEF Types
  <1>5. Chosen'
    BY DEF Types, Chosen
  <1>6. Published'
    BY DEF Published
  <1>. QED
    BY <1>4, <1>5, <1>6

\* SigProcMask keeps the types.
LEMMA SigProcMaskSigInv ==
  ASSUME SigInv, NEW t \in Task, NEW m \in MaskChoices, SigProcMask(t, m)
  PROVE  SigInv'
  <1>. USE DEF SigProcMask, SysEnter, Go, queueVars, maskVars, actionVars, processVars, SigInv
  <1>1. SigTypeOK'
    BY SignalsAssumption DEF Types, SigTypeOK
  <1>3. sigPlace' \in [Task -> Places]
    BY Zenon DEF Types, Places
  <1>4. Types'
    BY <1>1, <1>3 DEF Types
  <1>5. Chosen'
    BY DEF Types, Chosen
  <1>6. Published'
    BY DEF Published
  <1>. QED
    BY <1>4, <1>5, <1>6

\* PollEnter keeps the types.
LEMMA PollEnterSigInv ==
  ASSUME SigInv, NEW t \in Task, NEW m \in MaskChoices, PollEnter(t, m)
  PROVE  SigInv'
  <1>. USE DEF PollEnter, SysEnter, Go, queueVars, maskVars, actionVars, processVars, SigInv
  <1>1. SigTypeOK'
    BY SignalsAssumption DEF Types, SigTypeOK
  <1>2. sigAt' \in [Task -> LocalVars]
    BY Zenon, LocalUpdates, TypedStarts, LowestIsMember, SignalsAssumption DEF Types, SigTypeOK
  <1>3. sigPlace' \in [Task -> Places]
    BY Zenon DEF Types, Places
  <1>4. Types'
    BY <1>1, <1>2, <1>3 DEF Types
  <1>5. Chosen'
    BY DEF Types, Chosen
  <1>6. Published'
    BY DEF Published
  <1>. QED
    BY <1>4, <1>5, <1>6

\* SuspendEnter keeps the types.
LEMMA SuspendEnterSigInv ==
  ASSUME SigInv, NEW t \in Task, NEW m \in MaskChoices, SuspendEnter(t, m)
  PROVE  SigInv'
  <1>. USE DEF SuspendEnter, SysEnter, Go, queueVars, maskVars, actionVars, processVars, SigInv
  <1>1. SigTypeOK'
    BY SignalsAssumption DEF Types, SigTypeOK
  <1>2. sigAt' \in [Task -> LocalVars]
    BY Zenon, LocalUpdates, TypedStarts, LowestIsMember, SignalsAssumption DEF Types, SigTypeOK
  <1>3. sigPlace' \in [Task -> Places]
    BY Zenon DEF Types, Places
  <1>4. Types'
    BY <1>1, <1>2, <1>3 DEF Types
  <1>5. Chosen'
    BY DEF Types, Chosen
  <1>6. Published'
    BY DEF Published
  <1>. QED
    BY <1>4, <1>5, <1>6

\* SigAction keeps the types.
LEMMA SigActionSigInv ==
  ASSUME SigInv, NEW t \in Task, NEW s \in Sig, NEW act \in Action, SigAction(t, s, act)
  PROVE  SigInv'
  <1>. USE DEF SigAction, SysEnter, Go, queueVars, maskVars, actionVars, processVars, SigInv
  <1>1. SigTypeOK'
    BY WakeMaskTyped DEF Types, SigTypeOK
  <1>x. sigAction' \in [Sig -> Acts]
    BY DEF Types, Acts
  <1>3. sigPlace' \in [Task -> Places]
    BY Zenon DEF Types, Places
  <1>4. Types'
    BY <1>1, <1>x, <1>3 DEF Types
  <1>5. Chosen'
    BY DEF Types, Chosen
  <1>6. Published'
    BY DEF Published
  <1>. QED
    BY <1>4, <1>5, <1>6

\* ReadPublished keeps the types.
LEMMA ReadPublishedSigInv ==
  ASSUME SigInv, NEW t \in Task, ReadPublished(t)
  PROVE  SigInv'
  <1>. USE DEF ReadPublished, Go, queueVars, maskVars, actionVars, processVars, SigInv
  <1>1. SigTypeOK'
    BY DEF Types, SigTypeOK
  <1>2. sigAt' \in [Task -> LocalVars]
    BY ZenonT(40), LocalUpdates, TypedStarts, LowestIsMember, SignalsAssumption DEF Types, SigTypeOK
  <1>3. sigPlace' \in [Task -> Places]
    BY Zenon DEF Types, Places
  <1>4. Types'
    BY <1>1, <1>2, <1>3 DEF Types
  <1>5. Chosen'
    BY DEF Types, Chosen
  <1>6. Published'
    BY DEF Published
  <1>. QED
    BY <1>4, <1>5, <1>6

\* Rescan keeps the types.
LEMMA RescanSigInv ==
  ASSUME SigInv, NEW t \in Task, Rescan(t)
  PROVE  SigInv'
  <1>. USE DEF Rescan, Back, Go, queueVars, maskVars, actionVars, processVars, SigInv
  <1>1. SigTypeOK'
    BY Zenon DEF Types, SigTypeOK
  <1>a. sigAt[t].scan \in Task /\ sigAt[t] \in LocalVars
    BY DEF Types, LocalVars
  <1>b. sigAt[t].scan # TaskCount => sigAt[t].scan + 1 \in Task
    BY <1>a, NextTask
  <1>2. sigAt' \in [Task -> LocalVars]
    <2>1. CASE sigAt[t].scan = TaskCount
      BY Zenon, <2>1, TypedStarts DEF Types
    <2>2. CASE sigAt[t].scan # TaskCount
      <3>1. [sigAt[t] EXCEPT !.scan = sigAt[t].scan + 1] \in LocalVars
        BY Zenon, <1>a, <1>b, <2>2, LocalUpdates
      <3>. QED
        BY Zenon, <2>2, <3>1 DEF Types
    <2>. QED
      BY <2>1, <2>2
  <1>3. sigPlace' \in [Task -> Places]
    BY DEF Types, Places
  <1>4. Types'
    BY <1>1, <1>2, <1>3 DEF Types
  <1>5. Chosen'
    BY DEF Types, Chosen
  <1>6. Published'
    BY DEF Published
  <1>. QED
    BY <1>4, <1>5, <1>6

\* PollLeave keeps the types.
LEMMA PollLeaveSigInv ==
  ASSUME SigInv, NEW t \in Task, PollLeave(t)
  PROVE  SigInv'
  <1>. USE DEF PollLeave, Back, Go, queueVars, maskVars, actionVars, processVars, SigInv
  <1>s. sigAt[t].old \in SUBSET Sig
    BY DEF Types, LocalVars
  <1>1. SigTypeOK'
    BY <1>s DEF Types, SigTypeOK
  <1>2. sigAt' \in [Task -> LocalVars]
    BY TypedStarts DEF Types
  <1>3. sigPlace' \in [Task -> Places]
    BY Zenon DEF Types, Places
  <1>4. Types'
    BY <1>1, <1>2, <1>3 DEF Types
  <1>5. Chosen'
    BY DEF Types, Chosen
  <1>6. Published'
    BY DEF Published
  <1>. QED
    BY <1>4, <1>5, <1>6

\* PollBlock keeps the types.
LEMMA PollBlockSigInv ==
  ASSUME SigInv, NEW t \in Task, PollBlock(t)
  PROVE  SigInv'
  <1>. USE DEF PollBlock, Go, queueVars, maskVars, actionVars, processVars, SigInv
  <1>1. SigTypeOK'
    BY DEF Types, SigTypeOK
  <1>3. sigPlace' \in [Task -> Places]
    BY Zenon DEF Types, Places
  <1>4. Types'
    BY Zenon, <1>1, <1>3 DEF Types
  <1>5. Chosen'
    BY DEF Types, Chosen
  <1>6. Published'
    BY DEF Published
  <1>. QED
    BY <1>4, <1>5, <1>6

\* PollEvent keeps the types.
LEMMA PollEventSigInv ==
  ASSUME SigInv, NEW t \in Task, PollEvent(t)
  PROVE  SigInv'
  <1>. USE DEF PollEvent, Go, queueVars, maskVars, actionVars, processVars, SigInv
  <1>1. SigTypeOK'
    BY DEF Types, SigTypeOK
  <1>3. sigPlace' \in [Task -> Places]
    BY Zenon DEF Types, Places
  <1>4. Types'
    BY Zenon, <1>1, <1>3 DEF Types
  <1>5. Chosen'
    BY DEF Types, Chosen
  <1>6. Published'
    BY DEF Published
  <1>. QED
    BY <1>4, <1>5, <1>6

\* Resume keeps the types.
LEMMA ResumeSigInv ==
  ASSUME SigInv, NEW t \in Task, Resume(t)
  PROVE  SigInv'
  <1>. USE DEF Resume, Go, queueVars, maskVars, actionVars, processVars, SigInv
  <1>1. SigTypeOK'
    BY DEF Types, SigTypeOK
  <1>3. sigPlace' \in [Task -> Places]
    BY ZenonT(40) DEF Types, Places
  <1>4. Types'
    BY <1>1, <1>3 DEF Types
  <1>5. Chosen'
    BY DEF Types, Chosen
  <1>6. Published'
    BY DEF Published
  <1>. QED
    BY <1>4, <1>5, <1>6

\* SuspendLook keeps the types.
LEMMA SuspendLookSigInv ==
  ASSUME SigInv, NEW t \in Task, SuspendLook(t)
  PROVE  SigInv'
  <1>. USE DEF SuspendLook, Back, Go, queueVars, maskVars, actionVars, processVars, SigInv
  <1>s. sigAt[t].old \in SUBSET Sig
    BY Zenon DEF Types, LocalVars
  <1>1. SigTypeOK'
    BY Zenon, <1>s DEF Types, SigTypeOK
  <1>2. sigAt' \in [Task -> LocalVars]
    BY Zenon, TypedStarts DEF Types
  <1>3. sigPlace' \in [Task -> Places]
    BY DEF Types, Places
  <1>4. Types'
    BY Zenon, <1>1, <1>2, <1>3 DEF Types
  <1>5. Chosen'
    BY Zenon DEF Types, Chosen
  <1>6. Published'
    BY Zenon DEF Published
  <1>. QED
    BY Zenon, <1>4, <1>5, <1>6

\* Block keeps the types.
LEMMA BlockSigInv ==
  ASSUME SigInv, NEW t \in Task, Block(t)
  PROVE  SigInv'
  <1>. USE DEF Block, Go, queueVars, maskVars, actionVars, processVars, SigInv
  <1>1. SigTypeOK'
    BY Zenon DEF Types, SigTypeOK
  <1>3. sigPlace' \in [Task -> Places]
    BY Zenon DEF Types, Places
  <1>4. Types'
    BY Zenon, <1>1, <1>3 DEF Types
  <1>5. Chosen'
    BY Zenon DEF Types, Chosen
  <1>6. Published'
    BY Zenon DEF Published
  <1>. QED
    BY Zenon, <1>4, <1>5, <1>6

\* WaitEnter keeps the types.
LEMMA WaitEnterSigInv ==
  ASSUME SigInv, NEW t \in Task, NEW w \in WantChoices, WaitEnter(t, w)
  PROVE  SigInv'
  <1>. USE DEF WaitEnter, SysEnter, Go, queueVars, maskVars, actionVars, processVars, SigInv
  <1>1. SigTypeOK'
    BY DEF Types, SigTypeOK
  <1>2. sigAt' \in [Task -> LocalVars]
    BY Zenon, LocalUpdates, TypedStarts, LowestIsMember, SignalsAssumption DEF Types, SigTypeOK
  <1>3. sigPlace' \in [Task -> Places]
    BY Zenon DEF Types, Places
  <1>4. Types'
    BY <1>1, <1>2, <1>3 DEF Types
  <1>5. Chosen'
    BY DEF Types, Chosen
  <1>6. Published'
    BY DEF Published
  <1>. QED
    BY <1>4, <1>5, <1>6

\* WaitLook keeps the types.
LEMMA WaitLookSigInv ==
  ASSUME SigInv, NEW t \in Task, WaitLook(t)
  PROVE  SigInv'
  <1>. USE DEF WaitLook, Back, Go, queueVars, maskVars, actionVars, processVars, SigInv
  <1>1. SigTypeOK'
    BY Zenon DEF Types, SigTypeOK
  <1>a. sigPending[t] \cap sigAt[t].want \in SUBSET Sig /\ sigAt[t] \in LocalVars
    BY Zenon DEF Types, SigTypeOK
  <1>2. sigAt' \in [Task -> LocalVars]
    <2>1. sigPending[t] \cap sigAt[t].want # {} =>
            [sigAt[t] EXCEPT !.sig = Lowest(sigPending[t] \cap sigAt[t].want)] \in LocalVars
      BY Zenon, <1>a, LocalUpdates, LowestIsMember
    <2>. QED
      BY <2>1, TypedStarts DEF Types
  <1>3. sigPlace' \in [Task -> Places]
    BY DEF Types, Places
  <1>4. Types'
    BY Zenon, <1>1, <1>2, <1>3 DEF Types
  <1>5. Chosen'
    BY DEF Types, Chosen
  <1>6. Published'
    BY Zenon DEF Published
  <1>. QED
    BY Zenon, <1>4, <1>5, <1>6

\* WaitAgain keeps the types.
LEMMA WaitAgainSigInv ==
  ASSUME SigInv, NEW t \in Task, WaitAgain(t)
  PROVE  SigInv'
  <1>. USE DEF WaitAgain, Go, queueVars, maskVars, actionVars, processVars, SigInv
  <1>1. SigTypeOK'
    BY Zenon DEF Types, SigTypeOK
  <1>3. sigPlace' \in [Task -> Places]
    BY Zenon DEF Types, Places
  <1>4. Types'
    BY Zenon, <1>1, <1>3 DEF Types
  <1>5. Chosen'
    BY Zenon DEF Types, Chosen
  <1>6. Published'
    BY Zenon DEF Published
  <1>. QED
    BY Zenon, <1>4, <1>5, <1>6

\* WaitExpires keeps the types.
LEMMA WaitExpiresSigInv ==
  ASSUME SigInv, NEW t \in Task, WaitExpires(t)
  PROVE  SigInv'
  <1>. USE DEF WaitExpires, Go, queueVars, maskVars, actionVars, processVars, SigInv
  <1>1. SigTypeOK'
    BY DEF Types, SigTypeOK
  <1>3. sigPlace' \in [Task -> Places]
    BY Zenon DEF Types, Places
  <1>4. Types'
    BY Zenon, <1>1, <1>3 DEF Types
  <1>5. Chosen'
    BY DEF Types, Chosen
  <1>6. Published'
    BY DEF Published
  <1>. QED
    BY <1>4, <1>5, <1>6

\* Consume keeps the types.
LEMMA ConsumeSigInv ==
  ASSUME SigInv, NEW t \in Task, Consume(t)
  PROVE  SigInv'
  <1>. USE DEF Consume, Clear, Back, Go, queueVars, maskVars, actionVars, processVars, SigInv
  <1>1. SigTypeOK'
    BY DEF Types, SigTypeOK
  <1>2. sigAt' \in [Task -> LocalVars]
    BY TypedStarts DEF Types
  <1>3. sigPlace' \in [Task -> Places]
    BY Zenon DEF Types, Places
  <1>4. Types'
    BY <1>1, <1>2, <1>3 DEF Types
  <1>5. Chosen'
    BY Zenon DEF Types, Chosen
  <1>6. Published'
    BY Zenon DEF Published
  <1>. QED
    BY <1>4, <1>5, <1>6

\* SigReturn keeps the types.
LEMMA SigReturnSigInv ==
  ASSUME SigInv, NEW t \in Task, SigReturn(t)
  PROVE  SigInv'
  <1>. USE DEF SigReturn, Go, queueVars, maskVars, actionVars, processVars, SigInv
  <1>s. FrameMask(t) \in SUBSET Sig
    <2>1. sigFrames[t] \in Seq(Frame) /\ sigFrames[t] # <<>>
      BY DEF Types
    <2>2. sigFrames[t][Len(sigFrames[t])] \in Frame
      BY <2>1
    <2>. QED
      BY <2>2 DEF FrameMask, Frame
  <1>1. SigTypeOK'
    BY <1>s DEF Types, SigTypeOK
  <1>f. sigFrames' \in [Task -> Seq(Frame)]
    BY DEF Types
  <1>3. sigPlace' \in [Task -> Places]
    BY Zenon DEF Types, Places
  <1>4. Types'
    BY Zenon, <1>1, <1>f, <1>3 DEF Types
  <1>5. Chosen'
    BY Zenon DEF Types, Chosen
  <1>6. Published'
    BY DEF Published
  <1>. QED
    BY <1>4, <1>5, <1>6

\* Select keeps the types.
LEMMA SelectSigInv ==
  ASSUME SigInv, NEW t \in Task, Select(t)
  PROVE  SigInv'
  <1>. USE DEF Select, Go, queueVars, maskVars, actionVars, processVars, SigInv
  <1>1. SigTypeOK'
    BY DEF Types, SigTypeOK
  <1>a. Ready(t) \in SUBSET Sig /\ sigAt[t] \in LocalVars
    BY DEF Types, SigTypeOK, Ready, Unmasked
  <1>b. Ready(t) # {} => Lowest(Ready(t)) \in Sig /\ CanDeliver(Lowest(Ready(t)))
    BY <1>a, LowestIsMember DEF Ready
  <1>2. sigAt' \in [Task -> LocalVars]
    <2>1. Ready(t) # {} => [sigAt[t] EXCEPT !.sig = Lowest(Ready(t))] \in LocalVars
      BY Zenon, <1>a, <1>b, LocalUpdates
    <2>. QED
      BY Zenon, <2>1 DEF Types
  <1>3. sigPlace' \in [Task -> Places]
    BY DEF Types, Places
  <1>4. Types'
    BY <1>1, <1>2, <1>3 DEF Types
  <1>5. Chosen'
    BY <1>b DEF Types, Chosen, LocalVars
  <1>6. Published'
    BY DEF Published
  <1>. QED
    BY <1>4, <1>5, <1>6

\* ReadAction keeps the types.
LEMMA ReadActionSigInv ==
  ASSUME SigInv, NEW t \in Task, ReadAction(t)
  PROVE  SigInv'
  <1>. USE DEF ReadAction, Back, Go, queueVars, maskVars, actionVars, processVars, SigInv
  <1>1. SigTypeOK'
    BY WakeMaskTyped DEF Types, SigTypeOK
  <1>a. sigAt[t].sig \in Sig /\ sigAction[sigAt[t].sig] \in Acts /\ sigAt[t] \in LocalVars
    BY DEF Types, Chosen
  <1>2. sigAt' \in [Task -> LocalVars]
    <2>1. [sigAt[t] EXCEPT !.act = sigAction[sigAt[t].sig]] \in LocalVars
      BY Zenon, <1>a, LocalUpdates
    <2>. QED
      BY Zenon, <2>1, TypedStarts DEF Types
  <1>x. sigAction' \in [Sig -> Acts]
    BY Zenon DEF Types, Acts
  <1>3. sigPlace' \in [Task -> Places]
    BY DEF Types, Places
  <1>4. Types'
    BY <1>1, <1>2, <1>x, <1>3 DEF Types
  <1>5. Chosen'
    <2>1. sigAt[t].sig \in Sig /\ sigAt'[t] \in {Locals, [sigAt[t] EXCEPT !.act = sigAction[sigAt[t].sig]]}
      BY <1>a DEF Types
    <2>2. sigPlace'[t] # "check" => sigAt'[t].sig = sigAt[t].sig
      BY <1>a DEF Types, LocalVars
    <2>3. \A u \in Task \ {t} : sigAt'[u] = sigAt[u] /\ sigPlace'[u] = sigPlace[u]
      BY DEF Types
    <2>4. sigPlace'[t] \in {"check", "discard", "build"}
      BY DEF Types
    <2>. QED
      BY <2>1, <2>2, <2>3, <2>4 DEF Chosen
  <1>6. Published'
    <2>1. CASE Handled(sigAction[sigAt[t].sig]) /\ sigAction[sigAt[t].sig].reset
      BY <2>1 DEF Published
    <2>2. CASE ~(Handled(sigAction[sigAt[t].sig]) /\ sigAction[sigAt[t].sig].reset)
      <3>1. sigAction' = sigAction /\ wakeMask' = wakeMask
        BY <2>2 DEF Types
      <3>. QED
        BY <3>1 DEF Published
    <2>. QED
      BY <2>1, <2>2
  <1>. QED
    BY <1>4, <1>5, <1>6

\* Discard keeps the types.
LEMMA DiscardSigInv ==
  ASSUME SigInv, NEW t \in Task, Discard(t)
  PROVE  SigInv'
  <1>. USE DEF Discard, Clear, Back, Go, queueVars, maskVars, actionVars, processVars, SigInv
  <1>1. SigTypeOK'
    <2>1. CASE sigAt[t].sig \in sigPending[t]
      <3>1. Clear(t, sigAt[t].sig)
        BY Zenon, <2>1
      <3>. QED
        BY Zenon, <3>1, ClearTyped DEF Types, SigTypeOK
    <2>2. CASE sigAt[t].sig \notin sigPending[t]
      BY <2>2 DEF Types, SigTypeOK
    <2>. QED
      BY <2>1, <2>2
  <1>2. sigAt' \in [Task -> LocalVars]
    BY TypedStarts DEF Types
  <1>3. sigPlace' \in [Task -> Places]
    BY Zenon DEF Types, Places
  <1>4. Types'
    BY Zenon, <1>1, <1>2, <1>3 DEF Types
  <1>5. Chosen'
    BY Zenon DEF Types, Chosen
  <1>6. Published'
    BY Zenon DEF Published
  <1>. QED
    BY <1>4, <1>5, <1>6

\* Build keeps the types.
LEMMA BuildSigInv ==
  ASSUME SigInv, NEW t \in Task, Build(t)
  PROVE  SigInv'
  <1>. USE DEF Build, Go, Back, queueVars, maskVars, actionVars, processVars, SigInv
  <1>a. sigAt[t].sig \in Sig /\ sigAt[t].act \in Acts
    BY DEF Types, Chosen, LocalVars
  <1>b. sigAt[t].act.mask \in SUBSET Sig /\ sigAt[t].act.defer \in BOOLEAN
    BY Zenon, <1>a, ActsTyped
  <1>c. HandlerMask(t, sigAt[t].sig, sigAt[t].act) \in SUBSET Sig
    BY Zenon, <1>a, <1>b DEF Types, SigTypeOK, HandlerMask
  <1>d. SavedMask(t) \in SUBSET Sig
    BY DEF Types, SigTypeOK, SavedMask
  <1>1. SigTypeOK'
    <2>1. CASE sigAt[t].sig \notin Unmasked(t)
      BY <2>1 DEF Types, SigTypeOK
    <2>2. CASE sigAt[t].sig \in Unmasked(t)
      <3>1. TakeSignal(t, sigAt[t].sig)
        BY Zenon, <2>2
      <3>2. sigPending' \in [Task -> SUBSET Sig] /\ sigFast' \in [Task -> BOOLEAN]
        BY Zenon, <3>1, ClearTyped DEF TakeSignal
      <3>3. /\ sigMask' \in [Task -> SUBSET Sig]
            /\ sigRestore' \in [Task -> (SUBSET Sig) \cup {NoMask}]
        BY Zenon, <3>1, <1>c DEF TakeSignal, Types, SigTypeOK
      <3>. QED
        BY <3>2, <3>3 DEF Types, SigTypeOK
    <2>. QED
      BY Zenon, <2>1, <2>2
  <1>2. sigAt' \in [Task -> LocalVars] /\ sigPlace' \in [Task -> Places]
    BY ZenonT(40), TypedStarts DEF Types, PushFrame, Places
  <1>3. sigFrames' \in [Task -> Seq(Frame)]
    <2>1. [sig |-> sigAt[t].sig, defer |-> sigAt[t].act.defer, mask |-> SavedMask(t)] \in Frame
      BY Zenon, <1>a, <1>b, <1>d DEF Frame
    <2>2. sigFrames[t] \in Seq(Frame)
      BY DEF Types
    <2>3. Append(sigFrames[t], [sig |-> sigAt[t].sig, defer |-> sigAt[t].act.defer,
                                mask |-> SavedMask(t)]) \in Seq(Frame)
      BY <2>1, <2>2
    <2>. QED
      BY Zenon, <2>3 DEF Types, PushFrame
  <1>4. Types'
    BY <1>1, <1>2, <1>3 DEF Types
  <1>5. Chosen'
    <2>1. /\ sigPlace'[t] \in {"check", "user", "force"} /\ sigSender' = sigSender
          /\ \A u \in Task \ {t} : sigPlace'[u] = sigPlace[u] /\ sigAt'[u] = sigAt[u]
      BY DEF Types, PushFrame
    <2>2. sigPlace'[t] = "force" => SIGSEGV \in Sig
      BY ZenonT(40), SignalsAssumption DEF Types, PushFrame
    <2>. QED
      BY <2>1, <2>2 DEF Chosen
  <1>6. Published'
    BY Zenon DEF Published
  <1>. QED
    BY Zenon, <1>4, <1>5, <1>6

\* ForceDefault keeps the types.
LEMMA ForceDefaultSigInv ==
  ASSUME SigInv, NEW t \in Task, ForceDefault(t)
  PROVE  SigInv'
  <1>. USE DEF ForceDefault, Go, queueVars, maskVars, actionVars, processVars, SigInv
  <1>1. SigTypeOK'
    BY WakeMaskTyped DEF Types, SigTypeOK
  <1>x. sigAction' \in [Sig -> Acts]
    BY Zenon DEF Types, Acts
  <1>3. sigPlace' \in [Task -> Places]
    BY Zenon DEF Types, Places
  <1>4. Types'
    BY Zenon, <1>1, <1>x, <1>3 DEF Types
  <1>5. Chosen'
    BY Zenon DEF Types, Chosen
  <1>6. Published'
    BY DEF Published
  <1>. QED
    BY <1>4, <1>5, <1>6

\* ForceQueue keeps the types.
LEMMA ForceQueueSigInv ==
  ASSUME SigInv, NEW t \in Task, ForceQueue(t)
  PROVE  SigInv'
  <1>. USE DEF ForceQueue, Enqueue, Go, queueVars, maskVars, actionVars, processVars, SigInv
  <1>s. SIGSEGV \in Sig
    BY Zenon DEF Chosen
  <1>1. SigTypeOK'
    BY <1>s DEF Types, SigTypeOK
  <1>3. sigPlace' \in [Task -> Places]
    BY Zenon DEF Types, Places
  <1>4. Types'
    BY Zenon, <1>1, <1>3 DEF Types
  <1>5. Chosen'
    BY Zenon DEF Types, Chosen
  <1>6. Published'
    BY DEF Published
  <1>. QED
    BY <1>4, <1>5, <1>6

\* CheckSignals keeps the types.
LEMMA CheckSignalsSigInv ==
  ASSUME SigInv, NEW t \in Task, CheckSignals(t)
  PROVE  SigInv'
  <1>. USE DEF CheckSignals, Go, queueVars, maskVars, actionVars, processVars, SigInv
  <1>1. SigTypeOK'
    BY DEF Types, SigTypeOK
  <1>a. Unmasked(t) \in SUBSET Sig /\ sigAt[t] \in LocalVars
    BY DEF Types, SigTypeOK, Unmasked
  <1>b. Unmasked(t) # {} => Lowest(Unmasked(t)) \in Sig
    BY <1>a, LowestIsMember
  <1>c. [sigAt[t] EXCEPT !.sig = @] = sigAt[t]
    BY <1>a DEF LocalVars
  <1>2. sigAt' \in [Task -> LocalVars]
    BY Zenon, <1>a, <1>b, <1>c, LocalUpdates DEF Types
  <1>3. sigPlace' \in [Task -> Places]
    BY DEF Types, Places
  <1>4. Types'
    BY <1>1, <1>2, <1>3 DEF Types
  <1>5. Chosen'
    BY DEF Types, Chosen
  <1>6. Published'
    BY DEF Published
  <1>. QED
    BY <1>4, <1>5, <1>6

\* Drop keeps the types.
LEMMA DropSigInv ==
  ASSUME SigInv, NEW t \in Task, Drop(t)
  PROVE  SigInv'
  <1>. USE DEF Drop, Clear, Back, Go, queueVars, maskVars, actionVars, processVars, SigInv
  <1>1. SigTypeOK'
    BY DEF Types, SigTypeOK
  <1>2. sigAt' \in [Task -> LocalVars]
    BY TypedStarts DEF Types
  <1>3. sigPlace' \in [Task -> Places]
    BY Zenon DEF Types, Places
  <1>4. Types'
    BY Zenon, <1>1, <1>2, <1>3 DEF Types
  <1>5. Chosen'
    BY Zenon DEF Types, Chosen
  <1>6. Published'
    BY Zenon DEF Published
  <1>. QED
    BY <1>4, <1>5, <1>6

\* The senders keep the types: all they change besides the pending sets is their own record.
LEMMA SenderSigInv ==
  ASSUME SigInv, NEW k \in Sender, SenderStep(k)
  PROVE  SigInv'
  <1>. USE DEF queueVars, maskVars, actionVars, processVars, SigInv
  <1>0. 1 \in Task /\ TaskCount \in Task
    BY SignalsAssumption DEF Task
  <1>k. sigSender[k] \in Job
    BY DEF Types
  <1>1. ASSUME NEW s \in Sig, NEW whole \in BOOLEAN, NEW target \in Task,
               NEW step \in {"scan", "queue"}, Begin(k, s, whole, target, step)
        PROVE  SigInv'
    <2>1. [step |-> step, sig |-> s, target |-> target, index |-> 1, whole |-> whole] \in Job
      BY Zenon, <1>0 DEF Job
    <2>2. Types'
      BY Zenon, <1>1, <2>1 DEF Begin, Types, SigTypeOK
    <2>3. Chosen' /\ Published'
      BY Zenon, <1>1 DEF Begin, Chosen, Types, Published
    <2>. QED
      BY <2>2, <2>3
  <1>2. CASE ScanTarget(k)
    <2>1. sigSender'[k] \in Job
      <3>1. sigSender[k].index # TaskCount => sigSender[k].index + 1 \in Task
        BY Zenon, <1>k, NextTask DEF Job
      <3>. QED
        BY <1>2, <1>0, <1>k, <3>1 DEF ScanTarget, Types, Job
    <2>2. sigSender'[k].sig = sigSender[k].sig /\ sigSender[k].step # "idle"
      BY Zenon, <1>2, <1>k DEF ScanTarget, Types, Job
    <2>3. Types'
      BY <1>2, <2>1 DEF ScanTarget, Types, SigTypeOK
    <2>4. Chosen' /\ Published'
      BY <1>2, <2>2 DEF ScanTarget, Chosen, Types, Published
    <2>. QED
      BY <2>3, <2>4
  <1>a. ASSUME NEW d \in Job
        PROVE  AfterQueue(d) \in Job /\ (AfterQueue(d) = Idle \/ AfterQueue(d).sig = d.sig)
    BY <1>0, TypedStarts DEF AfterQueue, Job
  <1>3. CASE Queue(k)
    <2>1. sigSender[k].sig \in Sig /\ sigSender[k].target \in Task
      BY Zenon, <1>3, <1>k DEF Queue, Chosen, Job
    <2>2. /\ sigSender' \in [Sender -> Job]
          /\ sigSender'[k] = Idle \/ sigSender'[k].sig = sigSender[k].sig
          /\ \A j \in Sender \ {k} : sigSender'[j] = sigSender[j]
      <3>1. [sigSender[k] EXCEPT !.step = "wake"] \in Job
        BY <1>k DEF Job
      <3>2. [sigSender[k] EXCEPT !.step = "wake"].sig = sigSender[k].sig
        BY <1>k DEF Job
      <3>. QED
        BY <1>3, <3>1, <3>2, <1>k, <1>a DEF Queue, Types
    <2>3. Types'
      BY <1>3, <2>1, <2>2 DEF Queue, Enqueue, Types, SigTypeOK
    <2>4. Chosen' /\ Published'
      BY <1>3, <2>1, <2>2 DEF Queue, Chosen, Published, Idle
    <2>. QED
      BY <2>3, <2>4
  <1>4. CASE ChildExit(k)
    <2>1. SIGCHLD \in Sig
      BY <1>4, SignalsAssumption DEF ChildExit
    <2>2. [Idle EXCEPT !.sig = SIGCHLD, !.step = "wake"] \in Job
      BY <1>0, <2>1 DEF Idle, Job
    <2>3. Types'
      BY <1>4, <1>0, <2>1, <2>2, TypedStarts DEF ChildExit, Enqueue, Types, SigTypeOK
    <2>4. Chosen' /\ Published'
      BY <1>4, <2>1 DEF ChildExit, Chosen, Types, Published, Idle
    <2>. QED
      BY <2>3, <2>4
  <1>5. CASE Wake(k)
    <2>1. sigSender[k].sig \in Sig /\ sigSender[k].target \in Task
      BY Zenon, <1>5, <1>k DEF Wake, Chosen, Job
    <2>2. Types'
      BY <1>5, <2>1, <1>k, <1>a DEF Wake, Types, SigTypeOK
    <2>3. Chosen' /\ Published'
      BY <1>5, <2>1, <1>k, <1>a DEF Wake, Chosen, Types, Published, Idle
    <2>. QED
      BY <2>2, <2>3
  <1>6. CASE WakeAll(k)
    <2>1. sigSender[k].sig \in Sig /\ sigSender[k].index \in Task
      BY Zenon, <1>6, <1>k DEF WakeAll, Chosen, Job
    <2>2. sigSender[k].index # TaskCount =>
            [sigSender[k] EXCEPT !.index = sigSender[k].index + 1] \in Job
      BY Zenon, <1>k, <2>1, NextTask DEF Job
    <2>3. [sigSender[k] EXCEPT !.index = sigSender[k].index + 1].sig = sigSender[k].sig
      BY Zenon, <1>k DEF Job
    <2>4. Types'
      BY Zenon, <1>6, <2>1, <2>2, TypedStarts DEF WakeAll, Types, SigTypeOK
    <2>5. Chosen' /\ Published'
      BY Zenon, <1>6, <2>1, <2>3 DEF WakeAll, Chosen, Types, Published, Idle
    <2>. QED
      BY <2>4, <2>5
  <1>. QED
    BY Zenon, <1>0, <1>1, <1>2, <1>3, <1>4, <1>5, <1>6 DEF SenderStep, Kill, SigQueueInfo, Tkill

\* Every step keeps the types.
LEMMA NextSigInv == SigInv /\ [SigNext]_sigVars => SigInv'
  <1>. SUFFICES ASSUME SigInv, [SigNext]_sigVars PROVE SigInv'
    OBVIOUS
  <1>1. ASSUME NEW t \in Task, TaskStep(t) PROVE SigInv'
    BY Zenon, <1>1, TrapSigInv, FaultSigInv, SigProcMaskSigInv, PollEnterSigInv,
       SuspendEnterSigInv, SigActionSigInv, ReadPublishedSigInv, RescanSigInv,
       PollLeaveSigInv, PollBlockSigInv, PollEventSigInv, ResumeSigInv,
       SuspendLookSigInv, BlockSigInv, WaitEnterSigInv, WaitLookSigInv,
       WaitAgainSigInv, WaitExpiresSigInv, ConsumeSigInv, SigReturnSigInv,
       SelectSigInv, ReadActionSigInv, DiscardSigInv, BuildSigInv,
       ForceDefaultSigInv, ForceQueueSigInv, CheckSignalsSigInv, DropSigInv DEF
       TaskStep
  <1>2. ASSUME NEW k \in Sender, SenderStep(k) PROVE SigInv'
    BY <1>2, SenderSigInv
  <1>3. CASE UNCHANGED sigVars
    BY Zenon, <1>3 DEF sigVars, queueVars, maskVars, actionVars, processVars, SigInv, Types, SigTypeOK,
                Chosen, Published
  <1>. QED
    BY <1>1, <1>2, <1>3 DEF SigNext

-----------------------------------------------------------------------------
\* The window before the block of sigsuspend() or sigtimedwait(): on one CPU nothing comes
\* in between, so that a task in it has no signal that would interrupt.
WindowQuiet == ~Smp => \A t \in Task : InWindow(t) => Unmasked(t) \cap wakeMask = {}

InterruptInv == SigInv /\ WindowQuiet /\ SignalsInterrupt

\* What a step of thread t leaves alone when it neither publishes dispositions nor blocks:
\* the other threads and the senders; it goes nowhere to sleep, and the signal it has found
\* to consume or to drop is pending.
OwnStep(t) ==
    /\ SigRuns(t)
    /\ sigPlace[t] \notin {"published", "rescan"}
    /\ \A u \in Task \ {t} : /\ sigPlace'[u] = sigPlace[u] /\ sigAt'[u] = sigAt[u]
                             /\ sigPending'[u] = sigPending[u] /\ sigMask'[u] = sigMask[u]
                             /\ sigAsleep'[u] = sigAsleep[u]
    /\ sigPlace'[t] \notin {"polling", "suspended", "waiting", "published", "rescan"}
    /\ wakeMask' \ {SIGSEGV} \subseteq wakeMask
    /\ sigSender' = sigSender
    /\ sigPlace'[t] \in {"suspend block", "wait block"} =>
         (sigPending'[t] \ sigMask'[t]) \cap wakeMask' = {}
    /\ sigPlace'[t] \in {"consume", "drop"} => sigAt'[t].sig \in sigPending'[t]

\* SA_RESETHAND and force_default_sigsegv() make no signal interrupt that did not before,
\* SIGSEGV apart: a handler that is taken away interrupted already.
LEMMA ResetShrinks ==
  ASSUME SigInv, NEW s \in Sig, sigAction' = [sigAction EXCEPT ![s] = DefaultAct],
         s = SIGSEGV \/ (Handled(sigAction[s]) /\ CanDeliver(s))
  PROVE  WakeMask(sigAction') \ {SIGSEGV} \subseteq wakeMask
  <1>1. wakeMask = WakeMask(sigAction) /\ sigAction \in [Sig -> Acts]
    BY DEF SigInv, Published, Types
  <1>2. \A r \in Sig \ {s} : sigAction'[r] = sigAction[r]
    BY <1>1
  <1>. QED
    BY <1>1, <1>2 DEF WakeMask

\* Most steps of a thread are of that kind.
LEMMA ThreadOwnStep ==
  ASSUME SigInv, NEW t \in Task, TaskStep(t)
  PROVE  \/ OwnStep(t) \/ PollBlock(t) \/ Block(t) \/ ReadPublished(t) \/ Rescan(t)
         \/ \E s \in Sig, act \in Action : SigAction(t, s, act)
  <1>. USE DEF Go, queueVars, maskVars, actionVars, processVars, SigInv, Types, SigTypeOK, OwnStep
  <1>1. ASSUME Trap(t) PROVE OwnStep(t)
    BY Zenon, <1>1 DEF Trap
  <1>2. ASSUME Fault(t) PROVE OwnStep(t)
    BY Zenon, <1>2 DEF Fault, Enqueue, SysEnter
  <1>3. ASSUME NEW m \in MaskChoices, SigProcMask(t, m) PROVE OwnStep(t)
    BY Zenon, <1>3 DEF SigProcMask, SysEnter
  <1>4. ASSUME NEW m \in MaskChoices, PollEnter(t, m) PROVE OwnStep(t)
    BY <1>4 DEF PollEnter, SysEnter
  <1>5. ASSUME NEW m \in MaskChoices, SuspendEnter(t, m) PROVE OwnStep(t)
    BY <1>5 DEF SuspendEnter, SysEnter
  <1>6. ASSUME PollLeave(t) PROVE OwnStep(t)
    BY Zenon, <1>6 DEF PollLeave, Back
  <1>7. ASSUME PollEvent(t) PROVE OwnStep(t)
    BY <1>7 DEF PollEvent
  <1>8. ASSUME Resume(t) PROVE OwnStep(t)
    BY Zenon, <1>8 DEF Resume
  <1>9. ASSUME SuspendLook(t) PROVE OwnStep(t)
    BY ZenonT(40), <1>9 DEF SuspendLook, Back, Interrupting, Unmasked
  <1>10. ASSUME NEW w \in WantChoices, WaitEnter(t, w) PROVE OwnStep(t)
    BY <1>10 DEF WaitEnter, SysEnter
  <1>11. ASSUME WaitLook(t) PROVE OwnStep(t)
    <2>1. sigPending[t] \cap sigAt[t].want \in SUBSET Sig /\ sigAt[t] \in LocalVars
      OBVIOUS
    <2>2. sigPlace'[t] \in {"consume", "drop"} => sigAt'[t].sig \in sigPending'[t]
      <3>1. CASE sigPending[t] \cap sigAt[t].want # {}
        <4>1. Lowest(sigPending[t] \cap sigAt[t].want) \in sigPending[t]
          BY Zenon, <2>1, <3>1, LowestIsMember
        <4>2. sigAt'[t].sig = Lowest(sigPending[t] \cap sigAt[t].want)
          <5>1. sigAt' = [sigAt EXCEPT ![t].sig = Lowest(sigPending[t] \cap sigAt[t].want)]
            BY Zenon, <1>11, <3>1 DEF WaitLook
          <5>. QED
            BY <2>1, <5>1 DEF LocalVars
        <4>. QED
          BY Zenon, <1>11, <4>1, <4>2 DEF WaitLook
      <3>2. CASE sigPending[t] \cap sigAt[t].want = {}
        BY <1>11, <3>2 DEF WaitLook, Back
      <3>. QED
        BY Zenon, <3>1, <3>2
    <2>. QED
      BY ZenonT(40), <1>11, <2>2 DEF WaitLook, Back
  <1>12. ASSUME WaitAgain(t) PROVE OwnStep(t)
    BY Zenon, <1>12 DEF WaitAgain, WaitRetries, Interrupting, Unmasked
  <1>13. ASSUME WaitExpires(t) PROVE OwnStep(t)
    BY <1>13 DEF WaitExpires
  <1>14. ASSUME Consume(t) PROVE OwnStep(t)
    BY Zenon, <1>14 DEF Consume, Clear, Back
  <1>15. ASSUME SigReturn(t) PROVE OwnStep(t)
    BY <1>15 DEF SigReturn
  <1>16. ASSUME Select(t) PROVE OwnStep(t)
    BY ZenonT(40), <1>16 DEF Select
  <1>17. ASSUME ReadAction(t) PROVE OwnStep(t)
    <2>1. sigAt[t].sig \in Sig /\ CanDeliver(sigAt[t].sig)
      BY <1>17 DEF ReadAction, Chosen
    <2>2. wakeMask' \ {SIGSEGV} \subseteq wakeMask
      BY Zenon, <1>17, <2>1, ResetShrinks DEF ReadAction
    <2>. QED
      BY ZenonT(40), <1>17, <2>2 DEF ReadAction, Back
  <1>18. ASSUME Discard(t) PROVE OwnStep(t)
    BY Zenon, <1>18 DEF Discard, Clear, Back
  <1>19. ASSUME Build(t) PROVE OwnStep(t)
    <2>1. CASE sigAt[t].sig \notin Unmasked(t)
      BY Zenon, <1>19, <2>1 DEF Build, Back
    <2>2. CASE sigAt[t].sig \in Unmasked(t)
      <3>1. TakeSignal(t, sigAt[t].sig)
        BY Zenon, <1>19, <2>2 DEF Build
      <3>2. \A u \in Task \ {t} : sigPending'[u] = sigPending[u] /\ sigMask'[u] = sigMask[u]
        BY Zenon, <3>1 DEF TakeSignal, Clear
      <3>3. Back(t, "user") \/ Back(t, "force")
        BY Zenon, <1>19, <2>2 DEF Build, PushFrame
      <3>. QED
        BY Zenon, <1>19, <3>2, <3>3 DEF Build, Back
    <2>. QED
      BY Zenon, <2>1, <2>2
  <1>20. ASSUME ForceDefault(t) PROVE OwnStep(t)
    <2>1. wakeMask' \ {SIGSEGV} \subseteq wakeMask
      BY Zenon, <1>20, ResetShrinks DEF ForceDefault, Chosen
    <2>. QED
      BY Zenon, <1>20, <2>1 DEF ForceDefault
  <1>21. ASSUME ForceQueue(t) PROVE OwnStep(t)
    BY Zenon, <1>21 DEF ForceQueue, Enqueue
  <1>22. ASSUME CheckSignals(t) PROVE OwnStep(t)
    <2>1. Unmasked(t) \in SUBSET Sig /\ sigAt[t] \in LocalVars
      BY Zenon DEF Unmasked
    <2>2. sigPlace'[t] \in {"consume", "drop"} => sigAt'[t].sig \in sigPending'[t]
      <3>1. CASE Unmasked(t) # {} /\ sigFast[t] /\ Dropped(Lowest(Unmasked(t)))
        <4>1. Lowest(Unmasked(t)) \in sigPending[t]
          BY Zenon, <2>1, <3>1, LowestIsMember DEF Unmasked
        <4>2. sigAt'[t].sig = Lowest(Unmasked(t))
          BY <1>22, <2>1, <3>1 DEF CheckSignals, LocalVars
        <4>. QED
          BY <1>22, <4>1, <4>2 DEF CheckSignals
      <3>2. CASE ~(Unmasked(t) # {} /\ sigFast[t] /\ Dropped(Lowest(Unmasked(t))))
        BY <1>22, <3>2 DEF CheckSignals
      <3>. QED
        BY Zenon, <3>1, <3>2
    <2>. QED
      BY <1>22, <2>2 DEF CheckSignals
  <1>23. ASSUME Drop(t) PROVE OwnStep(t)
    BY Zenon, <1>23 DEF Drop, Clear, Back
  <1>. QED
    BY Zenon, <1>1, <1>2, <1>3, <1>4, <1>5, <1>6, <1>7, <1>8, <1>9, <1>10, <1>11,
       <1>12, <1>13, <1>14, <1>15, <1>16, <1>17, <1>18, <1>19, <1>20, <1>21, <1>22,
       <1>23 DEF TaskStep

\* Such a step puts nobody to sleep and takes nobody's waker away.
LEMMA OwnStepInterrupts ==
  ASSUME InterruptInv, NEW t \in Task, OwnStep(t)
  PROVE  WindowQuiet' /\ SignalsInterrupt'
  <1>. USE DEF InterruptInv
  <1>1. WindowQuiet'
    BY Zenon DEF WindowQuiet, OwnStep, SigRuns, InWindow, Unmasked
  <1>2. ASSUME NEW v \in Task, sigAsleep'[v], sigPlace'[v] \in SignalWaits,
               NEW s \in (Unmasked(v)' \cap wakeMask') \ {SIGSEGV}
        PROVE  WillWake(v, s)'
    <2>1. v # t
      BY Zenon, <1>2 DEF OwnStep, SignalWaits
    <2>2. s \in (Unmasked(v) \cap wakeMask) \ {SIGSEGV}
      BY Zenon, <1>2, <2>1 DEF OwnStep, Unmasked
    <2>3. sigAsleep[v] /\ sigPlace[v] \in SignalWaits
      BY Zenon, <1>2, <2>1 DEF OwnStep
    <2>4. WillWake(v, s)
      BY Zenon, <2>2, <2>3 DEF SignalsInterrupt
    <2>. QED
      BY Zenon, <2>4 DEF WillWake, OwnStep
  <1>. QED
    BY Zenon, <1>1, <1>2 DEF SignalsInterrupt

\* Every step of a thread leaves every sleeper its waker.
LEMMA ThreadInterrupts ==
  ASSUME InterruptInv, NEW t \in Task, TaskStep(t)
  PROVE  WindowQuiet' /\ SignalsInterrupt'
  <1>. USE DEF InterruptInv, queueVars, maskVars, actionVars, processVars, Go
  <1>t. /\ sigPlace \in [Task -> Places] /\ sigAt \in [Task -> LocalVars]
        /\ sigAsleep \in [Task -> BOOLEAN]
    BY DEF SigInv, Types, SigTypeOK
  <1>1. CASE OwnStep(t)
    BY <1>1, OwnStepInterrupts
  <1>2. CASE PollBlock(t)
    <2>1. WindowQuiet'
      BY Zenon, <1>2, <1>t DEF PollBlock, WindowQuiet, SigRuns, InWindow, Unmasked
    <2>2. ASSUME NEW v \in Task, sigAsleep'[v], sigPlace'[v] \in SignalWaits,
                 NEW s \in (Unmasked(v)' \cap wakeMask') \ {SIGSEGV}
          PROVE  WillWake(v, s)'
      <3>1. v # t
        BY Zenon, <1>2, <2>2 DEF PollBlock, MayPark, Interrupting, Unmasked
      <3>2. sigAsleep[v] /\ sigPlace[v] \in SignalWaits /\ s \in (Unmasked(v) \cap wakeMask) \ {SIGSEGV}
        BY Zenon, <1>2, <2>2, <3>1, <1>t DEF PollBlock, Unmasked
      <3>3. WillWake(v, s)
        BY Zenon, <3>2 DEF SignalsInterrupt
      <3>. QED
        BY Zenon, <3>3, <1>2, <1>t DEF PollBlock, WillWake
    <2>. QED
      BY Zenon, <2>1, <2>2 DEF SignalsInterrupt
  <1>3. CASE Block(t)
    <2>1. WindowQuiet'
      BY Zenon, <1>3, <1>t DEF Block, WindowQuiet, SigRuns, InWindow, Unmasked
    <2>2. ASSUME NEW v \in Task, sigAsleep'[v], sigPlace'[v] \in SignalWaits,
                 NEW s \in (Unmasked(v)' \cap wakeMask') \ {SIGSEGV}
          PROVE  WillWake(v, s)'
      <3>1. v # t
        <4>1. sigPlace'[t] \in {"suspended", "waiting"}
          BY Zenon, <1>3, <1>t DEF Block
        <4>2. ~Smp => Unmasked(t) \cap wakeMask = {}
          BY Zenon, <1>3 DEF Block, WindowQuiet
        <4>3. Unmasked(t)' = Unmasked(t) /\ wakeMask' = wakeMask
          BY Zenon, <1>3 DEF Block, Unmasked
        <4>4. sigPlace'[t] \in SignalWaits => ~Smp
          BY Zenon, <4>1, SignalsAssumption DEF SignalWaits
        <4>. QED
          BY Zenon, <2>2, <4>1, <4>2, <4>3, <4>4
      <3>2. sigAsleep[v] /\ sigPlace[v] \in SignalWaits /\ s \in (Unmasked(v) \cap wakeMask) \ {SIGSEGV}
        BY Zenon, <1>3, <2>2, <3>1, <1>t DEF Block, Unmasked
      <3>3. WillWake(v, s)
        BY Zenon, <3>2 DEF SignalsInterrupt
      <3>. QED
        BY Zenon, <3>3, <1>3, <1>t DEF Block, WillWake, InWindow
    <2>. QED
      BY Zenon, <2>1, <2>2 DEF SignalsInterrupt
  <1>4. CASE ReadPublished(t)
    <2>1. WindowQuiet'
      BY Zenon, <1>4, <1>t DEF ReadPublished, WindowQuiet, SigRuns, InWindow, Unmasked
    <2>2. ASSUME NEW v \in Task, NEW s \in (Unmasked(v)' \cap wakeMask') \ {SIGSEGV}
          PROVE  WillWake(v, s)'
      <3>1. sigPlace'[t] = "rescan" /\ sigAt'[t].scan = 1 /\ sigAt'[t].wake = wakeMask
        BY <1>4, <1>t DEF ReadPublished, LocalVars
      <3>2. s \in wakeMask /\ 1 <= v
        BY <1>4, <2>2 DEF ReadPublished, Task
      <3>. QED
        BY Zenon, <3>1, <3>2 DEF WillWake
    <2>. QED
      BY Zenon, <2>1, <2>2 DEF SignalsInterrupt
  <1>5. CASE Rescan(t)
    <2>1. WindowQuiet'
      BY <1>5, <1>t DEF Rescan, Back, WindowQuiet, SigRuns, InWindow, Unmasked
    <2>0. sigAt[t].scan \in Task
      BY <1>t DEF LocalVars
    <2>2. ASSUME NEW v \in Task, sigAsleep'[v], sigPlace'[v] \in SignalWaits,
                 NEW s \in (Unmasked(v)' \cap wakeMask') \ {SIGSEGV}
          PROVE  WillWake(v, s)'
      <3>1. sigAsleep[v] /\ (v = sigAt[t].scan => ~Rescanned(v, sigAt[t].wake))
        BY <1>5, <2>2, <2>0, <1>t, Zenon DEF Rescan
      <3>2. v # t /\ sigPlace[v] \in SignalWaits
        BY <1>5, <2>2, <1>t DEF Rescan, Back, SignalWaits
      <3>3. s \in (Unmasked(v) \cap wakeMask) \ {SIGSEGV}
        BY <1>5, <2>2 DEF Rescan, Unmasked
      <3>4. WillWake(v, s)
        BY Zenon, <3>1, <3>2, <3>3 DEF SignalsInterrupt
      <3>5. CASE sigAt[t].scan <= v /\ s \in sigAt[t].wake
        <4>1. sigAt[t].scan # v
          BY Zenon, <3>1, <3>3, <3>5 DEF Rescanned
        <4>2. sigAt[t].scan # TaskCount /\ sigAt[t].scan + 1 <= v
          BY <2>0, <3>5, <4>1, SignalsAssumption DEF Task
        <4>3. /\ sigPlace'[t] = "rescan"
              /\ sigAt'[t].scan = sigAt[t].scan + 1 /\ sigAt'[t].wake = sigAt[t].wake
          BY <1>5, <1>t, <4>2 DEF Rescan, LocalVars
        <4>. QED
          BY Zenon, <3>5, <4>2, <4>3 DEF WillWake
      <3>6. CASE ~(sigAt[t].scan <= v /\ s \in sigAt[t].wake)
        <4>1. /\ \A u \in Task \ {t} : sigPlace'[u] = sigPlace[u] /\ sigAt'[u] = sigAt[u]
              /\ sigSender' = sigSender /\ sigPlace[t] = "rescan"
          BY <1>5, <1>t DEF Rescan, Back
        <4>. QED
          BY Zenon, <3>4, <3>6, <4>1 DEF WillWake
      <3>. QED
        BY Zenon, <3>5, <3>6
    <2>. QED
      BY Zenon, <2>1, <2>2 DEF SignalsInterrupt
  <1>6. ASSUME NEW r \in Sig, NEW act \in Action, SigAction(t, r, act)
        PROVE  WindowQuiet' /\ SignalsInterrupt'
    <2>1. WindowQuiet'
      BY Zenon, <1>6, <1>t DEF SigAction, SysEnter, WindowQuiet, SigRuns, InWindow, Unmasked
    <2>2. sigPlace'[t] = "published"
      BY Zenon, <1>6, <1>t DEF SigAction
    <2>. QED
      BY Zenon, <2>1, <2>2 DEF SignalsInterrupt, WillWake
  <1>. QED
    BY Zenon, <1>1, <1>2, <1>3, <1>4, <1>5, <1>6, ThreadOwnStep

\* And so does every step of a sender.
LEMMA SenderInterrupts ==
  ASSUME InterruptInv, NEW k \in Sender, SenderStep(k)
  PROVE  WindowQuiet' /\ SignalsInterrupt'
  <1>. USE DEF InterruptInv, queueVars, maskVars, actionVars, processVars
  <1>t. /\ sigSender \in [Sender -> Job] /\ sigSender[k] \in Job
        /\ sigPending \in [Task -> SUBSET Sig] /\ sigAsleep \in [Task -> BOOLEAN]
    BY Zenon DEF SigInv, Types, SigTypeOK
  <1>0. SenderRuns /\ UNCHANGED <<sigPlace, sigAt, sigMask, wakeMask>>
    BY Zenon DEF SenderStep, Kill, SigQueueInfo, Tkill, Begin, ScanTarget, Queue, ChildExit, Wake, WakeAll
  <1>1. WindowQuiet'
    BY Zenon, <1>0 DEF WindowQuiet, SenderRuns, InWindow
  \* It suffices that whoever still sleeps has the signal already and keeps its waker, or
  \* that the sender is the waker.
  <1>2. ASSUME /\ \A v \in Task : sigAsleep'[v] => sigAsleep[v]
               /\ \A v \in Task : \A s \in sigPending'[v] \ sigPending[v] :
                      s \in wakeMask \ sigMask[v] =>
                          sigSender'[k].step = "wake" /\ sigSender'[k].target = v
               /\ \A j \in Sender \ {k} : sigSender'[j] = sigSender[j]
               /\ sigSender[k].step = "wake" => ~sigAsleep'[sigSender[k].target]
        PROVE  SignalsInterrupt'
    <2>1. SUFFICES ASSUME NEW v \in Task, sigAsleep'[v], sigPlace'[v] \in SignalWaits,
                          NEW s \in (Unmasked(v)' \cap wakeMask') \ {SIGSEGV}
                   PROVE  WillWake(v, s)'
      BY Zenon DEF SignalsInterrupt
    <2>2. CASE s \in Unmasked(v)
      <3>1. WillWake(v, s)
        BY Zenon, <2>1, <2>2, <1>0, <1>2 DEF SignalsInterrupt
      <3>2. ASSUME NEW j \in Sender, sigSender[j].step = "wake", sigSender[j].target = v
            PROVE  sigSender'[j] = sigSender[j]
        BY Zenon, <3>2, <1>2, <2>1
      <3>. QED
        BY <3>1, <3>2, <1>0 DEF WillWake
    <2>3. CASE s \notin Unmasked(v)
      BY Zenon, <2>3, <1>0, <1>2, <2>1 DEF WillWake, Unmasked
    <2>. QED
      BY <2>2, <2>3
  <1>3. ASSUME NEW s \in Sig, NEW whole, NEW target, NEW step, Begin(k, s, whole, target, step)
        PROVE  SignalsInterrupt'
    BY Zenon, <1>3, <1>2, <1>t DEF Begin
  <1>4. CASE ScanTarget(k)
    BY <1>1, <1>4, <1>2, <1>t DEF ScanTarget
  <1>5. CASE Queue(k)
    <2>0. sigSender[k].target \in Task
      BY Zenon, <1>t DEF Job
    <2>1. /\ \A v \in Task \ {sigSender[k].target} : sigPending'[v] = sigPending[v]
          /\ sigPending'[sigSender[k].target] = sigPending[sigSender[k].target] \cup {sigSender[k].sig}
      BY <1>5, <1>t, <2>0 DEF Queue, Enqueue
    <2>2. sigSender[k].sig \in wakeMask \ sigMask[sigSender[k].target] =>
             sigSender'[k].step = "wake" /\ sigSender'[k].target = sigSender[k].target
      BY Zenon, <1>5, <1>t DEF Queue, Job
    <2>3. (\A j \in Sender \ {k} : sigSender'[j] = sigSender[j]) /\ sigSender[k].step # "wake"
      BY <1>5, <1>t DEF Queue
    <2>4. \A v \in Task : sigAsleep'[v] => sigAsleep[v]
      BY <1>5 DEF Queue
    <2>. QED
      BY Zenon, <1>1, <1>2, <2>1, <2>2, <2>3, <2>4
  <1>6. CASE ChildExit(k)
    <2>1. /\ \A v \in Task \ {1} : sigPending'[v] = sigPending[v]
          /\ \A s \in sigPending'[1] \ sigPending[1] : s = SIGCHLD
      BY <1>6, <1>t DEF ChildExit, Enqueue
    <2>2. SIGCHLD \in wakeMask \ sigMask[1] =>
             sigSender'[k].step = "wake" /\ sigSender'[k].target = 1
      BY <1>6, <1>t DEF ChildExit, Idle
    <2>3. (\A j \in Sender \ {k} : sigSender'[j] = sigSender[j]) /\ sigSender[k].step # "wake"
      BY <1>6, <1>t DEF ChildExit
    <2>4. \A v \in Task : sigAsleep'[v] => sigAsleep[v]
      BY <1>6 DEF ChildExit
    <2>. QED
      BY Zenon, <1>1, <1>2, <2>1, <2>2, <2>3, <2>4
  <1>7. CASE Wake(k)
    <2>1. ~sigAsleep'[sigSender[k].target] /\ \A v \in Task : sigAsleep'[v] => sigAsleep[v]
      BY Zenon, <1>7, <1>t DEF Wake, Job
    <2>. QED
      BY Zenon, <1>1, <1>7, <1>2, <1>t, <2>1 DEF Wake
  <1>8. CASE WakeAll(k)
    <2>1. \A v \in Task : sigAsleep'[v] => sigAsleep[v]
      BY Zenon, <1>8, <1>t DEF WakeAll
    <2>. QED
      BY Zenon, <1>1, <1>8, <1>2, <1>t, <2>1 DEF WakeAll
  <1>. QED
    BY Zenon, <1>1, <1>3, <1>4, <1>5, <1>6, <1>7, <1>8 DEF SenderStep, Kill, SigQueueInfo, Tkill

\* No signal is slept through, for any number of threads and senders: queue_signal_to_task(),
\* the block under the task lock and the rescan of rt_sigaction() always leave a waker.
THEOREM SignalsInterruptAlways == SigSpec => []SignalsInterrupt
  <1>1. SigInit => InterruptInv
    BY Zenon, InitSigInv DEF SigInit, InterruptInv, WindowQuiet, SignalsInterrupt, InWindow
  <1>2. InterruptInv /\ [SigNext]_sigVars => InterruptInv'
    <2>. SUFFICES ASSUME InterruptInv, [SigNext]_sigVars PROVE InterruptInv'
      OBVIOUS
    <2>1. SigInv'
      BY NextSigInv DEF InterruptInv
    <2>2. ASSUME NEW t \in Task, TaskStep(t) PROVE WindowQuiet' /\ SignalsInterrupt'
      BY <2>2, ThreadInterrupts
    <2>3. ASSUME NEW k \in Sender, SenderStep(k) PROVE WindowQuiet' /\ SignalsInterrupt'
      BY <2>3, SenderInterrupts
    <2>4. CASE UNCHANGED sigVars
      <3>. USE <2>4 DEF sigVars, queueVars, maskVars, actionVars, processVars, InterruptInv
      <3>1. WindowQuiet'
        BY Zenon DEF WindowQuiet, InWindow, Unmasked
      <3>2. \A v \in Task : Unmasked(v)' = Unmasked(v) /\ \A s : WillWake(v, s)' = WillWake(v, s)
        BY Zenon DEF Unmasked, WillWake
      <3>3. SignalsInterrupt'
        BY Zenon, <3>2 DEF SignalsInterrupt
      <3>. QED
        BY Zenon, <2>1, <3>1, <3>3
    <2>. QED
      BY <2>1, <2>2, <2>3, <2>4 DEF SigNext, InterruptInv
  <1>. QED
    BY <1>1, <1>2, PTL DEF SigSpec, InterruptInv

-----------------------------------------------------------------------------
QueueInv == SigInv /\ FastExact /\ TakenOnce

\* The pending set of a task and its summary change together.
LEMMA QueuesChangeTogether ==
  ASSUME SigInv, SigNext
  PROVE  \/ UNCHANGED <<sigPending, sigFast>>
         \/ \E t \in Task : \E s : Clear(t, s) \/ Enqueue(t, s)
  <1>1. ASSUME NEW t \in Task, TaskStep(t)
        PROVE  \/ UNCHANGED <<sigPending, sigFast>>
               \/ \E s : Clear(t, s) \/ Enqueue(t, s)
    BY Zenon, <1>1 DEF TaskStep, Trap, Fault, SigProcMask, PollEnter, SuspendEnter, SigAction,
       ReadPublished, Rescan, PollLeave, PollBlock, PollEvent, Resume, SuspendLook, Block,
       WaitEnter, WaitLook, WaitAgain, WaitExpires, Consume, SigReturn, Select, ReadAction,
       Discard, Build, TakeSignal, ForceDefault, ForceQueue, CheckSignals, Drop, queueVars
  <1>2. ASSUME NEW k \in Sender, SenderStep(k)
        PROVE  \/ UNCHANGED <<sigPending, sigFast>>
               \/ \E t \in Task : \E s : Enqueue(t, s)
    <2>1. sigSender[k].target \in Task /\ 1 \in Task
      <3>1. sigSender[k] \in Job
        BY DEF SigInv, Types
      <3>2. 1 \in Task
        BY SignalsAssumption DEF Task
      <3>. QED
        BY Zenon, <3>1, <3>2 DEF Job
    <2>. QED
      BY Zenon, <1>2, <2>1 DEF SenderStep, Kill, SigQueueInfo, Tkill, Begin, ScanTarget, Queue, ChildExit,
                        Wake, WakeAll, queueVars
  <1>. QED
    BY <1>1, <1>2 DEF SigNext

\* A sender only adds to the pending sets.
LEMMA SenderAdds ==
  ASSUME SigInv, NEW k \in Sender, SenderStep(k)
  PROVE  /\ \A t \in Task : sigPending[t] \subseteq sigPending'[t]
         /\ UNCHANGED <<sigPlace, sigAt>>
  <1>1. UNCHANGED <<sigPlace, sigAt>> /\ (UNCHANGED sigPending \/ \E t, s : Enqueue(t, s))
    BY Zenon DEF SenderStep, Kill, SigQueueInfo, Tkill, Begin, ScanTarget, Queue, ChildExit, Wake, WakeAll,
           queueVars
  <1>2. ASSUME NEW u, NEW s, Enqueue(u, s)
        PROVE  \A t \in Task : sigPending[t] \subseteq sigPending'[t]
    BY Zenon, <1>2 DEF Enqueue, SigInv, Types, SigTypeOK
  <1>. QED
    BY Zenon, <1>1, <1>2

\* Every step keeps the summary exact and the chosen signals pending.
LEMMA NextQueueInv == QueueInv /\ [SigNext]_sigVars => QueueInv'
  <1>. SUFFICES ASSUME QueueInv, [SigNext]_sigVars PROVE QueueInv'
    OBVIOUS
  <1>. USE DEF QueueInv
  <1>1. SigInv'
    BY NextSigInv
  <1>2. CASE UNCHANGED sigVars
    BY Zenon, <1>1, <1>2 DEF sigVars, queueVars, FastExact, TakenOnce
  <1>3. CASE SigNext
    <2>1. FastExact'
      <3>. DEFINE Exact(t) == sigFast[t] = (sigPending[t] # {})
      <3>1. /\ sigFast \in [Task -> BOOLEAN] /\ sigPending \in [Task -> SUBSET Sig]
            /\ \A t \in Task : Exact(t)
        BY Zenon DEF SigInv, Types, SigTypeOK, FastExact
      <3>2. ASSUME NEW t \in Task, NEW s, Clear(t, s) PROVE \A u \in Task : Exact(u)'
        BY <3>1, <3>2 DEF Clear
      <3>3. ASSUME NEW t \in Task, NEW s, Enqueue(t, s) PROVE \A u \in Task : Exact(u)'
        BY Zenon, <3>1, <3>3 DEF Enqueue
      <3>4. ASSUME UNCHANGED <<sigPending, sigFast>> PROVE \A u \in Task : Exact(u)'
        BY Zenon, <3>1, <3>4
      <3>5. \A u \in Task : Exact(u)'
        BY Zenon, <1>3, <3>2, <3>3, <3>4, QueuesChangeTogether
      <3>. QED
        BY Zenon, <3>5 DEF FastExact
    <2>2. TakenOnce'
      <3>1. ASSUME NEW t \in Task, TaskStep(t) PROVE TakenOnce'
        <4>1. CASE OwnStep(t)
          BY Zenon, <4>1 DEF OwnStep, TakenOnce
        <4>2. CASE ~OwnStep(t)
          <5>1. /\ sigPending' = sigPending
                /\ sigPlace'[t] \notin {"consume", "drop"}
                /\ \A u \in Task \ {t} : sigPlace'[u] = sigPlace[u] /\ sigAt'[u] = sigAt[u]
            BY ZenonT(40), <3>1, <4>2, ThreadOwnStep
               DEF PollBlock, Block, ReadPublished, Rescan, SigAction, Go, Back, queueVars, SigInv, Types
          <5>. QED
            BY Zenon, <5>1 DEF TakenOnce
        <4>. QED
          BY <4>1, <4>2
      <3>2. ASSUME NEW k \in Sender, SenderStep(k) PROVE TakenOnce'
        BY Zenon, <3>2, SenderAdds DEF TakenOnce
      <3>. QED
        BY <1>3, <3>1, <3>2 DEF SigNext
    <2>. QED
      BY <1>1, <2>1, <2>2
  <1>. QED
    BY <1>2, <1>3

\* No signal is pending when the process starts.
LEMMA InitQueueInv == SigInit => QueueInv
  BY ZenonT(40), InitSigInv DEF SigInit, QueueInv, FastExact, TakenOnce

\* The state of signals is well-formed: the sets and masks the task lock protects hold
\* signals, whatever handlers, frames and resets the threads go through.
THEOREM SignalsTyped == SigSpec => []SigTypeOK
  <1>1. SigInv => SigTypeOK
    BY DEF SigInv, Types
  <1>. QED
    BY InitSigInv, NextSigInv, <1>1, PTL DEF SigSpec

\* signal_pending says exactly whether something is pending, so the fast path of the way
\* back to user mode misses nothing.
THEOREM FastExactAlways == SigSpec => []FastExact
  <1>1. QueueInv => FastExact
    BY DEF QueueInv
  <1>. QED
    BY InitQueueInv, NextQueueInv, <1>1, PTL DEF SigSpec

\* What sigtimedwait() hands to its caller, and what the way back drops, is still pending when
\* it is removed: no signal is taken twice.
THEOREM TakenOnceAlways == SigSpec => []TakenOnce
  <1>1. QueueInv => TakenOnce
    BY DEF QueueInv
  <1>. QED
    BY InitQueueInv, NextQueueInv, <1>1, PTL DEF SigSpec

=============================================================================
