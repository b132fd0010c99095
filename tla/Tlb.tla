-------------------------------- MODULE Tlb --------------------------------
(***************************************************************************)
(* Address-space TLB shootdown (mm/address_space.rs, cpu.rs) over the      *)
(* request protocol of arch/loongarch64/smp.rs.  A CPU that edits a page   *)
(* table publishes a generation, snapshots the CPUs the address space is   *)
(* active on, flushes its own TLB and has the others flush theirs before   *)
(* the old frame is given back.  A CPU that becomes active later must see  *)
(* the generation on its way to user mode.                                 *)
(*                                                                         *)
(* One page per address space; the version of its PTE names the frame.     *)
(***************************************************************************)
EXTENDS Naturals, FiniteSets

CONSTANTS Cpu, Space, NoSpace,
          UserCpu,   \* CPUs that run user threads; the others stay in the kernel
          MaxEdit    \* bound on the edits of one address space

VARIABLES
    pte,       \* the version the page table holds
    freed,     \* versions below this one have given their frame back
    gen,       \* AddressSpaceControl::tlb_generation
    actives,   \* AddressSpaceControl::active_cpus
    editing,   \* the page-table lock of a space is held
    cur,       \* the address space a CPU has entered
    mode,      \* kernel, prepared, decided, user
    tlb,       \* the version a CPU has cached for a space, 0 for none
    obs,       \* observed_address_space_id, observed_tlb_generation
    dirty,     \* return_tlb_dirty
    token,     \* last_return_user_token
    flush,     \* should_flush_tlb_on_return as decided
    job,       \* the invalidation a CPU is in: its step, space, targets left and target at hand
    pending,   \* TLB_PENDING_SOURCES of a target
    remaining, \* TlbRequest::remaining of a source
    reqSeq,    \* TlbRequest::sequence of a source
    doneSeq,   \* TLB_OBSERVED_SEQUENCE
    taken,     \* sources a target has taken and not yet served
    tlbFault

tlbVars == <<pte, freed, gen, actives, editing, cur, mode, tlb, obs, dirty, token, flush,
             job, pending, remaining, reqSeq, doneSeq, taken, tlbFault>>
cpuVars == <<cur, mode, obs, token, flush>>
ipiVars == <<pending, remaining, reqSeq, doneSeq, taken>>

Idle == [step |-> "none", space |-> NoSpace, targets |-> {}, to |-> {}]

TlbInit ==
    /\ pte = [s \in Space |-> 1] /\ freed = [s \in Space |-> 1]
    /\ gen = [s \in Space |-> 1] /\ actives = [s \in Space |-> {}]
    /\ editing = [s \in Space |-> FALSE]
    /\ cur = [c \in Cpu |-> NoSpace] /\ mode = [c \in Cpu |-> "kernel"]
    /\ tlb = [c \in Cpu |-> [s \in Space |-> 0]]
    /\ obs = [c \in Cpu |-> <<NoSpace, 0>>]
    /\ dirty = [c \in Cpu |-> TRUE] /\ token = [c \in Cpu |-> NoSpace]
    /\ flush = [c \in Cpu |-> FALSE]
    /\ job = [c \in Cpu |-> Idle]
    /\ pending = [c \in Cpu |-> {}] /\ remaining = [c \in Cpu |-> {}]
    /\ reqSeq = [c \in Cpu |-> 0]
    /\ doneSeq = [c \in Cpu |-> [d \in Cpu |-> 0]]
    /\ taken = [c \in Cpu |-> {}] /\ tlbFault = "none"

NoEntries == [s \in Space |-> 0]
\* A kernel step of a CPU that is not in the middle of something.
InKernel(c) == mode[c] = "kernel" /\ job[c] = Idle /\ taken[c] = {}
Fault(ok, text) == tlbFault' = IF ok THEN "none" ELSE text

-----------------------------------------------------------------------------
(* A CPU and its address space.                                            *)

\* set_current: enter_cpu.
EnterCpu(c, s) ==
    /\ InKernel(c) /\ cur[c] = NoSpace
    /\ Fault(c \notin actives[s], "CPU entered address space twice")
    /\ actives' = [actives EXCEPT ![s] = @ \cup {c}]
    /\ cur' = [cur EXCEPT ![c] = s]
    /\ UNCHANGED <<pte, freed, gen, editing, mode, tlb, obs, dirty, token, flush, job, ipiVars>>

\* ActiveAddressSpace::drop.
LeaveCpu(c) ==
    /\ InKernel(c) /\ cur[c] # NoSpace
    /\ Fault(c \in actives[cur[c]], "CPU left inactive address space")
    /\ actives' = [actives EXCEPT ![cur[c]] = @ \ {c}]
    /\ cur' = [cur EXCEPT ![c] = NoSpace]
    /\ UNCHANGED <<pte, freed, gen, editing, mode, tlb, obs, dirty, token, flush, job, ipiVars>>

\* prepare_user_return: observe_address_space.
PrepareUserReturn(c) ==
    LET s == cur[c] IN
    /\ InKernel(c) /\ s # NoSpace /\ c \in UserCpu
    /\ Fault(obs[c][1] = s => obs[c][2] <= gen[s], "address-space TLB generation regressed")
    /\ dirty' = [dirty EXCEPT ![c] = @ \/ obs[c] # <<s, gen[s]>>]
    /\ obs' = [obs EXCEPT ![c] = <<s, gen[s]>>]
    /\ mode' = [mode EXCEPT ![c] = "prepared"]
    /\ UNCHANGED <<pte, freed, gen, actives, editing, cur, tlb, token, flush, job, ipiVars>>

\* should_flush_tlb_on_return takes the flag and the token.
DecideFlush(c) ==
    /\ mode[c] = "prepared" /\ taken[c] = {}
    /\ flush' = [flush EXCEPT ![c] = dirty[c] \/ token[c] # cur[c]]
    /\ dirty' = [dirty EXCEPT ![c] = FALSE]
    /\ token' = [token EXCEPT ![c] = cur[c]]
    /\ mode' = [mode EXCEPT ![c] = "decided"]
    /\ UNCHANGED <<pte, freed, gen, actives, editing, cur, tlb, obs, job, ipiVars, tlbFault>>

\* __restore: interrupts are off from here to user mode.
Restore(c) ==
    /\ mode[c] = "decided" /\ taken[c] = {}
    /\ tlb' = IF flush[c] THEN [tlb EXCEPT ![c] = NoEntries] ELSE tlb
    /\ mode' = [mode EXCEPT ![c] = "user"]
    /\ UNCHANGED <<pte, freed, gen, actives, editing, cur, obs, dirty, token, flush, job,
                   ipiVars, tlbFault>>

\* A trap; the CPU may still finish a request it has begun to serve.
Trap(c) ==
    /\ mode[c] = "user" /\ taken[c] = {}
    /\ mode' = [mode EXCEPT ![c] = "kernel"]
    /\ UNCHANGED <<pte, freed, gen, actives, editing, cur, tlb, obs, dirty, token, flush,
                   job, ipiVars, tlbFault>>

\* The hardware fills the TLB from the page table it walks, in any mode.
Fill(c) ==
    /\ cur[c] # NoSpace /\ tlb[c][cur[c]] = 0 /\ c \in UserCpu
    /\ tlb' = [tlb EXCEPT ![c][cur[c]] = pte[cur[c]]]
    /\ UNCHANGED <<pte, freed, gen, actives, editing, cur, mode, obs, dirty, token, flush,
                   job, ipiVars, tlbFault>>

-----------------------------------------------------------------------------
(* invalidate_tlb_range_inner.                                             *)

\* The PTE is edited under the page-table lock of the space.
Edit(c, s) ==
    /\ InKernel(c) /\ ~editing[s] /\ pte[s] < MaxEdit
    /\ pte' = [pte EXCEPT ![s] = @ + 1]
    /\ editing' = [editing EXCEPT ![s] = TRUE]
    /\ job' = [job EXCEPT ![c] = [step |-> "publish", space |-> s, targets |-> {}, to |-> {}]]
    /\ UNCHANGED <<freed, gen, actives, cpuVars, tlb, dirty, ipiVars, tlbFault>>

PublishGeneration(c) ==
    /\ job[c].step = "publish"
    /\ gen' = [gen EXCEPT ![job[c].space] = @ + 1]
    /\ job' = [job EXCEPT ![c].step = "snapshot"]
    /\ UNCHANGED <<pte, freed, actives, editing, cpuVars, tlb, dirty, ipiVars, tlbFault>>

\* Load active_cpus, flush the local TLB, and begin a request for the others.
SnapshotActive(c) ==
    LET s == job[c].space IN
    /\ job[c].step = "snapshot"
    /\ tlb' = IF c \in actives[s] THEN [tlb EXCEPT ![c] = NoEntries] ELSE tlb
    /\ dirty' = [dirty EXCEPT ![c] = @ \/ c \in actives[s]]
    /\ job' = [job EXCEPT ![c].targets = actives[s] \ {c},
                          ![c].step = IF actives[s] \ {c} = {} THEN "done" ELSE "send"]
    /\ reqSeq' = IF actives[s] \ {c} = {} THEN reqSeq ELSE [reqSeq EXCEPT ![c] = @ + 1]
    /\ Fault(remaining[c] = {}, "reused an incomplete TLB request")
    /\ UNCHANGED <<pte, freed, gen, actives, editing, cpuVars, pending, remaining, doneSeq, taken>>

\* Add a target to the request, then the request to the target.
AddTarget(c, d) ==
    /\ job[c].step = "send" /\ d \in job[c].targets
    /\ Fault(d \notin remaining[c], "TLB target was already pending")
    /\ remaining' = [remaining EXCEPT ![c] = @ \cup {d}]
    /\ job' = [job EXCEPT ![c].step = "post", ![c].targets = @ \ {d}, ![c].to = {d}]
    /\ UNCHANGED <<pte, freed, gen, actives, editing, cpuVars, tlb, dirty, pending, reqSeq,
                   doneSeq, taken>>

PostTarget(c) ==
    /\ job[c].step = "post"
    /\ Fault(\A d \in job[c].to : c \notin pending[d], "TLB source was already pending")
    /\ pending' = [d \in Cpu |-> IF d \in job[c].to THEN pending[d] \cup {c} ELSE pending[d]]
    /\ job' = [job EXCEPT ![c].to = {},
                          ![c].step = IF job[c].targets = {} THEN "wait" ELSE "send"]
    /\ UNCHANGED <<pte, freed, gen, actives, editing, cpuVars, tlb, dirty, remaining,
                   reqSeq, doneSeq, taken>>

\* Mutant: the sender goes on once every target has been told.
MutWaitCompletion(c) ==
    /\ job[c].step = "wait" /\ taken[c] = {}
    /\ job' = [job EXCEPT ![c].step = "done"]
    /\ UNCHANGED <<pte, freed, gen, actives, editing, cpuVars, tlb, dirty, ipiVars, tlbFault>>

\* wait_for_tlb_completion.
WaitCompletion(c) ==
    /\ job[c].step = "wait" /\ remaining[c] = {} /\ taken[c] = {}
    /\ job' = [job EXCEPT ![c].step = "done"]
    /\ UNCHANGED <<pte, freed, gen, actives, editing, cpuVars, tlb, dirty, ipiVars, tlbFault>>

\* The old frame is given back and the page-table lock dropped.
Done(c) ==
    LET s == job[c].space IN
    /\ job[c].step = "done"
    /\ freed' = [freed EXCEPT ![s] = pte[s]]
    /\ editing' = [editing EXCEPT ![s] = FALSE]
    /\ job' = [job EXCEPT ![c] = Idle]
    /\ UNCHANGED <<pte, gen, actives, cpuVars, tlb, dirty, ipiVars, tlbFault>>

-----------------------------------------------------------------------------
(* handle_tlb_ipi: from the IPI, or polled by a CPU that waits itself.     *)

\* With interrupts on; a page-table edit has them off until it waits.
Listening(d) == job[d].step \in {"none", "wait"} /\ mode[d] # "decided"

TakeSources(d) ==
    /\ Listening(d) /\ taken[d] = {} /\ pending[d] # {}
    /\ taken' = [taken EXCEPT ![d] = pending[d]]
    /\ pending' = [pending EXCEPT ![d] = {}]
    /\ UNCHANGED <<pte, freed, gen, actives, editing, cpuVars, tlb, dirty, job, remaining,
                   reqSeq, doneSeq, tlbFault>>

\* Flush the range, record the sequence, acknowledge.
Serve(d, c) ==
    /\ c \in taken[d]
    /\ Fault(reqSeq[c] > doneSeq[d][c] /\ d \in remaining[c], "stale LoongArch TLB request")
    /\ tlb' = [tlb EXCEPT ![d] = NoEntries]
    /\ dirty' = [dirty EXCEPT ![d] = TRUE]
    /\ doneSeq' = [doneSeq EXCEPT ![d][c] = reqSeq[c]]
    /\ remaining' = [remaining EXCEPT ![c] = @ \ {d}]
    /\ taken' = [taken EXCEPT ![d] = @ \ {c}]
    /\ UNCHANGED <<pte, freed, gen, actives, editing, cpuVars, job, pending, reqSeq>>

Invalidate(c) ==
    \/ PublishGeneration(c) \/ SnapshotActive(c) \/ PostTarget(c) \/ WaitCompletion(c)
    \/ Done(c) \/ \E d \in Cpu : AddTarget(c, d)

TlbNext ==
    /\ tlbFault = "none"
    /\ \E c \in Cpu :
        \/ Invalidate(c) \/ TakeSources(c) \/ Restore(c) \/ \E d \in Cpu : Serve(c, d)
        \/ LeaveCpu(c) \/ PrepareUserReturn(c) \/ DecideFlush(c) \/ Trap(c) \/ Fill(c)
        \/ \E s \in Space : EnterCpu(c, s) \/ Edit(c, s)

TlbSpec == TlbInit /\ [][TlbNext]_tlbVars
\* A CPU goes on with its shootdown; a pending IPI is taken some time when the
\* interrupts of the CPU are on again and again.
TlbFairness ==
    \A c \in Cpu : /\ WF_tlbVars(tlbFault = "none" /\ Invalidate(c))
                   /\ SF_tlbVars(tlbFault = "none" /\ TakeSources(c))
                   /\ WF_tlbVars(tlbFault = "none" /\ Restore(c))
                   /\ \A d \in Cpu : WF_tlbVars(tlbFault = "none" /\ Serve(c, d))

-----------------------------------------------------------------------------
\* No CPU in user mode translates through an entry whose frame was given back:
\* "an enter ordered before the snapshot is targeted below, while an enter
\* ordered afterward must observe this generation in prepare_user_return()".
NoStaleTranslation ==
    \A c \in Cpu :
        mode[c] = "user" /\ tlb[c][cur[c]] # 0 => tlb[c][cur[c]] >= freed[cur[c]]

\* The assertions of the shootdown and of the generation.
TlbNoFault == tlbFault = "none"

\* Two CPUs that shoot down each other both complete: "Polling incoming requests
\* here closes the cross-shootdown deadlock".
ShootdownEnds == \A c \in Cpu : job[c].step = "wait" ~> job[c].step # "wait"
=============================================================================
