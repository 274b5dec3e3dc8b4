-------------------------- MODULE BreakpointManager --------------------------
(***************************************************************************)
(* The breakpoint half of the i386 debugger backend                        *)
(* (src/backend/server/i386-arch.c): the process-wide breakpoint table of  *)
(* reference-counted BreakpointInfo records, the software patch of the     *)
(* inferior's code bytes (the saved instruction byte swapped with INT3)    *)
(* and the four hardware debug-address registers with the cached control   *)
(* register arch->dr_control and the slot owners arch->dr_regs.            *)
(*                                                                         *)
(* Every operation runs with the manager's lock held, so each is one step. *)
(* Every ptrace call may fail; a failure is a choice of which call of the  *)
(* handler fails, bounded by MaxFailures.                                  *)
(***************************************************************************)
EXTENDS Integers, FiniteSets, FiniteSetsExt, SequencesExt

CONSTANTS
  Addrs,        \* code addresses a breakpoint may be set on (integers)
  NumSlots,     \* DR_NADDR, the number of hardware debug-address registers
  HwTypes,      \* HardwareBreakpointType values a caller may ask for
  MaxIds,       \* bound on ids handed out by the manager
  MaxRefs,      \* bound on a breakpoint's reference count
  MaxFailures   \* bound on failing ptrace calls in a behaviour

ASSUME Addrs \subseteq Nat \ {0} /\ Addrs # {}
ASSUME NumSlots \in Nat \ {0}
ASSUME "execute" \in HwTypes
ASSUME MaxIds \in Nat \ {0} /\ MaxRefs \in Nat \ {0} /\ MaxFailures \in Nat

\* The byte values the model tells apart: the program's own byte at an
\* address, the INT3 opcode 0xcc, and the zero of a fresh g_new0 record.
ORIG == "orig"
INT3 == "int3"
ZERO == "zero"
Bytes == {ORIG, INT3, ZERO}

Slots  == 0..(NumSlots - 1)
Ids    == 1..MaxIds
NoSlot == -1
Errors == {"NONE", "DR_OCCUPIED", "NO_SUCH_BREAKPOINT", "IO", "RECURSIVE_CALL",
           "UNKNOWN_ERROR"}
DrCtl  == [en: BOOLEAN, rw: HwTypes]

BreakpointInfo ==
  [id: Ids, address: Addrs, refcount: (1 - MaxFailures)..MaxRefs,
   enabled: BOOLEAN, is_hardware_bpt: BOOLEAN, dr_index: Slots \cup {NoSlot},
   saved_insn: Bytes, type: HwTypes \cup {"none"}]

VARIABLES
  bpts,        \* the manager's table: a set of BreakpointInfo records
  next_id,     \* last id returned by mono_debugger_breakpoint_manager_get_next_id
  mem,         \* the inferior's code byte at each address of Addrs
  dr_regs,     \* arch->dr_regs: id of the breakpoint owning a slot, 0 if free
  dr_control,  \* arch->dr_control: the debugger's copy of DR7, per slot
  inf_dr,      \* the inferior's debug-address registers DR0..DR3 (0 = none)
  inf_dr7,     \* the inferior's DR7 as last written by ptrace
  failures,    \* ptrace calls that have failed so far
  result       \* return of the last operation: [op, err, id]

bpmVars == <<bpts, next_id, mem, dr_regs, dr_control, inf_dr, inf_dr7,
             failures, result>>
drVars  == <<dr_regs, dr_control, inf_dr, inf_dr7>>

BpmInit ==
  /\ bpts = {}
  /\ next_id = 0
  /\ mem = [a \in Addrs |-> ORIG]
  /\ dr_regs = [s \in Slots |-> 0]
  /\ dr_control = [s \in Slots |-> [en |-> FALSE, rw |-> "execute"]]
  /\ inf_dr = [s \in Slots |-> 0]
  /\ inf_dr7 = dr_control
  /\ failures = 0
  /\ result = [op |-> "none", err |-> "NONE", id |-> 0]

(***************************************************************************)
(* The manager's table (breakpoints.c, outside src/).                      *)
(***************************************************************************)
Lookup(a)     == {b \in bpts : b.address = a}
LookupById(i) == {b \in bpts : b.id = i}
Replace(b, nb) == (bpts \ {b}) \cup {nb}

(***************************************************************************)
(* Failure injection: f names the ptrace call of a handler that fails      *)
(* (0: none).  A handler making n calls fails iff 1 <= f <= n.             *)
(***************************************************************************)
FailPoints == IF failures < MaxFailures THEN 0..2 ELSE {0}
IoFails(f, n) == f # 0 /\ f <= n
CountFailure(failed) == failures' = failures + (IF failed THEN 1 ELSE 0)

(***************************************************************************)
(* do_enable: program the debug register of a hardware breakpoint, or save *)
(* the code byte and write INT3 for a software one.  The cached DR7 is     *)
(* changed before the first ptrace call, so a failure leaves it ahead of   *)
(* the inferior's.  The trigger type is always DR_RW_EXECUTE.              *)
(***************************************************************************)
DoEnableErr(b, f) == IF ~b.enabled /\ IoFails(f, 2) THEN "IO" ELSE "NONE"

DoEnableInsn(b, f) ==
  IF b.enabled \/ b.dr_index # NoSlot \/ f = 1 THEN b.saved_insn
  ELSE mem[b.address]

DoEnable(b, f) ==
  LET s   == b.dr_index
      ctl == [dr_control EXCEPT ![s] = [en |-> TRUE, rw |-> "execute"]]
  IN \/ /\ b.enabled
        /\ UNCHANGED <<mem, drVars, failures>>
     \/ /\ ~b.enabled /\ s # NoSlot
        /\ dr_control' = ctl
        /\ inf_dr' = IF f = 1 THEN inf_dr ELSE [inf_dr EXCEPT ![s] = b.address]
        /\ inf_dr7' = IF f = 0 THEN ctl ELSE inf_dr7
        /\ dr_regs' = IF f = 0 THEN [dr_regs EXCEPT ![s] = b.id] ELSE dr_regs
        /\ CountFailure(IoFails(f, 2))
        /\ UNCHANGED mem
     \/ /\ ~b.enabled /\ s = NoSlot
        /\ mem' = IF f = 0 THEN [mem EXCEPT ![b.address] = INT3] ELSE mem
        /\ CountFailure(IoFails(f, 2))
        /\ UNCHANGED drVars

(***************************************************************************)
(* do_disable: clear the slot's enable bit and debug register and free the *)
(* slot, or write the saved byte back.  It does not touch b.enabled.       *)
(***************************************************************************)
DisableCalls(b) == IF b.dr_index # NoSlot THEN 2 ELSE 1
DoDisableErr(b, f) ==
  IF b.enabled /\ IoFails(f, DisableCalls(b)) THEN "IO" ELSE "NONE"

\* Mutants of DoDisable: the saved byte is not written back; the slot's
\* cached DR7 bit and owner are cleared but neither ptrace call is made.
DoDisableNoRestore(b, f) ==
  LET s == b.dr_index IN
  \/ ~b.enabled /\ UNCHANGED <<mem, drVars, failures>>
  \/ /\ b.enabled /\ s # NoSlot
     /\ dr_control' = [dr_control EXCEPT ![s].en = FALSE]
     /\ inf_dr' = [inf_dr EXCEPT ![s] = 0]
     /\ inf_dr7' = [dr_control EXCEPT ![s].en = FALSE]
     /\ dr_regs' = [dr_regs EXCEPT ![s] = 0]
     /\ UNCHANGED <<mem, failures>>
  \/ b.enabled /\ s = NoSlot /\ UNCHANGED <<mem, drVars, failures>>

DoDisableSkipsSetDr(b, f) ==
  LET s == b.dr_index IN
  \/ ~b.enabled /\ UNCHANGED <<mem, drVars, failures>>
  \/ /\ b.enabled /\ s # NoSlot
     /\ dr_control' = [dr_control EXCEPT ![s].en = FALSE]
     /\ dr_regs' = [dr_regs EXCEPT ![s] = 0]
     /\ UNCHANGED <<mem, inf_dr, inf_dr7, failures>>
  \/ /\ b.enabled /\ s = NoSlot
     /\ mem' = [mem EXCEPT ![b.address] = b.saved_insn]
     /\ UNCHANGED <<drVars, failures>>

DoDisable(b, f) ==
  LET s   == b.dr_index
      ctl == [dr_control EXCEPT ![s].en = FALSE]
  IN \/ /\ ~b.enabled
        /\ UNCHANGED <<mem, drVars, failures>>
     \/ /\ b.enabled /\ s # NoSlot
        /\ dr_control' = ctl
        /\ inf_dr' = IF f = 1 THEN inf_dr ELSE [inf_dr EXCEPT ![s] = 0]
        /\ inf_dr7' = IF f = 0 THEN ctl ELSE inf_dr7
        /\ dr_regs' = IF f = 0 THEN [dr_regs EXCEPT ![s] = 0] ELSE dr_regs
        /\ CountFailure(IoFails(f, 2))
        /\ UNCHANGED mem
     \/ /\ b.enabled /\ s = NoSlot
        /\ mem' = IF f = 1 THEN mem ELSE [mem EXCEPT ![b.address] = b.saved_insn]
        /\ CountFailure(IoFails(f, 1))
        /\ UNCHANGED drVars

Result(op, err, id) == result' = [op |-> op, err |-> err, id |-> id]

NewBreakpoint(a, hw, idx, t) ==
  [id |-> next_id + 1, address |-> a, refcount |-> 1, enabled |-> FALSE,
   is_hardware_bpt |-> hw, dr_index |-> idx, saved_insn |-> ZERO, type |-> t]

\* A freshly allocated record is enabled and put in the table when do_enable
\* succeeds; its id is consumed either way.
AddIfEnabled(nb, f) ==
  /\ next_id' = next_id + 1
  /\ DoEnable(nb, f)
  /\ bpts' = IF DoEnableErr(nb, f) = "NONE"
               THEN bpts \cup {[nb EXCEPT !.enabled = TRUE,
                                          !.saved_insn = DoEnableInsn(nb, f)]}
               ELSE bpts

(***************************************************************************)
(* server_ptrace_insert_breakpoint                                         *)
(***************************************************************************)
InsertBreakpointOnHardware(a) ==
  /\ \E b \in Lookup(a) : b.is_hardware_bpt
  /\ Result("insert", "DR_OCCUPIED", 0)
  /\ UNCHANGED <<bpts, next_id, mem, drVars, failures>>

InsertBreakpointShared(a) ==
  \E b \in Lookup(a) :
    /\ ~b.is_hardware_bpt
    /\ b.refcount < MaxRefs
    /\ bpts' = Replace(b, [b EXCEPT !.refcount = @ + 1])
    /\ Result("insert", "NONE", b.id)
    /\ UNCHANGED <<next_id, mem, drVars, failures>>

InsertBreakpointNew(a) ==
  /\ Lookup(a) = {}
  /\ next_id < MaxIds
  /\ \E f \in FailPoints :
       LET nb == NewBreakpoint(a, FALSE, NoSlot, "none") IN
       /\ AddIfEnabled(nb, f)
       /\ Result("insert", DoEnableErr(nb, f),
                 IF DoEnableErr(nb, f) = "NONE" THEN nb.id ELSE 0)

InsertBreakpoint(a) ==
  \/ InsertBreakpointOnHardware(a)
  \/ InsertBreakpointShared(a)
  \/ InsertBreakpointNew(a)

(***************************************************************************)
(* find_free_hw_register and server_ptrace_insert_hw_breakpoint.  An       *)
(* existing record at the address, of either kind, is shared.              *)
(***************************************************************************)
\* Mutant: the scan stops one slot short of DR_NADDR.
FreeHwRegistersMissLast == {i \in Slots : dr_regs[i] = 0 /\ i < NumSlots - 1}

FreeHwRegisters == {i \in Slots : dr_regs[i] = 0}

InsertHwBreakpointShared(t, a) ==
  \E b \in Lookup(a) :
    /\ b.refcount < MaxRefs
    /\ bpts' = Replace(b, [b EXCEPT !.refcount = @ + 1])
    /\ Result("insert_hw", "NONE", b.id)
    /\ UNCHANGED <<next_id, mem, drVars, failures>>

InsertHwBreakpointNoSlot(t, a) ==
  /\ Lookup(a) = {}
  /\ FreeHwRegisters = {}
  /\ Result("insert_hw", "DR_OCCUPIED", 0)
  /\ UNCHANGED <<bpts, next_id, mem, drVars, failures>>

InsertHwBreakpointNew(t, a) ==
  /\ Lookup(a) = {}
  /\ FreeHwRegisters # {}
  /\ next_id < MaxIds
  /\ \E f \in FailPoints :
       LET nb == NewBreakpoint(a, TRUE, Min(FreeHwRegisters), t) IN
       /\ AddIfEnabled(nb, f)
       /\ Result("insert_hw", DoEnableErr(nb, f),
                 IF DoEnableErr(nb, f) = "NONE" THEN nb.id ELSE 0)

InsertHwBreakpoint(t, a) ==
  \/ InsertHwBreakpointShared(t, a)
  \/ InsertHwBreakpointNoSlot(t, a)
  \/ InsertHwBreakpointNew(t, a)

(***************************************************************************)
(* server_ptrace_remove_breakpoint.  The decrement stays when do_disable   *)
(* fails, and the record stays in the table.                               *)
(***************************************************************************)
NoSuchBreakpoint(op, i) ==
  /\ LookupById(i) = {}
  /\ Result(op, "NO_SUCH_BREAKPOINT", 0)
  /\ UNCHANGED <<bpts, next_id, mem, drVars, failures>>

\* Mutant: the last reference is dropped as if shared (>= for >).
RemoveBreakpointSharedOffByOne(i) ==
  \E b \in LookupById(i) :
    /\ b.refcount - 1 >= 0
    /\ bpts' = Replace(b, [b EXCEPT !.refcount = @ - 1])
    /\ Result("remove", "NONE", i)
    /\ UNCHANGED <<next_id, mem, drVars, failures>>

RemoveBreakpointShared(i) ==
  \E b \in LookupById(i) :
    /\ b.refcount - 1 > 0
    /\ bpts' = Replace(b, [b EXCEPT !.refcount = @ - 1])
    /\ Result("remove", "NONE", i)
    /\ UNCHANGED <<next_id, mem, drVars, failures>>

RemoveBreakpointLast(i) ==
  \E b \in LookupById(i), f \in FailPoints :
    /\ b.refcount - 1 <= 0
    /\ DoDisable(b, f)
    /\ bpts' = IF DoDisableErr(b, f) = "NONE" THEN bpts \ {b}
               ELSE Replace(b, [b EXCEPT !.refcount = @ - 1])
    /\ Result("remove", DoDisableErr(b, f), i)
    /\ UNCHANGED next_id

RemoveBreakpoint(i) ==
  \/ NoSuchBreakpoint("remove", i)
  \/ RemoveBreakpointShared(i)
  \/ RemoveBreakpointLast(i)

(***************************************************************************)
(* server_ptrace_enable_breakpoint / server_ptrace_disable_breakpoint: the *)
(* enabled flag is set from the request whatever do_enable/do_disable      *)
(* returned.                                                               *)
(***************************************************************************)
EnableBreakpoint(i) ==
  \/ NoSuchBreakpoint("enable", i)
  \/ \E b \in LookupById(i), f \in FailPoints :
       /\ DoEnable(b, f)
       /\ bpts' = Replace(b, [b EXCEPT !.enabled = TRUE,
                                       !.saved_insn = DoEnableInsn(b, f)])
       /\ Result("enable", DoEnableErr(b, f), i)
       /\ UNCHANGED next_id

DisableBreakpoint(i) ==
  \/ NoSuchBreakpoint("disable", i)
  \/ \E b \in LookupById(i), f \in FailPoints :
       /\ DoDisable(b, f)
       /\ bpts' = Replace(b, [b EXCEPT !.enabled = FALSE])
       /\ Result("disable", DoDisableErr(b, f), i)
       /\ UNCHANGED next_id

(***************************************************************************)
(* server_ptrace_init_after_fork runs do_disable on every hardware         *)
(* breakpoint, in the order of the manager's array, and leaves the records *)
(* enabled.  x86_arch_remove_hardware_breakpoints clears every slot in     *)
(* turn without looking at the table.  Both ignore the ptrace results, so  *)
(* a failure stops nothing but the step it hits.  A sweep is a fold over   *)
(* the slots (or records) of a state [ctl, regs, dr, dr7, n]: the cached   *)
(* DR7, the owners, the inferior's address registers and DR7, and the      *)
(* number of ptrace calls made; f is the number of the call that fails.    *)
(***************************************************************************)
BulkFailPoints(n) == IF failures < MaxFailures THEN 0..n ELSE {0}

Sweep0 == [ctl |-> dr_control, regs |-> dr_regs, dr |-> inf_dr, dr7 |-> inf_dr7, n |-> 0]

\* One iteration of the loop at 781-788: nothing returns early.
ClearSlotStep(st, s, f) ==
  LET ctl == [st.ctl EXCEPT ![s].en = FALSE] IN
  [ctl  |-> ctl,
   regs |-> [st.regs EXCEPT ![s] = 0],
   dr   |-> IF f = st.n + 1 THEN st.dr ELSE [st.dr EXCEPT ![s] = 0],
   dr7  |-> IF f = st.n + 2 THEN st.dr7 ELSE ctl,
   n    |-> st.n + 2]

\* do_disable of an enabled hardware breakpoint: it returns at the first
\* failing call, and the owner is cleared only after both succeeded.
DoDisableStep(st, b, f) ==
  LET s   == b.dr_index
      ctl == [st.ctl EXCEPT ![s].en = FALSE]
      err == f \in {st.n + 1, st.n + 2}
  IN IF ~b.enabled THEN st
     ELSE [ctl  |-> ctl,
           regs |-> IF err THEN st.regs ELSE [st.regs EXCEPT ![s] = 0],
           dr   |-> IF f = st.n + 1 THEN st.dr ELSE [st.dr EXCEPT ![s] = 0],
           dr7  |-> IF err THEN st.dr7 ELSE ctl,
           n    |-> st.n + 2]

SweepDone(st, f) ==
  /\ dr_control' = st.ctl
  /\ dr_regs' = st.regs
  /\ inf_dr' = st.dr
  /\ inf_dr7' = st.dr7
  /\ CountFailure(f # 0 /\ f <= st.n)

InitAfterFork ==
  LET hw == {b \in bpts : b.dr_index # NoSlot} IN
  \E order \in SetToSeqs(hw), f \in BulkFailPoints(2 * Cardinality(hw)) :
    /\ SweepDone(FoldLeft(LAMBDA st, b : DoDisableStep(st, b, f), Sweep0, order), f)
    /\ Result("init_after_fork", "NONE", 0)
    /\ UNCHANGED <<bpts, next_id, mem>>

RemoveHardwareBreakpoints ==
  \E f \in BulkFailPoints(2 * NumSlots) :
    LET slots == [i \in 1..NumSlots |-> i - 1] IN
    /\ SweepDone(FoldLeft(LAMBDA st, s : ClearSlotStep(st, s, f), Sweep0, slots), f)
    /\ Result("remove_hw_all", "NONE", 0)
    /\ UNCHANGED <<bpts, next_id, mem>>

BpmNext ==
  \/ \E a \in Addrs : InsertBreakpoint(a)
  \/ \E t \in HwTypes, a \in Addrs : InsertHwBreakpoint(t, a)
  \/ \E i \in Ids : RemoveBreakpoint(i) \/ EnableBreakpoint(i) \/ DisableBreakpoint(i)
  \/ InitAfterFork
  \/ RemoveHardwareBreakpoints

BpmSpec == BpmInit /\ [][BpmNext]_bpmVars

(***************************************************************************)
(* x86_arch_remove_breakpoints_from_target_memory: the buffer read from    *)
(* [start, start+size) with the saved byte put back under every enabled    *)
(* software breakpoint.  The result's domain holds every offset written,   *)
(* so a write past the buffer shows as a larger domain.                    *)
(***************************************************************************)
MemAt(x) == IF x \in Addrs THEN mem[x] ELSE ORIG

RemoveBreakpointsFromTargetMemory(start, size) ==
  LET T   == {b \in bpts : ~(b.is_hardware_bpt \/ ~b.enabled)
                           /\ ~(b.address < start \/ b.address >= start + size)}
      Off == {b.address - start : b \in T}
  IN [o \in (0..(size - 1)) \cup Off |->
        IF \E b \in T : b.address - start = o
          THEN (CHOOSE b \in T : b.address - start = o).saved_insn
          ELSE MemAt(start + o)]

(***************************************************************************)
(* Properties                                                              *)
(***************************************************************************)
TypeOK ==
  /\ bpts \subseteq BreakpointInfo
  /\ next_id \in 0..MaxIds
  /\ mem \in [Addrs -> Bytes]
  /\ dr_regs \in [Slots -> 0..MaxIds]
  /\ dr_control \in [Slots -> DrCtl] /\ inf_dr7 \in [Slots -> DrCtl]
  /\ inf_dr \in [Slots -> Addrs \cup {0}]
  /\ failures \in 0..MaxFailures
  /\ result \in [op: STRING, err: Errors, id: 0..MaxIds]

\* A memory read presented to the user never shows a debugger INT3 and never
\* reaches past its buffer: for every range, the buffer that
\* remove_breakpoints_from_target_memory returns is the program's own code.
\* This needs the INT3 patches in memory (insert, enable, disable, remove) and
\* the saved bytes in the table to agree after any sequence of operations.
UserViewIsOriginal ==
  \A start \in Addrs, size \in 0..Cardinality(Addrs) :
    LET buf == RemoveBreakpointsFromTargetMemory(start, size) IN
    /\ DOMAIN buf = 0..(size - 1)
    /\ \A o \in DOMAIN buf : buf[o] = ORIG

\* A debug register that can fire is reported as an enabled breakpoint:
\* when the inferior's DR7 arms slot s on a code address, arch->dr_regs[s]
\* (the id x86_arch_child_stopped reports for a watch hit at 420-430) names
\* a tracked breakpoint at that address which the user has not disabled.
\* Disable, remove, init_after_fork and remove_hardware_breakpoints each
\* clear the slot in the cache before the ptrace calls that disarm it.
WatchHitReportsEnabledBreakpoint ==
  \A s \in Slots :
    (inf_dr7[s].en /\ inf_dr[s] \in Addrs) =>
      \E b \in bpts : b.id = dr_regs[s] /\ b.address = inf_dr[s] /\ b.enabled

\* Spec, data model: a hardware breakpoint's slot index is unique among the
\* enabled hardware breakpoints (do_enable re-arms b.dr_index without
\* checking whether the slot was given away meanwhile).
HwSlotsDistinct ==
  \A b1, b2 \in bpts :
    (b1 # b2 /\ b1.is_hardware_bpt /\ b2.is_hardware_bpt /\ b1.enabled /\ b2.enabled)
      => b1.dr_index # b2.dr_index

\* Spec, data model: a breakpoint is tracked only while its reference count
\* is at least 1 (remove_breakpoint decrements before do_disable, and keeps
\* the decrement when do_disable fails).
TrackedRefcountPositive ==
  \A b \in bpts : b.refcount >= 1

\* Spec, insert_hardware: insert_hw fails with HardwareSlotOccupied only when
\* none of the DR_NADDR slots is free, and removing one frees it again.  A refusal happens only when every slot is
\* armed for an enabled hardware breakpoint that owns it, whatever sequence
\* of disable, remove, init_after_fork and remove_hardware_breakpoints freed
\* and reused slots before (find_free_hw_register reads only arch->dr_regs).
HwInsertRefusedOnlyWhenFull ==
  [][(result'.op = "insert_hw" /\ result'.err = "DR_OCCUPIED") =>
       \A s \in Slots : \E b \in bpts :
         b.is_hardware_bpt /\ b.enabled /\ b.dr_index = s /\ dr_regs[s] = b.id]_bpmVars
====
