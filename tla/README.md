# TLA+ models of the i386 debugger backend

This directory checks `src/backend/server/i386-arch.c` with TLC. That file is the
i386 backend of a native debugger. It has three parts:

- **Breakpoint Manager.** This part manages the breakpoint table. Each record is a
  reference-counted `BreakpointInfo`, looked up by address or by id. A software
  breakpoint is an INT3 patched into the code, with the displaced byte kept in
  `saved_insn`. A hardware breakpoint sits in one of the `DR_NADDR` debug-address
  registers. Its slot owner is kept in `arch->dr_regs` and its DR7 bits are cached
  in `arch->dr_control`. All table work runs under
  `mono_debugger_breakpoint_manager_lock`, and the manager is shared by every
  thread of the inferior.
- **Call Injection Engine.** Four builders (`call_method`, `call_method_1`,
  `call_method_2`, `call_method_invoke`) write a stub below the inferior's stack
  pointer, redirect its registers and resume it. The stub ends in an INT3, so
  the inferior traps back when the called method returns.
  - The two simple conventions use the single top-level slot: `saved_regs`,
    `call_address`, `callback_argument` and `saved_signal`.
  - The two runtime-invoke conventions push a `RuntimeInvokeData` on
    `rti_stack`.
  - `abort_invoke` unwinds the innermost runtime-invoke.
  - Each builder saves the pending signal `inferior->last_signal` and clears it.
- **Stop Event Classifier.** `x86_arch_child_stopped` runs on every stop. It
  first refreshes the register cache (`x86_arch_get_registers`). It then decides,
  in a fixed order, which of these happened: SIGSTOP, the runtime's
  notification breakpoint, a debug-register hit, one of our software
  breakpoints, the return of the innermost runtime-invoke, some other stop (a
  signal, or a foreign INT3), or the return of the top-level call. The last two
  kinds of return restore the caller's registers and pending signal.

The parts interact in three ways:

1. The classifier reads the breakpoint table and the debug-status register.
2. Call returns are recognised by comparing EIP with the addresses the call
   builders recorded.
3. Breakpoints fire inside injected methods.

## Modules

| Module | Models | Composes |
|---|---|---|
| `BreakpointManager` | every state-changing breakpoint operation and the memory view the user gets | - |
| `I386Arch` | register cache with the upper layer's register commands, call builders, `abort_invoke`, the classifier, and the inferior as environment | `EXTENDS BreakpointManager`; `INSTANCE CallFrames` |
| `CallFrames` | the contract of the call-injection engine: one frame stack, as spec.md section 9 proposes | - |
| `MC_BreakpointManager`, `MC_I386Arch` | constant definitions for TLC | - |

### BreakpointManager

- **State.** The state is the table `bpts`, a set of records with the fields of
  `BreakpointInfo`. Alongside it are `next_id`, the inferior's code byte `mem[a]`
  at each address, `dr_regs`, `dr_control`, the inferior's address registers
  `inf_dr` and DR7 `inf_dr7`, a failure counter, and the last return value
  `result`.
- **Operations.** There is one action per operation:
  `InsertBreakpoint`, `InsertHwBreakpoint`, `RemoveBreakpoint`,
  `EnableBreakpoint`, `DisableBreakpoint`, `InitAfterFork` and
  `RemoveHardwareBreakpoints`. Each is split into sub-actions, one per exit of
  the C function.
- **`do_enable` / `do_disable`.** These are the operators `DoEnable` and
  `DoDisable`, with a failure point `f` that names which ptrace call fails:
  - 1: `set_dr(addr)` or the memory read;
  - 2: `set_dr(DR_CONTROL)` or the memory write.

  The cached DR7 is updated before the calls, as in the code.
- **Sweeps.** `InitAfterFork` and `RemoveHardwareBreakpoints` ignore every
  ptrace result (804, 784-785) and go on with the next slot. Each is a
  `FoldLeft` of a per-slot step over a record `[ctl, regs, dr, dr7, n]`, and
  `f` numbers the one call of the sweep that fails:
  - `ClearSlotStep` is one iteration of the loop at 781-788;
  - `DoDisableStep` is `do_disable`, returning at its first failing call;
  - `init_after_fork` walks the manager's array, whose order the model
    leaves open (`SetToSeqs`).

  With one failure, a sweep alone never leaves a slot armed that a watch hit
  would misreport. Either a later DR7 write of the same sweep disarms the
  slot, or the slot keeps its owner. This was checked once with handler
  failures turned off and `MaxFailures = 1` (2.47M states). Two failures in
  one sweep do not fit a five-minute run.
- **Failures.** Failures are bounded by `MaxFailures`.
- **Outside `src/`.** The table itself (`breakpoints.c`) is not under `src/`,
  so `Lookup`, `LookupById` and `Replace` are modelled from spec.md.
- **Memory view.** `RemoveBreakpointsFromTargetMemory(start, size)` is the buffer
  that `x86_arch_remove_breakpoints_from_target_memory` returns.

### I386Arch

- **Registers.** Registers are abstracted to `[pc, sp]`, with the FP registers
  folded in.
- **Inferior status.** The inferior thread is `idle` (stopped and classified),
  `running`, or `stopped` (waited for, not yet classified).
- **Call builders.** Each builder computes `new_esp` and the trap address from
  the stub layout in the code:
  - `call_method`: 26 bytes, trap at new_esp+26;
  - `call_method_1`: 21 bytes plus the string, trap at new_esp+21;
  - `call_method_2`: 57 bytes, trap at new_esp+57;
  - `call_method_invoke`: 25 + (n+3)*4 + blob bytes, trap at new_esp+25.

  A failure point selects a failed stub write (ignored by `call_method` and
  `call_method_2`, returned by the other two after the state was changed) or a
  failed `set_registers`.
- **Classifier.** Each exit of `x86_arch_child_stopped` is an action
  (`StopInterrupted` ... `StopCallReturn`). Each action's guard is the negation
  of the earlier exits' conditions and the condition of its own exit.
- **Environment.** While the thread runs, it may stop:
  - on an INT3 at a breakpoint address (`EnvTrap`);
  - on an armed debug register (`EnvWatchHit`);
  - at the notification address;
  - on a signal (`EnvSignal`), where it was resumed or just after one of the
    one-byte instructions at `Addrs`;
  - at the INT3 of the innermost live injected call (`EnvReturn`).

  `Continue` resumes it.
- **Register commands.** With `RegisterCommands`, the upper layer also issues
  `set_registers` (`SetRegistersCmd`, moving the pc), `push_registers` and
  `pop_registers` on an idle thread. Each changes `current_regs` first and
  then writes it through (`WriteThrough`). That write may fail after the cache
  was changed, as in the code. A pushed block is a ghost frame of kind `push`.
  It is bounded by `MaxPushes`. `get_frame` (`GetFrame`) reloads the cache
  from the thread, which replaces a cache left stale by a failed write.
- **Breakpoint commands.** These are `BpmNext`, taken on an idle thread. With
  `ConcurrentBreakpoints`, another thread of the process may also edit software
  breakpoints while this thread runs or waits for classification. The code
  allows this: the manager is shared and only its lock orders the edits.
- **Ghost state.** The following variables feed the properties only:
  - `frames`: the injected calls still running in the inferior, each with the
    registers and pending signal from just before the injection, its trap
    address and its token. `SetRegisters` drops the frames that a register
    write abandons.
  - `cause`: why the thread stopped.
  - `outcome`: what the classifier reported.

### CallFrames and the refinement

`CallFrames` has one stack of frames `[kind, token]`, the count of tokens
issued, and the token last reported. `Invoke(kind)` is refused while a `top`
frame is live; otherwise it pushes a frame with a fresh token. `Return` pops
the innermost frame and reports its token. `Abort` pops an innermost `rti`
frame. `Acknowledge` is the resume that consumes the report.

`I386Arch` defines the mapping:

- `MappedStack`: the `rti_stack` tokens, then the top-level slot when
  `saved_regs` is set;
- `issued`: `ncalls`;
- `ReportedToken`: the token of a CALLBACK outcome.

`CallFramesRefined == Frames!Spec` is checked as a PROPERTY. The contract
needs the upper layer to abort only an innermost runtime-invoke. The
constant `AbortsInnermostOnly` adds that precondition, because the code does
not check it (see `I386Arch_TopLevel.cfg`).

## Properties

| Property | Kind | States |
|---|---|---|
| `TypeOK`, `ArchTypeOK` | invariant | types |
| `UserViewIsOriginal` | invariant | for every range, the buffer the user reads is the program's own code and no wider than asked |
| `WatchHitReportsEnabledBreakpoint` | invariant | a slot armed in the inferior's DR7 on a code address is owned in `dr_regs` by a tracked, enabled breakpoint at that address, so a watch hit never reports a breakpoint the user disabled |
| `HwSlotsDistinct` | invariant | spec: enabled hardware breakpoints have distinct slots |
| `TrackedRefcountPositive` | invariant | spec: a tracked breakpoint has refcount at least 1 |
| `HwInsertRefusedOnlyWhenFull` | action | spec insert_hardware: insert_hw answers DR_OCCUPIED only when every slot is armed for an enabled hardware breakpoint that owns it |
| `CallReturnsRestoreCaller` | action | a classification reports CALLBACK iff the stop was an injected call's return, with that call's token, restoring the registers and pending signal of the caller |
| `BreakpointStopsReported` | action | a stop on our INT3 or debug register is reported as a hit on that breakpoint, with pc at its address |
| `SignalStopsNotRewound` | action | a signal stop is reported as such and the pc is left alone |
| `RtiStackMirrorsInferior` | invariant | `rti_stack` lists exactly the live runtime-invokes, with their trap addresses and tokens, in order |
| `TopLevelSlotFreed` | liveness | under `FairSpec`, a filled top-level slot (`saved_regs`) is eventually cleared, so `call_method*` stops answering RECURSIVE_CALL |
| `RegisterCacheCoherent` | invariant | on an idle thread, `current_regs` is the inferior's registers |
| `CallFramesRefined` | temporal | `I386Arch` implements `CallFrames` under the mapping |

## Runs

| Run (cfg) | Expect | What it shows |
|---|---|---|
| `BreakpointManager.cfg` | pass (602k states, 34 s) | without ptrace failures, any sequence of operations keeps patches, saved bytes and armed slots consistent, and insert_hw is refused only with every slot in use |
| `BreakpointManager_HwSlots.cfg` | violation | insert_hw, init_after_fork (which frees the slot but leaves the record enabled with its dr_index), insert_hw: two enabled hardware breakpoints on slot 0 |
| `BreakpointManager_IoFailure.cfg` | violation | one failed write in disable: the INT3 stays, the record says disabled, the user sees 0xcc |
| `BreakpointManager_Dr7Failure.cfg` | violation | insert_hw, then a disable whose `set_dr(idx, 0)` fails: the record says disabled, the inferior's DR7 still arms it at its address, and a watch hit reports it |
| `BreakpointManager_Refcount.cfg` | violation | insert, then remove with a failing do_disable: the record stays with refcount 0 |
| `BreakpointManager_SlotLeak.cfg` | violation | insert_hw twice, a disable whose DR write fails, insert_hw: refused with DR_OCCUPIED while only one enabled breakpoint holds a slot |
| `I386Arch.cfg` | pass (631k states, 95 s) | under `FairSpec`: nested calls, breakpoints inside called methods, signals and notifications are all classified correctly, the engine refines `CallFrames`, and the top-level slot is always freed again |
| `I386Arch_Registers.cfg` | pass (560k states, 20 s) | set/push/pop_registers and get_frame around one injected call keep the cache equal to the inferior, and returns still restore the caller |
| `I386Arch_PushFailure.cfg` | violation | a failed set_registers write-through leaves the changed cache; call_method saves it, and the return restores registers the inferior never had |
| `I386Arch_TopLevel.cfg` | violation | call_method_invoke, a top-level call inside it, abort_invoke: saved_regs is stale, and under `FairSpec` it is never freed: every later call returns RECURSIVE_CALL |
| `I386Arch_SignalRewind.cfg` | violation | SIGSEGV just after a breakpointed instruction is reported as BREAKPOINT_HIT and EIP is moved back |
| `I386Arch_Concurrent.cfg` | violation | a breakpoint removed by another thread between trap and classification: STOPPED, with EIP past an instruction that was never executed |

Every property of a pass run has a mutant in PROJECT.json: a plausible bug in the
mapped code that TLC then catches under the same cfg.

## Bounds

**BreakpointManager.** The run uses:

- 3 addresses, so both slots can be taken while an address is still free;
- 2 debug slots, so slot sharing and reuse can happen;
- 3 ids, so an address can be reused after a removal;
- a reference count up to 2, so sharing occurs;
- both hardware types.

**I386Arch.** The main run uses 2 addresses, 1 slot, one breakpoint id, refcount 1,
2 injected calls, one shape per convention and a pending SIGINT at attach.

- **Why 2 calls.** Two calls are enough for every nesting pair: rti in rti, a
  top-level call in rti, and rti under top-level (refused).
- **Why 1 breakpoint.** One breakpoint, software or hardware, reaches every
  classifier exit. The two pass runs together fire every action and every
  disjunct of `Next`.
- **Register commands.** These get their own run, with one injected call
  and one pushed block. With two calls, the pc choices of `set_registers`
  multiply the space past 12M states.
- **Cost.** A second breakpoint id multiplies the state space by ten (6.6M
  states, 3.5 min).

## Fairness

`I386Arch.FairSpec` adds three conditions to `Spec`; only the liveness
property `TopLevelSlotFreed` needs them.

- `WF_vars(ChildStopped)`: the upper layer runs `x86_arch_child_stopped` once
  for every stop (spec.md, control flow), and some exit always applies.
- `WF_vars(CallOutstanding /\ Continue)`: while a call it injected is
  outstanding, the upper layer keeps resuming the thread, as it must to get
  the callback. With no call outstanding, the upper layer owes nothing, and
  the model may stop.
- `SF_vars(Inferior /\ cause'.kind = "return")`: a called method eventually
  returns. Breakpoints may stop it any number of times, so the return is only
  enabled intermittently. That is why this condition is strong fairness.

The inferior's other stops, breakpoint commands and new calls have no
fairness. The safety properties hold for every behaviour of `Spec`.

## Not modelled

- `testbfd.c`, the readline header and the JIT wrapper header. These have no
  state the backend keeps.
- `get_registers`, `get_target_info`, `get_breakpoints` and
  `current_insn_is_bpt`, which only read.
- The trigger type of a hardware breakpoint. `do_enable` (line 633) arms
  every slot as `DR_RW_EXECUTE | DR_LEN_1` whatever `breakpoint->type` is.
  The model arms slots the same way, so a write watchpoint in the model also
  fires as an execute breakpoint. A single insert_hw followed by a read of
  DR7 shows this, so no run is spent on it.
- Stub bytes and arguments, and `retval` (retval2 is only told apart as
  defined or not).
- The uninitialized `exc_object` that line 458 returns as retval2 for a
  `call_method_2` (its `exc_address` is 0). `StopRuntimeInvoke` labels that
  value "uninitialized", as the code does. A property against the label
  would only restate the condition at line 458, so no run checks it; any
  single `call_method_2` return shows it.
- 32-bit wrap-around of `new_esp` (line 138). It needs a stack pointer smaller
  than a stub (21 to a few hundred bytes), which no thread the debugger
  attaches to has. Even then, `call_address` wraps the same way, so the trap
  is still recognised. It is therefore not listed as a hazard.
- A failing register refresh in the classifier (line 407 ignores it): a
  traced, stopped thread fails it only when it is gone, and the model has no
  exiting inferior.

## Plan for later work

1. Add a pure-operator module for the stub layouts (offsets of INT3, return
   address and exception slot), checked against a byte-level reference over
   bounded argument sizes.
2. Add failure runs of the classifier, such as a failed notification read.
3. Model the exit of the inferior, so that refresh failures can be checked.
