------------------------------- MODULE I386Arch -------------------------------
(***************************************************************************)
(* The i386 backend of one traced thread (src/backend/server/i386-arch.c): *)
(* the register cache of ArchInfo, the four call-injection stubs with the  *)
(* single top-level call slot and the runtime-invoke stack rti_stack,      *)
(* abort_invoke, and the stop classifier x86_arch_child_stopped, composed  *)
(* with the breakpoint manager.                                            *)
(*                                                                         *)
(* The inferior thread is the environment.  It is "idle" (stopped, its    *)
(* stop classified), "running", or "stopped" (waitpid has returned, the    *)
(* classifier has not run yet).  While running it stops on a debugger      *)
(* INT3, on an armed debug register, at the runtime's notification         *)
(* address, on return from an injected call (at the INT3 of its stub), or  *)
(* on a signal.  Registers are abstracted to the program counter and the   *)
(* stack pointer; addresses of stubs are computed from the code's layout.  *)
(*                                                                         *)
(* Ghost state, kept only to state properties: frames, the injected calls  *)
(* whose method has not returned yet, each with the registers and pending  *)
(* signal of the inferior just before the injection; cause, why the        *)
(* inferior last stopped; outcome, what the classifier reported.           *)
(***************************************************************************)
EXTENDS BreakpointManager, Sequences, SequencesExt

CONSTANTS
  NotificationAddress,  \* inferior->notification_address
  StackTop,             \* the inferior's stack pointer when attached
  Methods,              \* method addresses the upper layer calls
  StringLens,           \* strlen of call_method_1's string argument
  InvokeShapes,         \* [params, blob] sizes for call_method_invoke
  PendingSignals,       \* values inferior->last_signal can hold at attach
  MaxCalls,             \* bound on injected calls in a behaviour
  RegsSize,             \* sizeof (INFERIOR_REGS_TYPE)
  MaxPushes,            \* bound on register blocks pushed and not popped
  ConcurrentBreakpoints, \* another control thread edits software breakpoints
  RegisterCommands,     \* the upper layer uses set/push/pop_registers
  AbortsInnermostOnly   \* abort_invoke is never issued under a top-level call

ASSUME NotificationAddress \in Nat /\ StackTop \in Nat /\ MaxCalls \in Nat
ASSUME RegsSize \in Nat \ {0} /\ MaxPushes \in Nat
ASSUME \A sh \in InvokeShapes : sh.params \in Nat \ {0} /\ sh.blob \in Nat
ASSUME ConcurrentBreakpoints \in BOOLEAN /\ RegisterCommands \in BOOLEAN
ASSUME AbortsInnermostOnly \in BOOLEAN

SIGINT  == 2
SIGTRAP == 5
SIGSEGV == 11
SIGSTOP == 19

NoRegs == [pc |-> 0, sp |-> 0]     \* arch->saved_regs == NULL
Regs   == [pc: Int, sp: Int]

\* ChildStoppedAction values
INTERRUPTED == "STOP_ACTION_INTERRUPTED"
STOPPED     == "STOP_ACTION_STOPPED"
NOTIFICATION == "STOP_ACTION_NOTIFICATION"
BREAKPOINT_HIT == "STOP_ACTION_BREAKPOINT_HIT"
CALLBACK    == "STOP_ACTION_CALLBACK"
CALLBACK_COMPLETED == "STOP_ACTION_CALLBACK_COMPLETED"

VARIABLES
  status,            \* the inferior thread: "idle", "running" or "stopped"
  stopsig,           \* the signal of the last stop
  regs,              \* the inferior's registers
  dr_status,         \* the inferior's DR6: slots whose watch condition hit
  last_signal,       \* inferior->last_signal, delivered on the next continue
  current_regs,      \* arch->current_regs (and current_fpregs)
  call_address,      \* arch->call_address, 0 when no top-level call
  callback_argument, \* arch->callback_argument
  saved_regs,        \* arch->saved_regs (and saved_fpregs), NoRegs if NULL
  saved_signal,      \* arch->saved_signal
  rti_stack,         \* arch->rti_stack of RuntimeInvokeData
  ncalls,            \* injected calls so far; also the next callback token
  frames,            \* ghost: live injected calls in the inferior
  cause,             \* ghost: why the inferior last stopped
  outcome            \* ghost: the classifier's last report

archVars == <<status, stopsig, regs, dr_status, last_signal, current_regs,
              call_address, callback_argument, saved_regs, saved_signal,
              rti_stack, ncalls, frames, cause, outcome>>
vars == <<bpmVars, archVars>>
topVars == <<call_address, callback_argument, saved_regs, saved_signal>>

(***************************************************************************)
(* x86_arch_initialize: a zeroed ArchInfo and an empty rti_stack, for a    *)
(* thread attached while stopped.                                          *)
(***************************************************************************)
ArchInit ==
  /\ status = "idle"
  /\ stopsig = 0
  /\ regs = [pc |-> Min(Addrs), sp |-> StackTop]
  /\ dr_status = {}
  /\ last_signal \in PendingSignals
  /\ current_regs = regs
  /\ call_address = 0
  /\ callback_argument = 0
  /\ saved_regs = NoRegs
  /\ saved_signal = 0
  /\ rti_stack = <<>>
  /\ ncalls = 0
  /\ frames = <<>>
  /\ cause = [kind |-> "none"]
  /\ outcome = [action |-> "none", id |-> 0, token |-> 0, retval2 |-> "none"]

Init == BpmInit /\ ArchInit

bpmState == <<bpts, next_id, mem, drVars, failures>>

(***************************************************************************)
(* _server_ptrace_set_registers on the inferior: the stack pointer moves   *)
(* to r.sp, and injected calls entered from below r.sp are abandoned.      *)
(***************************************************************************)
SetRegisters(r) ==
  /\ regs' = r
  /\ frames' = SelectSeq(frames, LAMBDA fr : fr.pre.sp > r.sp)

\* The ghost record of a call injected now: where its stub's INT3 leaves the
\* program counter, the stack pointer after the method returns, and the
\* inferior's registers and pending signal before the injection.
Frame(kind, trap, exit_sp, ok) ==
  [kind |-> kind, trap |-> trap, exit_sp |-> exit_sp, pre |-> regs,
   sig |-> last_signal, token |-> ncalls + 1, ok |-> ok]

\* The common tail of the four call builders: _server_ptrace_set_registers
\* with the redirected registers, then server_ptrace_continue.  f = 2 makes
\* set_registers fail; the builder returns its error.
Launch(r, fr, op, f) ==
  \/ /\ f # 2
     /\ regs' = r
     /\ frames' = Append(frames, fr)
     /\ status' = "running"
     /\ Result(op, "NONE", fr.token)
  \/ /\ f = 2
     /\ UNCHANGED <<regs, frames, status>>
     /\ Result(op, "IO", 0)

\* Mutant: the RECURSIVE_CALL check on saved_regs is dropped.
MayInjectUnguarded == status = "idle" /\ ncalls < MaxCalls

\* A builder goes on only on a classified thread with no top-level call
\* outstanding (otherwise RecursiveCall); MaxCalls bounds the model.
MayInject == status = "idle" /\ saved_regs = NoRegs /\ ncalls < MaxCalls

\* Mutant: the RuntimeInvokeData's callback_argument is left zero.
RtiDataNoArgument(call_addr, exc_addr, debug) ==
  [saved_regs |-> current_regs, saved_signal |-> last_signal, call_address |-> call_addr,
   exc_address |-> exc_addr, debug |-> debug, callback_argument |-> 0]

\* The RuntimeInvokeData a runtime-invoke builder fills in.
RtiData(call_addr, exc_addr, debug) ==
  [saved_regs |-> current_regs, saved_signal |-> last_signal, call_address |-> call_addr,
   exc_address |-> exc_addr, debug |-> debug, callback_argument |-> ncalls + 1]

RecursiveCall(op) ==
  /\ status = "idle"
  /\ saved_regs # NoRegs
  /\ Result(op, "RECURSIVE_CALL", 0)
  /\ UNCHANGED <<bpmState, archVars>>

(***************************************************************************)
(* server_ptrace_call_method: a 26-byte stub (four pushes, a call, INT3 at *)
(* offset 25) written below the stack pointer and executed in place.  The  *)
(* result of the stub write is ignored (f = 1 leaves garbage there).       *)
(***************************************************************************)
CallMethod ==
  \/ RecursiveCall("call_method")
  \/ /\ MayInject
     /\ \E f \in FailPoints :
          LET new_esp == current_regs.sp - 26
              r == [pc |-> new_esp, sp |-> new_esp]
          IN /\ saved_regs' = current_regs
             /\ call_address' = new_esp + 26
             /\ callback_argument' = ncalls + 1
             /\ saved_signal' = last_signal
             /\ last_signal' = 0
             /\ current_regs' = r
             /\ ncalls' = ncalls + 1
             /\ CountFailure(f # 0)
             /\ Launch(r, Frame("call", new_esp + 25 + 1, new_esp - 16, f # 1),
                       "call_method", f)
             /\ UNCHANGED <<bpts, next_id, mem, drVars, stopsig, dr_status,
                            rti_stack, cause, outcome>>

(***************************************************************************)
(* server_ptrace_call_method_1: a 21-byte stub (three pushes, a call, INT3 *)
(* at offset 20) followed by the string.  A failed stub write returns after*)
(* the top-level slot is filled and the pending signal cleared.            *)
(***************************************************************************)
CallMethod1(len) ==
  \/ RecursiveCall("call_method_1")
  \/ /\ MayInject
     /\ \E f \in FailPoints :
          LET new_esp == current_regs.sp - (21 + len + 1)
              r == [pc |-> new_esp, sp |-> new_esp]
          IN /\ saved_regs' = current_regs
             /\ call_address' = new_esp + 21
             /\ callback_argument' = ncalls + 1
             /\ saved_signal' = last_signal
             /\ last_signal' = 0
             /\ ncalls' = ncalls + 1
             /\ CountFailure(f # 0)
             /\ \/ /\ f = 1
                   /\ Result("call_method_1", "IO", 0)
                   /\ UNCHANGED <<current_regs, regs, frames, status>>
                \/ /\ f # 1
                   /\ current_regs' = r
                   /\ Launch(r, Frame("call", new_esp + 20 + 1, new_esp - 12, TRUE),
                             "call_method_1", f)
             /\ UNCHANGED <<bpts, next_id, mem, drVars, stopsig, dr_status,
                            rti_stack, cause, outcome>>

(***************************************************************************)
(* server_ptrace_call_method_2: a 57-byte block whose first word is the    *)
(* return address new_esp + 56, the INT3.  The method is entered directly  *)
(* with ESP = new_esp; a RuntimeInvokeData is pushed on rti_stack before   *)
(* the registers are written.  The stub write's result is ignored.         *)
(***************************************************************************)
CallMethod2(m) ==
  \/ RecursiveCall("call_method_2")
  \/ /\ MayInject
     /\ \E f \in FailPoints :
          LET new_esp == current_regs.sp - 57
              r == [pc |-> m, sp |-> new_esp]
              rdata == RtiData(new_esp + 57, 0, FALSE)
          IN /\ last_signal' = 0
             /\ current_regs' = r
             /\ rti_stack' = Append(rti_stack, rdata)
             /\ ncalls' = ncalls + 1
             /\ CountFailure(f # 0)
             /\ Launch(r, Frame("rti", (new_esp + 57 - 1) + 1, new_esp + 4, f # 1),
                       "call_method_2", f)
             /\ UNCHANGED <<bpts, next_id, mem, drVars, stopsig, dr_status,
                            topVars, cause, outcome>>

(***************************************************************************)
(* server_ptrace_call_method_invoke: a 25-byte header (return address      *)
(* new_esp + 24, the INT3; the exception slot at new_esp + 20), the blob   *)
(* and num_params + 3 pointer slots.  A failed stub write returns after    *)
(* the pending signal was cleared, the RuntimeInvokeData not pushed.       *)
(***************************************************************************)
CallMethodInvoke(m, sh, debug) ==
  \/ RecursiveCall("call_method_invoke")
  \/ /\ MayInject
     /\ \E f \in FailPoints :
          LET new_esp == current_regs.sp - (25 + (sh.params + 3) * 4 + sh.blob)
              r == [pc |-> m, sp |-> new_esp]
              rdata == RtiData(new_esp + 25, new_esp + 20, debug)
          IN /\ last_signal' = 0
             /\ ncalls' = ncalls + 1
             /\ CountFailure(f # 0)
             /\ \/ /\ f = 1
                   /\ Result("call_method_invoke", "IO", 0)
                   /\ UNCHANGED <<current_regs, rti_stack, regs, frames, status>>
                \/ /\ f # 1
                   /\ current_regs' = r
                   /\ rti_stack' = Append(rti_stack, rdata)
                   /\ Launch(r, Frame("rti", (new_esp + 25 - 1) + 1, new_esp + 4, TRUE),
                             "call_method_invoke", f)
             /\ UNCHANGED <<bpts, next_id, mem, drVars, stopsig, dr_status,
                            topVars, cause, outcome>>

(***************************************************************************)
(* server_ptrace_abort_invoke: restore the innermost runtime-invoke's      *)
(* registers and signal, pop it, and refresh the register cache.           *)
(***************************************************************************)
\* Mutant: the registers are restored but the RuntimeInvokeData is not popped.
AbortInvokeNoPop ==
  /\ status = "idle"
  /\ \/ /\ rti_stack = <<>>
        /\ Result("abort_invoke", "UNKNOWN_ERROR", 0)
        /\ UNCHANGED <<regs, frames, last_signal, current_regs>>
     \/ /\ rti_stack # <<>>
        /\ SetRegisters(Last(rti_stack).saved_regs)
        /\ last_signal' = Last(rti_stack).saved_signal
        /\ current_regs' = Last(rti_stack).saved_regs
        /\ Result("abort_invoke", "NONE", 0)
  /\ UNCHANGED <<bpmState, status, stopsig, dr_status, topVars, rti_stack, ncalls,
                 cause, outcome>>

AbortInvoke ==
  /\ status = "idle"
  /\ \/ /\ rti_stack = <<>>
        /\ Result("abort_invoke", "UNKNOWN_ERROR", 0)
        /\ UNCHANGED <<regs, frames, last_signal, rti_stack, current_regs>>
     \/ /\ rti_stack # <<>>
        /\ LET rdata == Last(rti_stack) IN
           /\ SetRegisters(rdata.saved_regs)
           /\ last_signal' = rdata.saved_signal
           /\ rti_stack' = Front(rti_stack)
           /\ current_regs' = rdata.saved_regs
           /\ Result("abort_invoke", "NONE", 0)
  /\ UNCHANGED <<bpmState, status, stopsig, dr_status, topVars, ncalls, cause,
                 outcome>>

(***************************************************************************)
(* check_breakpoint, get_runtime_invoke_data and the byte read by          *)
(* server_ptrace_peek_word at pc - 1: a code byte, or the INT3 of the stub *)
(* the inferior has just executed.                                         *)
(***************************************************************************)
CheckBreakpoint(a) == {b \in Lookup(a) : b.enabled}

GetRuntimeInvokeData == IF rti_stack = <<>> THEN <<>> ELSE <<Last(rti_stack)>>

PeekIsInt3(a) ==
  \/ a \in Addrs /\ mem[a] = INT3
  \/ cause.kind = "return" /\ cause.frame.ok /\ cause.frame.trap - 1 = a

Report(action, id, token) ==
  outcome' = [action |-> action, id |-> id, token |-> token, retval2 |-> "none"]

\* A call return also reports *retval2: EDX for a top-level call; for a
\* runtime-invoke the word at exc_address, or, when exc_address is 0, the
\* never-written local exc_object.
ReportCallback(action, token, retval2) ==
  outcome' = [action |-> action, id |-> 0, token |-> token, retval2 |-> retval2]

(***************************************************************************)
(* x86_arch_child_stopped, one disjunct per exit, in the code's order.     *)
(* x86_arch_get_registers runs first, so current_regs' is the inferior's   *)
(* registers unless the exit rewrote them.                                 *)
(***************************************************************************)
\* Mutant: the top-level trap is compared with the address of the INT3
\* itself instead of the address after it.
IsCallReturnAtInt3 == call_address # 0 /\ call_address = regs.pc + 1
IsNotification == regs.pc - 1 = NotificationAddress
IsWatchHit      == dr_status # {}
IsBreakpoint    == CheckBreakpoint(regs.pc - 1) # {}
IsRtiReturn     == \E rd \in Range(GetRuntimeInvokeData) : rd.call_address = regs.pc
IsCallReturn    == call_address # 0 /\ call_address = regs.pc

Classified ==
  /\ status = "stopped"
  /\ status' = "idle"
  /\ cause' = [kind |-> "none"]
  /\ UNCHANGED <<stopsig, ncalls>>

StopInterrupted ==
  /\ Classified
  /\ stopsig = SIGSTOP
  /\ current_regs' = regs
  /\ Report(INTERRUPTED, 0, 0)
  /\ UNCHANGED <<bpmVars, regs, frames, dr_status, last_signal, topVars, rti_stack>>

\* The 24-byte record at ESP + 4 may fail to read (f = 1).
StopNotification ==
  /\ Classified
  /\ stopsig # SIGSTOP /\ IsNotification
  /\ current_regs' = regs
  /\ \E f \in FailPoints :
       /\ CountFailure(f = 1)
       /\ Report(IF f = 1 THEN STOPPED ELSE NOTIFICATION, 0, 0)
  /\ UNCHANGED <<bpts, next_id, mem, drVars, result, regs, frames, dr_status,
                 last_signal, topVars, rti_stack>>

StopWatchHit ==
  /\ Classified
  /\ stopsig # SIGSTOP /\ ~IsNotification /\ IsWatchHit
  /\ current_regs' = regs
  /\ dr_status' = {}
  /\ Report(BREAKPOINT_HIT, dr_regs[Min(dr_status)], 0)
  /\ UNCHANGED <<bpmVars, regs, frames, last_signal, topVars, rti_stack>>

\* Mutant: the hit is reported but the program counter is not moved back.
StopBreakpointHitNoRewind ==
  /\ Classified
  /\ stopsig # SIGSTOP /\ ~IsNotification /\ ~IsWatchHit /\ IsBreakpoint
  /\ current_regs' = regs
  /\ Report(BREAKPOINT_HIT, (CHOOSE b \in CheckBreakpoint(regs.pc - 1) : TRUE).id, 0)
  /\ UNCHANGED <<bpmVars, regs, frames, dr_status, last_signal, topVars, rti_stack>>

StopBreakpointHit ==
  /\ Classified
  /\ stopsig # SIGSTOP /\ ~IsNotification /\ ~IsWatchHit /\ IsBreakpoint
  /\ LET r == [regs EXCEPT !.pc = @ - 1] IN
     /\ current_regs' = r
     /\ SetRegisters(r)
     /\ Report(BREAKPOINT_HIT, (CHOOSE b \in CheckBreakpoint(regs.pc - 1) : TRUE).id, 0)
  /\ UNCHANGED <<bpmVars, dr_status, last_signal, topVars, rti_stack>>

StopRuntimeInvokeReturn ==
  /\ Classified
  /\ stopsig # SIGSTOP /\ ~IsNotification /\ ~IsWatchHit /\ ~IsBreakpoint
  /\ IsRtiReturn
  /\ LET rdata == Last(rti_stack) IN
     /\ SetRegisters(rdata.saved_regs)
     /\ last_signal' = rdata.saved_signal
     /\ rti_stack' = Front(rti_stack)
     /\ current_regs' = rdata.saved_regs
     /\ ReportCallback(IF rdata.debug THEN CALLBACK_COMPLETED ELSE CALLBACK,
                       rdata.callback_argument,
                       IF rdata.exc_address # 0 THEN "exc_object" ELSE "uninitialized")
  /\ UNCHANGED <<bpmVars, dr_status, topVars>>

\* Not a call return: SIGTRAP with an INT3 at pc - 1 is a foreign
\* breakpoint (id 0); anything else, or a failing peek (f = 1), is STOPPED.
StopOther ==
  /\ Classified
  /\ stopsig # SIGSTOP /\ ~IsNotification /\ ~IsWatchHit /\ ~IsBreakpoint
  /\ ~IsRtiReturn /\ ~IsCallReturn
  /\ current_regs' = regs
  /\ \E f \in FailPoints :
       /\ CountFailure(stopsig = SIGTRAP /\ f = 1)
       /\ Report(IF stopsig = SIGTRAP /\ f # 1 /\ PeekIsInt3(regs.pc - 1)
                   THEN BREAKPOINT_HIT ELSE STOPPED, 0, 0)
  /\ UNCHANGED <<bpts, next_id, mem, drVars, result, regs, frames, dr_status,
                 last_signal, topVars, rti_stack>>

\* Mutant: saved_signal is not moved back into last_signal.
StopCallReturnKeepsSignal ==
  /\ Classified
  /\ stopsig # SIGSTOP /\ ~IsNotification /\ ~IsWatchHit /\ ~IsBreakpoint
  /\ ~IsRtiReturn /\ IsCallReturn
  /\ SetRegisters(saved_regs)
  /\ current_regs' = saved_regs
  /\ saved_regs' = NoRegs
  /\ saved_signal' = 0
  /\ call_address' = 0
  /\ callback_argument' = 0
  /\ ReportCallback(CALLBACK, callback_argument, "edx")
  /\ UNCHANGED <<bpmVars, dr_status, rti_stack, last_signal>>

StopCallReturn ==
  /\ Classified
  /\ stopsig # SIGSTOP /\ ~IsNotification /\ ~IsWatchHit /\ ~IsBreakpoint
  /\ ~IsRtiReturn /\ IsCallReturn
  /\ SetRegisters(saved_regs)
  /\ current_regs' = saved_regs
  /\ last_signal' = saved_signal
  /\ saved_regs' = NoRegs
  /\ saved_signal' = 0
  /\ call_address' = 0
  /\ callback_argument' = 0
  /\ ReportCallback(CALLBACK, callback_argument, "edx")
  /\ UNCHANGED <<bpmVars, dr_status, rti_stack>>

ChildStopped ==
  \/ StopInterrupted
  \/ StopNotification
  \/ StopWatchHit
  \/ StopBreakpointHit
  \/ StopRuntimeInvokeReturn
  \/ StopOther
  \/ StopCallReturn

(***************************************************************************)
(* The inferior, while running, stops for one of these causes.  Its        *)
(* registers change only in the program counter, except on return from an  *)
(* injected method, which leaves ESP where the stub's calling sequence     *)
(* does.  The code bytes at Addrs are one-byte instructions, so a signal   *)
(* may stop the thread at a + 1 after executing a.                         *)
(***************************************************************************)
\* Where a signal may find the thread: where it was resumed, or just after
\* one of the instructions at Addrs.
SignalPcs == {regs.pc} \cup {a + 1 : a \in Addrs}

Stops(pc, sig, why) ==
  /\ status = "running"
  /\ status' = "stopped"
  /\ stopsig' = sig
  /\ cause' = why
  /\ regs' = [regs EXCEPT !.pc = pc]

EnvTrap(a) ==
  /\ mem[a] = INT3
  /\ Stops(a + 1, SIGTRAP, [kind |-> "trap", addr |-> a])
  /\ UNCHANGED <<bpmVars, dr_status, frames>>

EnvWatchHit(s) ==
  /\ inf_dr7[s].en /\ inf_dr[s] \in Addrs
  /\ Stops(inf_dr[s], SIGTRAP, [kind |-> "watch", addr |-> inf_dr[s]])
  /\ dr_status' = dr_status \cup {s}
  /\ UNCHANGED <<bpmVars, frames>>

EnvNotification ==
  /\ Stops(NotificationAddress + 1, SIGTRAP, [kind |-> "notification"])
  /\ UNCHANGED <<bpmVars, dr_status, frames>>

EnvSignal(pc, sig) ==
  /\ Stops(pc, sig, [kind |-> "signal", pc |-> pc])
  /\ UNCHANGED <<bpmVars, dr_status, frames>>

EnvReturn ==
  /\ status = "running"
  /\ frames # <<>> /\ Last(frames).kind # "push" /\ Last(frames).ok
  /\ status' = "stopped"
  /\ stopsig' = SIGTRAP
  /\ cause' = [kind |-> "return", frame |-> Last(frames)]
  /\ regs' = [pc |-> Last(frames).trap, sp |-> Last(frames).exit_sp]
  /\ frames' = Front(frames)
  /\ UNCHANGED <<bpmVars, dr_status>>

Inferior ==
  /\ \/ \E a \in Addrs : EnvTrap(a)
     \/ \E s \in Slots : EnvWatchHit(s)
     \/ EnvNotification
     \/ \E pc \in SignalPcs, sig \in {SIGSTOP, SIGSEGV} : EnvSignal(pc, sig)
     \/ EnvReturn
  /\ UNCHANGED <<last_signal, current_regs, topVars, rti_stack, ncalls, outcome>>

\* server_ptrace_continue, issued by the upper layer on an idle thread.  The
\* ghosts outcome and result, read only by properties of the step that sets
\* them, are cleared.
Continue ==
  /\ status = "idle"
  /\ status' = "running"
  /\ outcome' = [action |-> "none", id |-> 0, token |-> 0, retval2 |-> "none"]
  /\ result' = [op |-> "none", err |-> "NONE", id |-> 0]
  /\ UNCHANGED <<bpts, next_id, mem, drVars, failures, stopsig, regs, dr_status,
                 last_signal, current_regs, topVars, rti_stack, ncalls, frames, cause>>

(***************************************************************************)
(* The register commands of the upper layer on an idle thread.  Each       *)
(* changes arch->current_regs first and then writes it through with        *)
(* _server_ptrace_set_registers, which may fail (f = 1) after the cache    *)
(* was changed.  set_registers is used here to move the program counter.   *)
(***************************************************************************)
\* Mutant: the cache is changed but never written through.
WriteThroughCacheOnly(r, f) ==
  /\ current_regs' = r
  /\ CountFailure(f = 1)
  /\ UNCHANGED <<regs, frames>>

WriteThrough(r, f) ==
  /\ current_regs' = r
  /\ CountFailure(f = 1)
  /\ IF f = 1 THEN UNCHANGED <<regs, frames>> ELSE SetRegisters(r)

SetRegistersCmd(pc) ==
  /\ status = "idle"
  /\ \E f \in FailPoints :
       /\ WriteThrough([current_regs EXCEPT !.pc = pc], f)
       /\ Result("set_registers", IF f = 1 THEN "IO" ELSE "NONE", 0)
  /\ UNCHANGED <<bpts, next_id, mem, drVars, status, stopsig, dr_status,
                 last_signal, topVars, rti_stack, ncalls, cause, outcome>>

\* push_registers: ESP is lowered by the size of the register block, the
\* registers are written, then the block is copied to the new ESP (f = 2
\* fails that copy).  The pushed block is a ghost frame of kind "push".
PushRegisters ==
  /\ status = "idle"
  /\ Len(SelectSeq(frames, LAMBDA fr : fr.kind = "push")) < MaxPushes
  /\ \E f \in FailPoints :
       LET r == [current_regs EXCEPT !.sp = @ - RegsSize] IN
       /\ current_regs' = r
       /\ CountFailure(f # 0)
       /\ regs' = IF f = 1 THEN regs ELSE r
       /\ frames' = IF f = 0 THEN Append(frames, Frame("push", 0, 0, TRUE)) ELSE frames
       /\ Result("push_registers", IF f = 0 THEN "NONE" ELSE "IO", 0)
  /\ UNCHANGED <<bpts, next_id, mem, drVars, status, stopsig, dr_status,
                 last_signal, topVars, rti_stack, ncalls, cause, outcome>>

\* pop_registers: ESP is raised by the size of the register block.  The
\* upper layer pops only a block it pushed, when it is the innermost thing
\* on the inferior's stack.
PopRegisters ==
  /\ status = "idle"
  /\ frames # <<>> /\ Last(frames).kind = "push"
  /\ \E f \in FailPoints :
       /\ WriteThrough([current_regs EXCEPT !.sp = @ + RegsSize], f)
       /\ Result("pop_registers", IF f = 1 THEN "IO" ELSE "NONE", 0)
  /\ UNCHANGED <<bpts, next_id, mem, drVars, status, stopsig, dr_status,
                 last_signal, topVars, rti_stack, ncalls, cause, outcome>>

\* server_ptrace_get_frame: x86_arch_get_registers reloads the register
\* cache from the stopped thread, and the frame is read from it.  The
\* refresh of a live, stopped, traced thread does not fail (see the
\* classifier), so a stale cache left by a failed write-through is replaced.
GetFrame ==
  /\ status = "idle"
  /\ current_regs' = regs
  /\ Result("get_frame", "NONE", 0)
  /\ UNCHANGED <<bpts, next_id, mem, drVars, failures, status, stopsig, regs,
                 dr_status, last_signal, topVars, rti_stack, ncalls, frames,
                 cause, outcome>>

(***************************************************************************)
(* Breakpoint commands.  The upper layer issues them on an idle thread.    *)
(* With ConcurrentBreakpoints another control thread, through a thread of  *)
(* the same address space, also edits software breakpoints while this one  *)
(* runs or waits to be classified.                                         *)
(***************************************************************************)
SoftwareIds == {b.id : b \in {x \in bpts : ~x.is_hardware_bpt}}

BreakpointCommand ==
  /\ \/ status = "idle" /\ BpmNext
     \/ /\ ConcurrentBreakpoints /\ status # "idle"
        /\ \/ \E a \in Addrs : InsertBreakpoint(a)
           \/ \E i \in SoftwareIds :
                RemoveBreakpoint(i) \/ EnableBreakpoint(i) \/ DisableBreakpoint(i)
  /\ UNCHANGED archVars

Next ==
  \/ BreakpointCommand
  \/ Continue
  \/ CallMethod
  \/ \E len \in StringLens : CallMethod1(len)
  \/ \E m \in Methods : CallMethod2(m)
  \/ \E m \in Methods, sh \in InvokeShapes, debug \in BOOLEAN :
       CallMethodInvoke(m, sh, debug)
  \/ (AbortsInnermostOnly => saved_regs = NoRegs) /\ AbortInvoke
  \/ RegisterCommands /\ \E a \in Addrs : SetRegistersCmd(a)
  \/ RegisterCommands /\ PushRegisters
  \/ RegisterCommands /\ PopRegisters
  \/ RegisterCommands /\ GetFrame
  \/ ChildStopped
  \/ Inferior

Spec == Init /\ [][Next]_vars

(***************************************************************************)
(* Fairness.  x86_arch_child_stopped is run once for every stop (the       *)
(* upper layer's contract), so classification is weakly fair.  The upper   *)
(* layer waiting for a callback keeps resuming an idle thread while a call *)
(* is outstanding.  A called method that is resumed again and again       *)
(* eventually returns to its stub, however often breakpoints stop it: the  *)
(* return is strongly fair.                                                *)
(***************************************************************************)
CallOutstanding == saved_regs # NoRegs \/ rti_stack # <<>>

FairSpec ==
  /\ Spec
  /\ WF_vars(ChildStopped)
  /\ WF_vars(CallOutstanding /\ Continue)
  /\ SF_vars(Inferior /\ cause'.kind = "return")

(***************************************************************************)
(* Refinement mapping to the single frame stack of CallFrames: the         *)
(* runtime-invoke stack, innermost last, then the top-level slot when it   *)
(* is filled; ncalls counts the tokens handed out; a reported callback is  *)
(* the token of the outcome the classifier last gave.                      *)
(***************************************************************************)
MappedStack ==
  [i \in 1..Len(rti_stack) |-> [kind |-> "rti", token |-> rti_stack[i].callback_argument]]
  \o (IF saved_regs # NoRegs
        THEN <<[kind |-> "top", token |-> callback_argument]>> ELSE <<>>)

ReportedToken ==
  IF outcome.action \in {CALLBACK, CALLBACK_COMPLETED} THEN outcome.token ELSE 0

Frames == INSTANCE CallFrames
            WITH stack <- MappedStack, issued <- ncalls, reported <- ReportedToken,
                 MaxTokens <- MaxCalls

(***************************************************************************)
(* Properties                                                              *)
(***************************************************************************)
RuntimeInvokeData ==
  [saved_regs: Regs, saved_signal: Int, call_address: Int, exc_address: Int,
   debug: BOOLEAN, callback_argument: 1..MaxCalls]
StopActions == {"none", INTERRUPTED, STOPPED, NOTIFICATION, BREAKPOINT_HIT,
                CALLBACK, CALLBACK_COMPLETED}

ArchTypeOK ==
  /\ bpts \subseteq BreakpointInfo
  /\ mem \in [Addrs -> Bytes]
  /\ dr_regs \in [Slots -> 0..MaxIds]
  /\ status \in {"idle", "running", "stopped"}
  /\ stopsig \in {0, SIGTRAP, SIGSEGV, SIGSTOP}
  /\ regs \in Regs /\ current_regs \in Regs /\ saved_regs \in Regs
  /\ dr_status \subseteq Slots
  /\ last_signal \in PendingSignals \cup {0}
  /\ saved_signal \in PendingSignals \cup {0}
  /\ call_address \in Nat /\ callback_argument \in 0..MaxCalls
  /\ rti_stack \in Seq(RuntimeInvokeData)
  /\ ncalls \in 0..MaxCalls /\ Len(frames) <= MaxCalls + MaxPushes
  /\ outcome \in [action: StopActions, id: 0..MaxIds, token: 0..MaxCalls,
                 retval2: {"none", "edx", "exc_object", "uninitialized"}]

ClassifyStep == status = "stopped" /\ status' = "idle"

\* An injected call's return is recognised, and nothing else is: the
\* classifier reports CALLBACK exactly when the inferior stopped on the INT3
\* of an injected call's stub, with that call's callback token, and leaves
\* the inferior with the registers and pending signal it had just before
\* the call.  This holds across nested runtime-invokes, a top-level call
\* made inside a runtime-invoke, and breakpoints hit inside called methods.
CallReturnsRestoreCaller ==
  [][ClassifyStep =>
       /\ (cause.kind = "return") = (outcome'.action \in {CALLBACK, CALLBACK_COMPLETED})
       /\ cause.kind = "return" =>
            /\ outcome'.token = cause.frame.token
            /\ regs' = cause.frame.pre
            /\ last_signal' = cause.frame.sig]_vars

\* A stop on a debugger breakpoint is reported as a hit on that breakpoint,
\* and the inferior is left at the breakpoint's address: for an INT3 the
\* program counter is moved back over it, for a debug register it is where
\* the watch fired.
BreakpointStopsReported ==
  [][(ClassifyStep /\ cause.kind \in {"trap", "watch"}) =>
       /\ outcome'.action = BREAKPOINT_HIT
       /\ regs'.pc = cause.addr
       /\ \E b \in bpts : b.address = cause.addr /\ b.id = outcome'.id]_vars

\* A stop by a signal is reported as a signal and the program counter is
\* left where the signal stopped the thread.
SignalStopsNotRewound ==
  [][(ClassifyStep /\ cause.kind = "signal") =>
       /\ outcome'.action \in {STOPPED, INTERRUPTED}
       /\ regs'.pc = regs.pc]_vars

\* On an idle thread the runtime-invoke stack lists, innermost last, exactly
\* the runtime-invokes whose methods are still running in the inferior, each
\* with the address its stub returns to and its callback token.
RtiStackMirrorsInferior ==
  status = "idle" =>
    LET live == SelectSeq(frames, LAMBDA fr : fr.kind = "rti") IN
    /\ Len(live) = Len(rti_stack)
    /\ \A i \in 1..Len(live) :
         /\ live[i].trap = rti_stack[i].call_address
         /\ live[i].token = rti_stack[i].callback_argument

\* The register cache is the inferior's registers whenever the thread is
\* idle: every path that writes current_regs (the call builders, the
\* classifier's restores, abort_invoke, set/push/pop_registers) also writes
\* the inferior or re-reads it, so the next call builder snapshots what the
\* inferior really has.
RegisterCacheCoherent ==
  status = "idle" => current_regs = regs
\* The call-injection engine implements the frame-stack contract: every
\* step of the builders, the classifier and abort_invoke is a step of
\* CallFrames under the mapping, so tokens are fresh, nothing is pushed over
\* a top-level call, and each reported return is the innermost live call.
CallFramesRefined == Frames!Spec
\* A top-level call slot, once filled, is eventually freed: the call's
\* return is classified, restores the caller and clears saved_regs, so
\* call_method* stops answering RECURSIVE_CALL (lines 135, 183, 235, 289).
TopLevelSlotFreed ==
  saved_regs # NoRegs ~> saved_regs = NoRegs
====
