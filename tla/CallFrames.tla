------------------------------ MODULE CallFrames ------------------------------
(***************************************************************************)
(* What the call-injection engine of i386-arch.c promises the upper layer, *)
(* as the single frame stack that spec.md (section 9) describes: every     *)
(* injected call is a frame with a fresh callback token; the simple        *)
(* conventions push a "top" frame that nothing may be pushed over (the     *)
(* RECURSIVE_CALL check), the runtime-invoke conventions push "rti"        *)
(* frames that nest; a classified call return pops the innermost frame and *)
(* reports its token; abort_invoke pops the innermost runtime-invoke.      *)
(***************************************************************************)
EXTENDS Naturals, Sequences, SequencesExt

CONSTANT MaxTokens   \* bound on injected calls

VARIABLES
  stack,     \* live frames, innermost last: [kind, token]
  issued,    \* tokens handed out so far
  reported   \* token of the call return last reported, 0 if none

cfVars == <<stack, issued, reported>>

Kinds == {"top", "rti"}

TopLevelActive == \E i \in 1..Len(stack) : stack[i].kind = "top"

CFInit ==
  /\ stack = <<>>
  /\ issued = 0
  /\ reported = 0

\* A call builder: refused while a top-level frame is live; otherwise a
\* frame with the next token is pushed.
Invoke(kind) ==
  /\ ~TopLevelActive
  /\ issued < MaxTokens
  /\ stack' = Append(stack, [kind |-> kind, token |-> issued + 1])
  /\ issued' = issued + 1
  /\ UNCHANGED reported

\* The innermost call's stub traps back and the classifier reports it.
Return ==
  /\ stack # <<>>
  /\ reported' = Last(stack).token
  /\ stack' = Front(stack)
  /\ UNCHANGED issued

\* abort_invoke unwinds the innermost frame, which must be a runtime-invoke.
Abort ==
  /\ stack # <<>>
  /\ Last(stack).kind = "rti"
  /\ stack' = Front(stack)
  /\ UNCHANGED <<issued, reported>>

\* The upper layer resumes the inferior; the last report is consumed.
Acknowledge ==
  /\ reported' = 0
  /\ UNCHANGED <<stack, issued>>

CFNext ==
  \/ \E k \in Kinds : Invoke(k)
  \/ Return
  \/ Abort
  \/ Acknowledge

Spec == CFInit /\ [][CFNext]_cfVars
====
