------------------------------ MODULE MC_I386Arch ------------------------------
(***************************************************************************)
(* Model-checking instance of I386Arch: two one-byte instructions at 10    *)
(* and 11, one debug-address slot, the notification call site at 20, two  *)
(* injected calls (enough to nest a call inside a called method), one      *)
(* shape of each call, and a pending signal that may or may not be set.   *)
(***************************************************************************)
EXTENDS I386Arch

MCAddrs        == {10, 11}
MCHwTypes      == {"execute"}
MCMethods      == {30}
MCStringLens   == {0}
MCInvokeShapes == {[params |-> 1, blob |-> 0]}
MCPendingSignals == {SIGINT}
====
