------------------------- MODULE MC_BreakpointManager -------------------------
(***************************************************************************)
(* Model-checking instance of BreakpointManager: three adjacent code       *)
(* addresses and two debug-address slots, so every slot can be taken while *)
(* an address is still free; two hardware trigger types.                   *)
(***************************************************************************)
EXTENDS BreakpointManager

MCAddrs   == {10, 11, 12}
MCHwTypes == {"execute", "write"}
====
