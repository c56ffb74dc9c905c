------------------------------- MODULE MCPic -------------------------------
(***************************************************************************)
(* An instance of Pic for TLC: the sets of register values a guest writes, *)
(* and a hypervisor that refuses one line.                                 *)
(***************************************************************************)
EXTENDS Pic

OpenOrClosed == {{}, Irq}
SomeLevels == {{1}}
CascadeOn == {{CascadeLine}}
Intel == {{"intel"}}
AllButOne == {Irq \ {1}}
=============================================================================
