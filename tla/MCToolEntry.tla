----------------------------- MODULE MCToolEntry -----------------------------
(* One server task and two tasks that handlers start, two pieces of work,  *)
(* two nested use_token blocks, and every shape of tool.                   *)
EXTENDS ToolEntry, TLC

CONSTANTS server, t1, t2, w1, w2

EveryTool == {shape \in ToolType : IsTool(shape)}

Symmetry == Permutations({t1, t2}) \cup Permutations({w1, w2})
=============================================================================
