----------------------------- MODULE MCDispatch -----------------------------
(* A lazily sticky group of two items over two channels: first whichever     *)
(* channel has the model, then one channel by name.                          *)
EXTENDS Dispatch, TLC

CONSTANTS m1, c1, c2

MCItems == <<[model |-> m1, bound |-> NoChannel], [model |-> m1, bound |-> c1]>>

MCPriority == (c1 :> 0) @@ (c2 :> 1)
=============================================================================
