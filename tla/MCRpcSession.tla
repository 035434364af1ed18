---------------------------- MODULE MCRpcSession ----------------------------
(***************************************************************************)
(* Instances of RpcSession for TLC.                                        *)
(***************************************************************************)
EXTENDS RpcSession

CONSTANTS upload, call, held, push

MCKind ==
    [c \in Calls |-> CASE c = upload -> "multi"
                       [] c = call -> "single"
                       [] c = held -> "held"
                       [] c = push -> "send"]

\* The keep-alive ping of an upload outranks it; the others go in their order.
MCPrio == [c \in Calls |-> IF c = upload THEN 2 ELSE 1]
=============================================================================
