------------------------------- MODULE RpcCalls -------------------------------
(***************************************************************************)
(* What a session promises the users of its RPC API, without queue, worker *)
(* or lifecycle.  A call is open from its registration to its settlement.  *)
(* While it is open all its frames go to one link, its final frame goes    *)
(* out at most once and nothing of the call follows it, and the call       *)
(* succeeds only after that frame.  The frames of a call that has already  *)
(* failed may still straggle out, on whatever link is there.               *)
(***************************************************************************)
EXTENDS Naturals

CONSTANTS Calls, Links    \* 0 stands for no link

VARIABLES
    status,    \* per call: "new", "open", "ok" or "failed"
    link,      \* per call: the link its last frame went to, or 0
    complete   \* per call: has its final frame gone out?

vars == <<status, link, complete>>

Init ==
    /\ status = [c \in Calls |-> "new"]
    /\ link = [c \in Calls |-> 0]
    /\ complete = [c \in Calls |-> FALSE]

Begin(c) ==
    /\ status[c] = "new"
    /\ status' = [status EXCEPT ![c] = "open"]
    /\ UNCHANGED <<link, complete>>

\* One write carries the next frame of each call of D to link l.
Deliver(D, l) ==
    /\ \A c \in D : /\ status[c] # "new" /\ ~complete[c]
                    /\ status[c] = "open" => link[c] \in {0, l}
    /\ link' = [c \in Calls |-> IF c \in D THEN l ELSE link[c]]
    /\ \E final \in SUBSET D :
        complete' = [c \in Calls |-> complete[c] \/ c \in final]
    /\ UNCHANGED status

\* Calls succeed alone, or together: sends do when the write they share ends.
Succeed(S) ==
    /\ \A c \in S : status[c] = "open" /\ complete[c]
    /\ status' = [c \in Calls |-> IF c \in S THEN "ok" ELSE status[c]]
    /\ UNCHANGED <<link, complete>>

\* Calls fail alone, or all together when the session ends.
Fail(F) ==
    /\ \A c \in F : status[c] \in {"new", "open"}
    /\ status' = [c \in Calls |-> IF c \in F THEN "failed" ELSE status[c]]
    /\ UNCHANGED <<link, complete>>

Next ==
    \/ \E c \in Calls : Begin(c)
    \/ \E S \in SUBSET Calls : Succeed(S) \/ Fail(S)
    \/ \E D \in SUBSET Calls, l \in Links : Deliver(D, l)

Spec == Init /\ [][Next]_vars

=============================================================================
