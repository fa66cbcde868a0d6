------------------------------ MODULE EffectLedger ------------------------------
(***************************************************************************)
(* What the host helper promises its callers: a ledger of commands.  Each  *)
(* command is admitted once, its effect is performed at most once and only *)
(* after the admission, and it is concluded with one result, after which   *)
(* nothing happens to it any more.                                         *)
(***************************************************************************)
CONSTANTS Keys, Results

VARIABLES
    effect,   \* command -> "none", "admitted" or "performed"
    result    \* command -> its result, "none" while it has none

vars == <<effect, result>>

Init ==
    /\ effect = [k \in Keys |-> "none"]
    /\ result = [k \in Keys |-> "none"]

Admit(k) ==
    /\ effect[k] = "none"
    /\ effect' = [effect EXCEPT ![k] = "admitted"]
    /\ UNCHANGED result

Perform(k) ==
    /\ effect[k] = "admitted" /\ result[k] = "none"
    /\ effect' = [effect EXCEPT ![k] = "performed"]
    /\ UNCHANGED result

\* An admitted command may be concluded without its effect, after a crash.
Conclude(k, r) ==
    /\ effect[k] # "none" /\ result[k] = "none"
    /\ result' = [result EXCEPT ![k] = r]
    /\ UNCHANGED effect

Next == \E k \in Keys : Admit(k) \/ Perform(k) \/ \E r \in Results : Conclude(k, r)
Spec == Init /\ [][Next]_vars
=============================================================================
