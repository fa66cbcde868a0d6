------------------------------ MODULE MCHostHelper ------------------------------
(* Instances of HostHelper for TLC: one run, the commands of two attempts.    *)
EXTENDS HostHelper

CONSTANTS create, destroy, next, run1, vm1

\* An attempt that creates and destroys a runtime.
Lifecycle == {create, destroy}
\* The same, and a command of the attempt that replaces it under a higher fence.
Commands == {create, destroy, next}
OneCommand == {create}

OneRun == [k \in Keys |-> run1]
Fences == [k \in Keys |-> IF k = next THEN 2 ELSE 1]
OperationNames ==
    [k \in Keys |-> IF k = create THEN "vm.create"
                    ELSE IF k = destroy THEN "vm.destroy" ELSE "other"]
OneRuntime == [k \in Keys |-> vm1]
=============================================================================
