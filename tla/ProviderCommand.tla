------------------------------ MODULE ProviderCommand ------------------------------
(***************************************************************************)
(* scripts/provider-broker.mjs execute --run-dir ... --job-id ...: the     *)
(* command that carries one journalled job through the host helper.        *)
(*                                                                         *)
(* Every step is a helper command whose id is made of the job's id, so the *)
(* helper does each of them for the first process only; its answer may be  *)
(* lost.  The result document is linked into place once.                   *)
(***************************************************************************)
EXTENDS Naturals

CONSTANTS
    Calls       \* the processes started for one job

VARIABLES
    journalled, \* providerJobs of the release journal has the job
    asked,      \* helper commands done for the job
    staged,     \* what the helper staged for the job is there
    running,    \* its container runs
    document,   \* provider-results/<job>.json, or NoDocument
    call        \* the processes

vars == <<journalled, asked, staged, running, document, call>>

NoDocument == [status |-> "none", cleanup |-> "none"]
Idle == [pc |-> "idle", staged |-> FALSE, result |-> NoDocument]
At(c, pc) == call[c].pc = pc
Goto(c, pc) == call' = [call EXCEPT ![c].pc = pc]

\* brokerFailure: what an error becomes.
Blocked(c, pc) ==
    call' = [call EXCEPT ![c].pc = pc, ![c].result.status = "failed"]

\* Without the authority the document is a failure and the helper is not asked.
Begin(c) ==
    /\ At(c, "idle")
    /\ IF journalled THEN Goto(c, "preflight") ELSE Blocked(c, "write")
    /\ UNCHANGED <<journalled, asked, staged, running, document>>

\* The helper's first answer to a command id; later processes are refused.
First(command) == command \notin asked
Asked(command) == asked' = asked \cup {command}

Preflight(c) ==
    /\ At(c, "preflight")
    /\ Asked("preflight")
    /\ \/ First("preflight") /\ Goto(c, "stage")
       \/ Blocked(c, "write")
    /\ UNCHANGED <<journalled, staged, running, document>>

\* Only an answer that arrives tells the process that something is staged.
Stage(c) ==
    /\ At(c, "stage")
    /\ Asked("stage")
    /\ \/ /\ First("stage") /\ staged' = TRUE
          /\ \/ call' = [call EXCEPT ![c].pc = "execute", ![c].staged = TRUE]
             \/ Blocked(c, "write")
       \/ UNCHANGED staged /\ Blocked(c, "write")
    /\ UNCHANGED <<journalled, running, document>>

Execute(c) ==
    /\ At(c, "execute")
    /\ Asked("execute")
    /\ \/ /\ First("execute") /\ staged
          /\ \/ /\ \E status \in {"completed", "failed", "cancelled", "budget-exhausted"} :
                    call' = [call EXCEPT ![c].pc = "cleanup", ![c].result.status = status]
                /\ UNCHANGED running
             \/ running' \in BOOLEAN /\ Blocked(c, "cancel")
       \/ UNCHANGED running /\ Blocked(c, "cancel")
    /\ UNCHANGED <<journalled, staged, document>>

\* Best effort: a cancellation that fails is ignored.
CancelJob(c) ==
    /\ At(c, "cancel")
    /\ Asked("cancel") /\ Goto(c, "cleanup")
    /\ running' \in {running, running /\ ~ First("cancel")}
    /\ UNCHANGED <<journalled, staged, document>>

\* Mutant of CleanupState: a missing answer is taken for a complete cleanup.
CleanupAssumed(answered, done) == IF answered => done THEN "COMPLETE" ELSE "RESIDUE"

\* The cleanup's state, or RESIDUE when the answer is missing.
CleanupState(answered, done) == IF answered /\ done THEN "COMPLETE" ELSE "RESIDUE"

\* Anything but COMPLETE turns the result into a failure.
Cleaned(c, state) ==
    call' = [call EXCEPT ![c].pc = "write", ![c].result =
        [status |-> IF state = "COMPLETE" THEN @.status ELSE "failed", cleanup |-> state]]

Cleanup(c) ==
    /\ At(c, "cleanup")
    /\ Asked("cleanup")
    /\ \E answered, done \in BOOLEAN :
        /\ done => First("cleanup")
        /\ IF done THEN staged' = FALSE /\ running' = FALSE ELSE UNCHANGED <<staged, running>>
        /\ Cleaned(c, CleanupState(answered, done))
    /\ UNCHANGED <<journalled, document>>

\* atomicWriteJson links the file into place: a second document for the job is refused.
WriteDocument(c) ==
    /\ At(c, "write")
    /\ Goto(c, "exit")
    /\ document' = IF document = NoDocument THEN call[c].result ELSE document
    /\ UNCHANGED <<journalled, asked, staged, running>>

\* An abort of the orchestrator kills the process; nothing is sent for it any more.
Kill(c) ==
    /\ call[c].pc \notin {"idle", "exit"}
    /\ Goto(c, "exit")
    /\ UNCHANGED <<journalled, asked, staged, running, document>>

Init ==
    /\ journalled \in BOOLEAN /\ asked = {} /\ staged = FALSE /\ running = FALSE
    /\ document = NoDocument
    /\ call = [c \in Calls |-> Idle]

Next ==
    \E c \in Calls :
        \/ Begin(c) \/ Preflight(c) \/ Stage(c) \/ Execute(c) \/ CancelJob(c)
        \/ Cleanup(c) \/ WriteDocument(c) \/ Kill(c)

Spec == Init /\ [][Next]_vars
-----------------------------------------------------------------------------
(* Properties. *)

\* A document that says completed, or that carries a COMPLETE cleanup, was written when
\* nothing of the job was left on the host, and no later process for the job brings
\* anything back (runCli over the helper's one-time commands).
DocumentIsHonest ==
    document.status = "completed" \/ document.cleanup = "COMPLETE" => ~ staged /\ ~ running
=============================================================================
