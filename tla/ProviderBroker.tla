------------------------------ MODULE ProviderBroker ------------------------------
(***************************************************************************)
(* scripts/provider-broker.mjs: createProviderBroker(...).execute(job).    *)
(*                                                                         *)
(* Several calls are made for one job.  A call checks the job against the  *)
(* journal's current authority, admits it once, stages its files, runs the *)
(* container against the caller's signal and a timer, cleans up, and       *)
(* records a cleanup and a result.  The journal, the staging area and the  *)
(* container executor are dependencies: each call of theirs may throw, a   *)
(* call of the journal also after it wrote.                                *)
(***************************************************************************)
EXTENDS Integers, Sequences, FiniteSets

CONSTANTS
    Calls,      \* the calls of execute
    MaxFaults   \* bound: calls of a dependency that throw, in a behaviour

VARIABLES
    authority,  \* "live", or "cancelled": journal.providerJobs for the job
    admission,  \* the calls admitOnce was durable for
    records,    \* recordCleanup and recordResult, in order
    staged,     \* the calls whose files are in the staging area
    running,    \* the call whose container runs, or 0
    launches,   \* containers launched
    call,       \* the calls: program counter and local variables
    faults

vars == <<authority, admission, records, staged, running, launches, call, faults>>

Idle == [pc |-> "idle", aborted |-> FALSE, code |-> "none", staged |-> FALSE,
         admitted |-> FALSE, cleanupRecorded |-> FALSE, result |-> "none", cancelled |-> FALSE, blame |-> {}]

At(c, pc) == call[c].pc = pc
Goto(c, pc) == call' = [call EXCEPT ![c].pc = pc]
Broken == faults < MaxFaults /\ faults' = faults + 1

\* A dependency throws: the call goes on at pc.
Throws(c, dependency, pc) ==
    /\ Broken
    /\ call' = [call EXCEPT ![c].pc = pc, ![c].blame = @ \cup {dependency}]
-----------------------------------------------------------------------------
(* Checks and admission. *)

Current == authority = "live"

\* The job is checked for its shape, deadline, envelope, budget and digests, its home and
\* egress authority, the provider session and the executor.  A call that any of them, or a
\* stale authority, refuses returns a closed failure and records nothing.
Refuse(c) ==
    /\ At(c, "idle")
    /\ call' = [call EXCEPT ![c].pc = "returned", ![c].result = "failed"]
    /\ UNCHANGED <<authority, admission, records, staged, running, launches, faults>>

\* The authority is read first; the verifiers and the session are awaited after it.
Check(c) ==
    /\ At(c, "idle") /\ Current
    /\ Goto(c, "admit")
    /\ UNCHANGED <<authority, admission, records, staged, running, launches, faults>>

AdmitOnce(c) ==
    /\ At(c, "admit")
    /\ \/ /\ admission = {}
          /\ admission' = {c}
          /\ \/ /\ call' = [call EXCEPT ![c].pc = "stage", ![c].admitted = TRUE]
                /\ UNCHANGED faults
             \/ Throws(c, "admission", "catch")
       \/ /\ admission # {}
          /\ Goto(c, "catch") /\ UNCHANGED <<admission, faults>>
    /\ UNCHANGED <<authority, records, staged, running, launches>>

\* Mutant of Stage: the handles are kept only once they have been checked.
StageLate(c) ==
    /\ At(c, "stage")
    /\ staged' = staged \cup {c}
    /\ \E valid \in BOOLEAN :
        call' = [call EXCEPT ![c].pc = IF valid THEN "launch" ELSE "catch", ![c].staged = valid]
    /\ UNCHANGED <<authority, admission, records, running, launches, faults>>

\* stage throws before or after it wrote; handles that are not the sterile allowlist are
\* refused while the files are there.
Stage(c) ==
    /\ At(c, "stage")
    /\ \/ /\ staged' = staged \cup {c}
          /\ \E pc \in {"launch", "catch"} :
                call' = [call EXCEPT ![c].pc = pc, ![c].staged = TRUE]
          /\ UNCHANGED faults
       \/ /\ staged' \in {staged, staged \cup {c}}
          /\ Throws(c, "staging", "catch")
    /\ UNCHANGED <<authority, admission, records, running, launches>>
-----------------------------------------------------------------------------
(* The container, the caller's signal and the timer. *)

Abort(c) ==
    /\ ~ call[c].aborted /\ call[c].pc \notin {"idle", "returned"}
    /\ call' = [call EXCEPT ![c].aborted = TRUE,
                    ![c].code = IF @ = "none" /\ At(c, "running") THEN "BROKER_CANCELLED" ELSE @]
    /\ UNCHANGED <<authority, admission, records, staged, running, launches, faults>>

\* The timer runs while the container does, and while an abort before launch is relayed.
Timeout(c) ==
    /\ call[c].pc \in {"running", "precancel"}
    /\ call[c].code = IF At(c, "running") THEN "none" ELSE "BROKER_CANCELLED"
    /\ call' = [call EXCEPT ![c].code = "BROKER_BUDGET_EXHAUSTED"]
    /\ UNCHANGED <<authority, admission, records, staged, running, launches, faults>>

Launch(c) ==
    /\ At(c, "launch")
    /\ IF call[c].aborted
         THEN /\ call' = [call EXCEPT ![c].pc = "precancel", ![c].code = "BROKER_CANCELLED"]
              /\ UNCHANGED <<running, launches>>
         ELSE /\ running' = c /\ launches' = launches + 1
              /\ Goto(c, "running")
    /\ UNCHANGED <<authority, admission, records, staged, faults>>

\* What execute resolves with.
Answers == [state : {"completed", "failed", "cancelled", "budget-exhausted"},
            proposal : BOOLEAN, closed : BOOLEAN, late : BOOLEAN]

\* validateContainerResult: receipts closed and bound to the bytes, a proposal exactly when
\* completed, started by the deadline.
Valid(answer) ==
    /\ answer.closed /\ ~ answer.late
    /\ answer.proposal <=> answer.state = "completed"

Ended(c, answer) ==
    [call EXCEPT ![c].pc = IF Valid(answer) THEN "cleanup" ELSE "catch",
                 ![c].result = IF Valid(answer) THEN answer.state ELSE @]

\* The race is won by the executor, or by the cancellation.  An answer is of a container that
\* has ended; an execution that throws may leave its container, and is not cancelled.
ContainerEnds(c) ==
    /\ At(c, "running") /\ running = c /\ call[c].code = "none"
    /\ \/ /\ running' = 0
          /\ \E answer \in Answers : call' = Ended(c, answer) /\ UNCHANGED faults
       \/ running' \in {0, c} /\ Throws(c, "execution", "catch")
    /\ UNCHANGED <<authority, admission, records, staged, launches>>

Lost(c) ==
    /\ At(c, "running") /\ call[c].code # "none"
    /\ Goto(c, "cancel")
    /\ UNCHANGED <<authority, admission, records, staged, running, launches, faults>>

\* Before launch: cancel, then fail, and the handler of the race cancels again.
Precancel(c) ==
    /\ At(c, "precancel")
    /\ \/ Goto(c, "cancel") /\ UNCHANGED faults
       \/ Throws(c, "cancel", "cancel")
    /\ UNCHANGED <<authority, admission, records, staged, running, launches>>

\* A timed-out job gets a result dated now, which is late when the deadline has passed too.
BudgetAnswer(late) ==
    [state |-> "budget-exhausted", proposal |-> FALSE, closed |-> TRUE, late |-> late]

Cancel(c) ==
    /\ At(c, "cancel")
    /\ \/ /\ running' = IF running = c THEN 0 ELSE running
          /\ UNCHANGED faults
          /\ \/ /\ call[c].code = "BROKER_CANCELLED"
                /\ call' = [call EXCEPT ![c].pc = "catch", ![c].cancelled = TRUE]
             \/ /\ call[c].code = "BROKER_BUDGET_EXHAUSTED"
                /\ \E late \in BOOLEAN : call' = Ended(c, BudgetAnswer(late))
       \/ UNCHANGED running /\ Throws(c, "cancel", "catch")
    /\ UNCHANGED <<authority, admission, records, staged, launches>>
-----------------------------------------------------------------------------
(* Cleanup and records. *)

Record(c, kind, state) == Append(records, [call |-> c, kind |-> kind, state |-> state])

\* One call of the journal: it writes, or throws without or after writing.
Journalled(c, kind, state, done, thrown) ==
    \/ /\ records' = Record(c, kind, state)
       /\ call' = [call EXCEPT ![c] = done] /\ UNCHANGED faults
    \/ /\ records' \in {records, Record(c, kind, state)}
       /\ Throws(c, "journal", thrown)

Cleanup(c) ==
    /\ At(c, "cleanup")
    /\ \/ /\ staged' = staged \ {c}
          /\ Goto(c, "recordRemoved") /\ UNCHANGED faults
       \/ UNCHANGED staged /\ Throws(c, "cleanup", "recordResidue")
    /\ UNCHANGED <<authority, admission, records, running, launches>>

Recorded(c, result) ==
    [call[c] EXCEPT !.pc = "recordResult", !.cleanupRecorded = TRUE, !.staged = FALSE,
                    !.result = result]

RecordRemoved(c) ==
    /\ At(c, "recordRemoved")
    /\ Journalled(c, "cleanup", "removed", Recorded(c, call[c].result), "recordResidue")
    /\ UNCHANGED <<authority, admission, staged, running, launches>>

\* Cleanup or its record threw: the result becomes a failure.
RecordResidue(c) ==
    /\ At(c, "recordResidue")
    /\ Journalled(c, "cleanup", "residue", Recorded(c, "failed"), "catch")
    /\ UNCHANGED <<authority, admission, staged, running, launches>>

RecordResult(c) ==
    /\ At(c, "recordResult")
    /\ Journalled(c, "result", call[c].result, [call[c] EXCEPT !.pc = "returned"], "catch")
    /\ UNCHANGED <<authority, admission, staged, running, launches>>

\* brokerFailure: a cancellation is "cancelled", everything else "failed".
Failure(c) == IF call[c].cancelled THEN "cancelled" ELSE "failed"

\* Mutant of Unsettled: any admitted call is recorded again.
UnsettledAlways(c) == call[c].admitted

Unsettled(c) == call[c].admitted /\ ~ call[c].cleanupRecorded

Catch(c) ==
    /\ At(c, "catch")
    /\ LET closed == [call[c] EXCEPT !.pc = "finally", !.result = Failure(c)]
       IN  IF Unsettled(c)
             THEN Journalled(c, "result", Failure(c), closed, "finally")
             ELSE /\ call' = [call EXCEPT ![c] = closed]
                  /\ UNCHANGED <<records, faults>>
    /\ UNCHANGED <<authority, admission, staged, running, launches>>

\* finally of a call that threw: what is staged is removed, the outcome is recorded.
Finally(c) ==
    /\ At(c, "finally")
    /\ \/ /\ ~ call[c].staged
          /\ Goto(c, IF Unsettled(c) THEN "recordNone" ELSE "returned")
          /\ UNCHANGED <<staged, faults>>
       \/ /\ call[c].staged /\ staged' = staged \ {c}
          /\ Goto(c, IF Unsettled(c) THEN "recordLast" ELSE "returned") /\ UNCHANGED faults
       \/ /\ call[c].staged /\ UNCHANGED staged
          /\ Throws(c, "cleanup", IF Unsettled(c) THEN "recordLeft" ELSE "returned")
    /\ UNCHANGED <<authority, admission, records, running, launches>>

LastState == [recordNone |-> "not-staged", recordLast |-> "removed", recordLeft |-> "residue"]

RecordLast(c) ==
    /\ call[c].pc \in DOMAIN LastState
    /\ Journalled(c, "cleanup", LastState[call[c].pc],
                  [call[c] EXCEPT !.pc = "returned"], "returned")
    /\ UNCHANGED <<authority, admission, staged, running, launches>>
-----------------------------------------------------------------------------
\* The orchestrator fences the job.
CancelAuthority ==
    /\ authority = "live" /\ authority' = "cancelled"
    /\ UNCHANGED <<admission, records, staged, running, launches, call, faults>>

Init ==
    /\ authority = "live" /\ admission = {} /\ records = <<>>
    /\ staged = {} /\ running = 0 /\ launches = 0 /\ faults = 0
    /\ call = [c \in Calls |-> Idle]

Step(c) ==
    \/ Refuse(c) \/ Check(c) \/ AdmitOnce(c) \/ Stage(c) \/ Abort(c) \/ Timeout(c)
    \/ Launch(c) \/ ContainerEnds(c) \/ Lost(c) \/ Precancel(c) \/ Cancel(c)
    \/ Cleanup(c) \/ RecordRemoved(c) \/ RecordResidue(c) \/ RecordResult(c)
    \/ Catch(c) \/ Finally(c) \/ RecordLast(c)

Next == CancelAuthority \/ \E c \in Calls : Step(c)

Spec == Init /\ [][Next]_vars
-----------------------------------------------------------------------------
(* Properties. *)

States == {"completed", "failed", "cancelled", "budget-exhausted"}

TypeOK ==
    /\ authority \in {"live", "cancelled"} /\ admission \subseteq Calls
    /\ staged \subseteq Calls /\ running \in Calls \cup {0} /\ launches \in Nat
    /\ \A i \in DOMAIN records :
        records[i] \in [call : Calls, kind : {"result"}, state : States]
            \cup [call : Calls, kind : {"cleanup"}, state : {"removed", "residue", "not-staged"}]
    /\ \A c \in Calls : call[c].result \in States \cup {"none"}

\* The journal holds at most one result for the job, whatever throws and however many calls
\* are made, and at most one container is launched; "removed" is written only when the files are gone; a completed result comes
\* after its "removed" and leaves no container behind (execute, its catch and its finally).
RecordsAreTrue ==
    /\ launches <= 1
    /\ \A i \in DOMAIN records :
        /\ records[i].kind = "result" =>
             \A j \in DOMAIN records : records[j].kind = "result" => i = j
        /\ records[i].state = "removed" => records[i].call \notin staged
        /\ records[i].state = "completed" =>
             /\ running = 0
             /\ \E j \in 1..(i - 1) : records[j].state = "removed"

Has(c, kind) == \E i \in DOMAIN records : records[i].call = c /\ records[i].kind = kind

\* A call that was admitted and has returned left a result and a cleanup record, no files
\* unless a stage or a cleanup of them threw, and no container unless its execution or its
\* cancellation threw: the broker cancels after an abort or a timeout, and only then.
ReturnedIsSettled ==
    \A c \in Calls :
        At(c, "returned") /\ call[c].admitted =>
            /\ "journal" \notin call[c].blame => Has(c, "result") /\ Has(c, "cleanup")
            /\ c \in staged => call[c].blame \cap {"staging", "cleanup"} # {}
            /\ running = c => call[c].blame \cap {"cancel", "execution"} # {}
=============================================================================
