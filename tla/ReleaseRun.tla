------------------------------- MODULE ReleaseRun -------------------------------
(***************************************************************************)
(* scripts/run-release-assessment.mjs over one run directory: the command  *)
(* run makes the directory and its journal, resume continues it.           *)
(*                                                                         *)
(* A command works on a copy of the journal in memory and replaces the     *)
(* file as a whole (writeJournal), so a process that dies leaves the last  *)
(* copy it wrote.  No lock keeps two commands apart.  A step that throws   *)
(* goes to finalizeReleaseFailure, which fences what is still admitted and *)
(* writes the closing state.  Resume never marks the journal ACTIVE.       *)
(*                                                                         *)
(* The broker either is injected by the caller (available or not) or is    *)
(* the production adapter, whose initialize asks the host helper.  A task  *)
(* reaches it as a job: one attempt under a fresh nonce.                   *)
(***************************************************************************)
EXTENDS Integers, FiniteSets

CONSTANTS
    Procs,        \* process identifiers
    AuthorOf,     \* sequence: the author task of a review (REVIEW_AUTHOR_TASK), 0 for an author
    Isolated,     \* config.runtime.mode = "isolated"
    MaxCalls,     \* bound: commands started
    MaxFaults     \* bound: kinds of fault in a behaviour, each at most once

Tasks == DOMAIN AuthorOf
Calls == 1..MaxCalls
\* What else can change: the registered source, the frozen snapshot, the draft, the config.
Drifts == {"source", "snapshot", "package", "config"}

VARIABLES
    journal,   \* release-run-state.json, or NoJournal
    receipt,   \* release-verification-receipt.json: the journal it binds
    effects,   \* isolated-runtime-journal.json: "none", "closed" when every effect of the
               \* flow has its answer in it, "open" when it stopped on the way
    proc,      \* the processes: program counter and copy of the journal
    asked,     \* history: the jobs handed to the broker
    calls, faults

vars == <<journal, receipt, effects, proc, asked, calls, faults>>

NoJournal == [status |-> "ABSENT"]
NoTask == [state |-> "ABSENT", attempt |-> 0, outcome |-> "none",
           proposal |-> 0, expects |-> 0, call |-> 0]
NoTasks == [t \in Tasks |-> NoTask]
IntegrityTerminal == {"FAILED_INTEGRITY", "DRIFTED", "CANCELLED"}
Terminal == IntegrityTerminal \cup {"DRAFT_VALIDATED_RELEASE_BLOCKED"}
Draft == "DRAFT_VALIDATED_RELEASE_BLOCKED"
ResumableStages == {"OFFLINE_DRAFT", "PROVIDER_TASKS", "PACKAGE_VALIDATION"}

\* The journal prepareNewRun writes.
Fresh(c) ==
    [status |-> "ACTIVE", stage |-> "OFFLINE_DRAFT", cleanup |-> "not-required",
     tasks |-> NoTasks, providerJobs |-> {}, passed |-> "none", runtime |-> "none",
     package |-> "none", by |-> c]

Idle == [pc |-> "idle", verb |-> "none", call |-> 0, doc |-> NoJournal, task |-> 1,
         previous |-> [t \in Tasks |-> 0], available |-> FALSE,
         aborted |-> FALSE]

At(p, pc) == proc[p].pc = pc
Doc(p) == proc[p].doc
Run(p) == proc[p].verb = "run"

\* The process goes on with its copy changed and nothing written.
Keep(p, doc, pc) ==
    /\ proc' = [proc EXCEPT ![p].doc = doc, ![p].pc = pc]
    /\ UNCHANGED <<journal, receipt, effects, asked, calls, faults>>

\* writeJournal: the file becomes the copy.
Write(p, doc, pc) ==
    /\ journal' = [doc EXCEPT !.by = proc[p].call]
    /\ proc' = [proc EXCEPT ![p].doc = journal', ![p].pc = pc]
    /\ UNCHANGED <<receipt, effects, asked, calls, faults>>

Throw(p) == Keep(p, Doc(p), "finalize")

Closing(doc, status) ==
    [doc EXCEPT !.status = status, !.stage = status, !.cleanup = "integrity-stop"]
IntegrityStop(p, status) == Write(p, Closing(Doc(p), status), "finalize")
Changed(what) == what \in faults
-----------------------------------------------------------------------------
(* Starting. *)

Begun(p, verb, doc, pc) ==
    /\ At(p, "idle") /\ calls < MaxCalls
    /\ calls' = calls + 1
    /\ proc' = [proc EXCEPT ![p] =
            [Idle EXCEPT !.verb = verb, !.call = calls', !.doc = doc, !.pc = pc]]

StartRun(p) ==
    /\ journal = NoJournal
    /\ Begun(p, "run", Fresh(calls + 1), "initialize")
    /\ journal' = Fresh(calls + 1)
    /\ UNCHANGED <<receipt, effects, asked, faults>>

CrashRecovery(doc) ==
    /\ doc.stage = "ISOLATED_RUNTIME" /\ effects # "none"
    /\ \/ doc.status = "ACTIVE" /\ doc.cleanup = "not-required"
       \/ doc.status = "RECOVERABLE_FAILURE" /\ doc.cleanup = "failed-and-closed"

Resumable(doc) ==
    /\ doc.status \notin Terminal
    /\ doc.cleanup = "failed-and-closed"
    /\ doc.stage \in ResumableStages

StartResume(p) ==
    /\ journal # NoJournal
    /\ CrashRecovery(journal) \/ Resumable(journal)
    /\ Begun(p, "resume", journal, "initialize")
    /\ UNCHANGED <<journal, receipt, effects, asked, faults>>

\* The production adapter needs the helper's provider authorities; the helper's
\* result of reconcile.list is closed over these keys.
ReconcileKeys == {"installationId", "resources", "state", "reconciledCommands"}
Accepted(keys) == keys \subseteq ReconcileKeys
Initialized(keys) == Accepted(keys) /\ "providerAuthorities" \in keys

AfterInitialize(p) ==
    IF ~ Run(p) THEN "revalidate" ELSE IF Isolated THEN "runtime" ELSE "draft"

Initialize(p) ==
    /\ At(p, "initialize")
    /\ \E offered, production \in BOOLEAN :
        LET keys == ReconcileKeys \cup IF offered THEN {"providerAuthorities"} ELSE {}
            ready == IF production THEN Initialized(keys) ELSE offered
            doc == [Doc(p) EXCEPT !.stage =
                       IF AfterInitialize(p) = "runtime" THEN "ISOLATED_RUNTIME" ELSE @]
        IN  /\ proc' = [proc EXCEPT ![p].available = ready, ![p].doc = doc,
                                    ![p].pc = AfterInitialize(p)]
            /\ journal' = IF Run(p) THEN doc ELSE journal
    /\ UNCHANGED <<receipt, effects, asked, calls, faults>>

\* Where a resume goes on from the stage of the journal it found.
Continue(p) ==
    LET doc == Doc(p)
    IN  IF Isolated /\ doc.runtime = "none" THEN Keep(p, doc, "runtime")
        ELSE IF doc.stage = "ISOLATED_RUNTIME" THEN Keep(p, doc, "staged")
        ELSE IF doc.stage = "OFFLINE_DRAFT" THEN Throw(p)
        ELSE Keep(p, doc, IF doc.stage = "PROVIDER_TASKS" THEN "begin" ELSE "validate")

Blocked(doc) == Isolated /\ doc.runtime = "BLOCKED"

\* revalidateResume: the config and the git binding of the source, the isolated
\* runtime, the snapshot with its manifest, and the source once more; the source
\* may have changed between its two looks.
Revalidate(p) ==
    /\ At(p, "revalidate")
    /\ \/ (Changed("config") \/ Blocked(Doc(p)) \/ Changed("snapshot")) /\ Throw(p)
       \/ /\ ~ Changed("config")
          /\ \/ Changed("source") /\ IntegrityStop(p, "DRIFTED")
             \/ /\ ~ Blocked(Doc(p))
                /\ IF Changed("snapshot") \/ Changed("source")
                     THEN IntegrityStop(p, "FAILED_INTEGRITY")
                     ELSE Continue(p)
-----------------------------------------------------------------------------
(* The isolated runtime and the offline draft. *)

\* Without a registered runtime and snapshot, or a sealed secret, nothing is started.
NoRuntime(p) ==
    /\ At(p, "runtime")
    /\ Write(p, Doc(p), "staged")

\* flow.run: the helper's effects are journalled before and after each of them; what
\* an earlier command journalled is not done again.
RuntimeEffects(p) ==
    /\ proc[p].pc \in {"runtime", "running"} /\ effects # "closed"
    /\ effects' \in {"open", "closed"}
    /\ proc' = [proc EXCEPT ![p].pc = "running"]
    /\ UNCHANGED <<journal, receipt, asked, calls, faults>>

\* Whatever flow.run returns is stored, a result with residue or with effects that
\* have no answer too (BLOCKED, which stands for CANCELLED as well), and limits the
\* draft; SUCCEEDED has every answer.  A flow that refused before its first effect
\* left no journal to digest, which throws.
RuntimeResult(p) ==
    /\ proc[p].pc \in {"runtime", "running"}
    /\ IF effects = "none" THEN Throw(p)
       ELSE \E result \in {"SUCCEEDED", "BLOCKED"} :
                /\ result = "SUCCEEDED" => effects = "closed"
                /\ Write(p, [Doc(p) EXCEPT !.runtime = result], "staged")

\* Back to the stage of the draft, whatever the result.
RuntimeDone(p) ==
    /\ At(p, "staged")
    /\ Write(p, [Doc(p) EXCEPT !.stage = "OFFLINE_DRAFT"],
             IF Run(p) THEN "draft" ELSE "finalize")

\* The offline draft between two looks at the snapshot and one at the source.
OfflineDraft(p) ==
    /\ At(p, "draft")
    /\ \/ Throw(p)
       \/ Changed("snapshot") /\ IntegrityStop(p, "FAILED_INTEGRITY")
       \/ /\ ~ proc[p].aborted /\ ~ Changed("snapshot")
          /\ IF Changed("source")
               THEN Write(p, [Doc(p) EXCEPT !.status = "FAILED_INTEGRITY",
                                            !.stage = "FAILED_INTEGRITY"], "finalize")
               ELSE Write(p, [Doc(p) EXCEPT !.package = "bound", !.stage = "PROVIDER_TASKS"],
                          "begin")
-----------------------------------------------------------------------------
(* executeProviderTasks. *)

BeginTasks(p) ==
    /\ At(p, "begin")
    /\ proc' = [proc EXCEPT ![p].previous = [t \in Tasks |-> Doc(p).tasks[t].attempt],
                            ![p].doc.tasks = NoTasks, ![p].task = 1, ![p].pc = "task"]
    /\ UNCHANGED <<journal, receipt, effects, asked, calls, faults>>

Task(p) == proc[p].task
\* Mutant of Attempt: attempts counted from zero.
AttemptFromZero(p) == proc[p].previous[Task(p)]

Attempt(p) == proc[p].previous[Task(p)] + 1
Author(t) == AuthorOf[t]
AuthorProposal(doc, t) == IF Author(t) = 0 THEN 0 ELSE doc.tasks[Author(t)].proposal
Skipped(doc, t) == Author(t) # 0 /\ AuthorProposal(doc, t) = 0

Admitted(p) ==
    [NoTask EXCEPT !.state = "ADMITTED", !.attempt = Attempt(p), !.call = proc[p].call,
                   !.outcome = "provider-unavailable",
                   !.expects = AuthorProposal(Doc(p), Task(p))]

\* A review without its author's proposal is left out of the journal; without a
\* broker the task is LIMITED.  Neither is written.
PassOver(p) ==
    /\ At(p, "task") /\ Task(p) \in Tasks
    /\ \/ /\ Skipped(Doc(p), Task(p))
          /\ proc' = [proc EXCEPT ![p].task = @ + 1]
       \/ /\ ~ Skipped(Doc(p), Task(p)) /\ ~ proc[p].available
          /\ proc' = [proc EXCEPT ![p].task = @ + 1,
                 ![p].doc.tasks[Task(p)] = [Admitted(p) EXCEPT !.state = "LIMITED"]]
    /\ UNCHANGED <<journal, receipt, effects, asked, calls, faults>>

Job(p) == [task |-> Task(p), attempt |-> Attempt(p), nonce |-> proc[p].call]
Authority(job) == [job |-> job, cancelled |-> FALSE]
SameJob(authority, job) ==
    authority.job.task = job.task /\ authority.job.attempt = job.attempt

\* createBrokerTransport: the authority is journalled before the broker is asked.
AdmitTask(p) ==
    /\ At(p, "task") /\ Task(p) \in Tasks
    /\ ~ Skipped(Doc(p), Task(p)) /\ proc[p].available
    /\ Write(p, [Doc(p) EXCEPT
            !.tasks[Task(p)] = Admitted(p),
            !.providerJobs = {a \in @ : ~ SameJob(a, Job(p))} \cup {Authority(Job(p))}], "ask")

\* The outcome of a task: an error of the broker is an outcome as well.
CloseTask(p, outcome) ==
    LET proposal == IF outcome = "succeeded" THEN proc[p].call ELSE 0
        doc == [Doc(p) EXCEPT !.by = proc[p].call,
                    !.tasks[Task(p)] = [@ EXCEPT !.state = "CLOSED", !.outcome = outcome,
                                                 !.proposal = proposal]]
    IN  /\ journal' = doc
        /\ proc' = [proc EXCEPT ![p].doc = doc, ![p].pc = "task", ![p].task = @ + 1]
        /\ UNCHANGED <<receipt, effects, asked, calls, faults>>

\* The job is handed over, or the call fails before that (always when aborted).
AskBroker(p) ==
    /\ At(p, "ask")
    /\ \/ CloseTask(p, "failed")
       \/ /\ ~ proc[p].aborted
          /\ asked' = asked \cup {Job(p)}
          /\ proc' = [proc EXCEPT ![p].pc = "broker"]
          /\ UNCHANGED <<journal, receipt, effects, calls, faults>>

\* A review succeeds only if it names the proposal it was asked to review.
Binds(expects, names) == expects = 0 \/ names = expects

Answer(p) ==
    /\ At(p, "broker")
    /\ \/ CloseTask(p, "failed")
       \/ /\ ~ proc[p].aborted
          /\ LET expects == Doc(p).tasks[Task(p)].expects
             IN  \E names \in {0, expects} :
                    CloseTask(p, IF Binds(expects, names) THEN "succeeded"
                                 ELSE "contract-invalid")

\* Mutant of EverySucceeded: a task that was limited does not count.
EveryClosedSucceeded(doc) ==
    \A t \in Tasks : doc.tasks[t].state = "CLOSED" => doc.tasks[t].outcome = "succeeded"

EverySucceeded(doc) ==
    \A t \in Tasks : doc.tasks[t] # NoTask => doc.tasks[t].outcome = "succeeded"

EndTasks(p) ==
    /\ At(p, "task") /\ Task(p) \notin Tasks
    /\ LET passed == EverySucceeded(Doc(p))
           doc == [Doc(p) EXCEPT !.passed = IF passed THEN "PASSED" ELSE "LIMITED"]
       IN  IF Run(p) /\ Changed("snapshot") THEN IntegrityStop(p, "FAILED_INTEGRITY")
           ELSE IF ~ Run(p) /\ ~ passed THEN Keep(p, doc, "finalize")
           ELSE Write(p, [doc EXCEPT !.stage = "PACKAGE_VALIDATION"], "validate")
-----------------------------------------------------------------------------
(* The end of a command. *)

Validated(doc) == [doc EXCEPT !.status = Draft, !.stage = Draft, !.cleanup = "verified"]

\* resume compares the digests of the draft, run binds the ones it finds; run looks at
\* the snapshot and the source again.
Validate(p) ==
    /\ At(p, "validate")
    /\ \/ Changed("package") /\ Throw(p)
       \/ /\ Changed("package") /\ ~ Run(p)
          /\ IntegrityStop(p, "FAILED_INTEGRITY")
       \/ /\ Run(p) /\ (Changed("snapshot") \/ Changed("source"))
          /\ IntegrityStop(p, "FAILED_INTEGRITY")
       \/ /\ Run(p) /\ ~ Changed("snapshot") /\ ~ Changed("source")
          /\ Write(p, [Validated(Doc(p)) EXCEPT !.package =
                 IF Changed("package") THEN "rebound" ELSE @], "receipt")
       \/ /\ ~ Run(p) /\ ~ Changed("package")
          /\ Write(p, Validated(Doc(p)), "receipt")

\* verifyReleaseRun: the journal is loaded again and the receipt is exclusive.
VerifyRun(p) ==
    /\ At(p, "receipt")
    /\ IF (Changed("package") /\ journal.package = "bound") \/ receipt \notin {NoJournal, journal}
         THEN Throw(p)
         ELSE /\ receipt' = journal
              /\ proc' = [proc EXCEPT ![p] = Idle]
              /\ UNCHANGED <<journal, effects, asked, calls, faults>>

Cancelled(task) ==
    IF task.state # "ADMITTED" THEN task
    ELSE [task EXCEPT !.state = "CANCELLED", !.outcome = "cancelled"]

\* finalizeReleaseFailure: the authorities of admitted tasks are fenced.
Fenced(doc) ==
    [doc EXCEPT
        !.tasks = [t \in Tasks |-> Cancelled(doc.tasks[t])],
        !.providerJobs =
            {[a EXCEPT !.cancelled = @ \/ /\ doc.tasks[a.job.task].state = "ADMITTED"
                                          /\ doc.tasks[a.job.task].attempt = a.job.attempt] :
                a \in doc.providerJobs}]

\* Mutant of Finalize: a run that is already terminal is closed like any other.
FinalizeAnyStatus(p) == At(p, "finalize") /\ Keep(p, Fenced(Doc(p)), "close")

Finalize(p) ==
    /\ At(p, "finalize")
    /\ IF Doc(p).status \in IntegrityTerminal
         THEN /\ proc' = [proc EXCEPT ![p] = Idle]
              /\ UNCHANGED <<journal, receipt, effects, asked, calls, faults>>
       ELSE IF Fenced(Doc(p)).providerJobs # Doc(p).providerJobs
         THEN Write(p, Fenced(Doc(p)), "close")
         ELSE Keep(p, Fenced(Doc(p)), "close")

\* The broker's own cancel and cleanup may leave residue.
Close(p) ==
    /\ At(p, "close")
    /\ \E residue \in BOOLEAN :
        LET doc == [Doc(p) EXCEPT
                !.status = IF proc[p].aborted THEN "CANCELLED" ELSE "RECOVERABLE_FAILURE",
                !.cleanup = IF residue THEN "residue"
                            ELSE IF proc[p].aborted THEN "cancelled-and-closed"
                            ELSE "failed-and-closed", !.by = proc[p].call]
        IN  journal' = doc
    /\ proc' = [proc EXCEPT ![p] = Idle]
    /\ UNCHANGED <<receipt, effects, asked, calls, faults>>
-----------------------------------------------------------------------------
(* The world. *)

Fault(kind) ==
    /\ kind \notin faults /\ Cardinality(faults) < MaxFaults
    /\ faults' = faults \cup {kind}

Working == {"revalidate", "runtime", "running", "staged", "draft", "begin", "task", "validate", "receipt"}

\* A file or git operation fails where nothing catches it.
Error(p) ==
    /\ proc[p].pc \in Working
    /\ Fault("error")
    /\ proc' = [proc EXCEPT ![p].pc = "finalize"]
    /\ UNCHANGED <<journal, receipt, effects, asked, calls>>

\* SIGINT or SIGTERM: only the abort signal is raised.
Abort(p) ==
    /\ ~ At(p, "idle") /\ ~ proc[p].aborted
    /\ Fault("abort")
    /\ proc' = [proc EXCEPT ![p].aborted = TRUE]
    /\ UNCHANGED <<journal, receipt, effects, asked, calls>>

Crash(p) ==
    /\ ~ At(p, "idle")
    /\ Fault("crash")
    /\ proc' = [proc EXCEPT ![p] = Idle]
    /\ UNCHANGED <<journal, receipt, effects, asked, calls>>

Drift(kind) ==
    /\ journal # NoJournal /\ Fault(kind)
    /\ UNCHANGED <<journal, receipt, effects, proc, asked, calls>>

Init ==
    /\ journal = NoJournal /\ receipt = NoJournal /\ effects = "none"
    /\ proc = [p \in Procs |-> Idle]
    /\ asked = {} /\ calls = 0 /\ faults = {}

Step(p) ==
    \/ Initialize(p) \/ Revalidate(p) \/ NoRuntime(p) \/ RuntimeEffects(p)
    \/ RuntimeResult(p) \/ RuntimeDone(p)
    \/ OfflineDraft(p) \/ BeginTasks(p) \/ PassOver(p) \/ AdmitTask(p) \/ AskBroker(p)
    \/ Answer(p) \/ EndTasks(p) \/ Validate(p) \/ VerifyRun(p) \/ Finalize(p) \/ Close(p)

Next ==
    \/ \E p \in Procs :
        StartRun(p) \/ StartResume(p) \/ Step(p) \/ Error(p) \/ Abort(p) \/ Crash(p)
    \/ \E kind \in Drifts : Drift(kind)

Spec == Init /\ [][Next]_vars
-----------------------------------------------------------------------------
(* Properties. *)

Outcomes == {"none", "provider-unavailable", "succeeded", "failed", "contract-invalid",
             "cancelled"}
TaskRecord ==
    [state : {"ABSENT", "ADMITTED", "LIMITED", "CLOSED", "CANCELLED"}, attempt : 0..MaxCalls,
     outcome : Outcomes, proposal : 0..MaxCalls, expects : 0..MaxCalls, call : 0..MaxCalls]
Document ==
    [status : {"ACTIVE", "RECOVERABLE_FAILURE"} \cup Terminal,
     stage : {"ISOLATED_RUNTIME"} \cup ResumableStages \cup Terminal,
     cleanup : {"not-required", "integrity-stop", "verified", "residue", "failed-and-closed",
                "cancelled-and-closed"},
     tasks : [Tasks -> TaskRecord],
     providerJobs : SUBSET [job : [task : Tasks, attempt : Calls, nonce : Calls],
                            cancelled : BOOLEAN],
     passed : {"none", "PASSED", "LIMITED"}, runtime : {"none", "SUCCEEDED", "BLOCKED"},
     package : {"none", "bound", "rebound"}, by : Calls]

\* The type of the journal, of the copies of it and of the history.
TypeOK ==
    /\ journal = NoJournal \/ journal \in Document
    /\ receipt = NoJournal \/ receipt \in Document
    /\ \A p \in Procs : ~ At(p, "idle") => Doc(p) \in Document
    /\ asked \subseteq [task : Tasks, attempt : Calls, nonce : Calls]

\* A run that got as far as the validation of its package has a draft, says LIMITED unless
\* every task (the left-out reviews included) succeeded, and an admitted review is of the
\* very proposal that its author task has in the same journal; an isolated effect that is
\* left open under a validated draft is owned to by a BLOCKED result in it, whatever was
\* crashed and resumed on the way (executeProviderTasks, executeIsolatedRuntime, the ends
\* of run and resume).
DraftIsHonest ==
    journal # NoJournal /\ journal.stage \in {"PACKAGE_VALIDATION", Draft} =>
        /\ journal.package # "none"
        /\ journal.status = Draft /\ effects = "open" => journal.runtime = "BLOCKED"
        /\ (\A t \in Tasks : journal.tasks[t].outcome = "succeeded") \/ journal.passed = "LIMITED"
        /\ \A t \in Tasks :
            journal.tasks[t].proposal # 0 /\ Author(t) # 0 =>
                journal.tasks[t].expects = journal.tasks[Author(t)].proposal

\* With one command at a time, no later command, finalizer or crash takes a journal out of
\* FAILED_INTEGRITY, DRIFTED or CANCELLED (finalizeReleaseFailure, assertResumable).
IntegrityKept ==
    journal # NoJournal /\ journal.status \in IntegrityTerminal
        => journal'.status = journal.status
IntegrityIsFinal == [][IntegrityKept]_vars

\* provider-broker.test.mjs: "resumption requires a new attempt, fence, admission digest
\* and nonce".  No two jobs are handed over for one attempt of a task.
AttemptsAreFresh ==
    \A a, b \in asked : SameJob([job |-> a], b) => a = b
=============================================================================
