------------------------------ MODULE RunLifecycle ------------------------------
(***************************************************************************)
(* The life of one assessment run inside the control-plane server.         *)
(*                                                                         *)
(* The server (apps/server/src/app.ts) keeps every run in SQLite           *)
(* (packages/persistence/src/index.ts) and moves it through the state      *)
(* table of packages/workflow/src/index.ts.  Four actors touch one run:    *)
(*                                                                         *)
(*   operator   HTTP mutations, each carrying If-Match (the row version    *)
(*              the operator last saw) and an Idempotency-Key;             *)
(*   resolver   the asynchronous tail of resolve-target, which outlives    *)
(*              the request's transaction and admits a snapshot later;     *)
(*   worker     the assessment engine that is not in the repository: it    *)
(*              reads the run, works, and writes back through updateRun;   *)
(*   crash      the server process dies and restarts over the same file.   *)
(*                                                                         *)
(* Node runs one handler at a time and better-sqlite3 is synchronous, so a *)
(* handler without an await is one action.                                 *)
(***************************************************************************)
EXTENDS Integers, Sequences, FiniteSets

CONSTANTS
    Keys,         \* Idempotency-Key values the operator uses
    Snapshots,    \* snapshot identifiers a resolver can return
    NoSnapshot,   \* "no targetSnapshotId in the document"
    NoView,       \* "the worker holds no copy of the run"
    Slots,        \* bound: resolver calls in flight at once
    ReviewKinds,  \* the review kinds createPackage requires
    HasResolver,  \* is options.snapshotResolver configured
    WorkerMoves,  \* the transitions the external worker performs
    Offered,      \* bound: the operations the operator uses
    MaxVersion,   \* bound: operator and worker stop at this row version
    MaxCrashes    \* bound: server restarts

RunStates ==
    {"DRAFT", "RESOLVING_TARGET", "READY", "EXECUTING", "WAITING_INPUT",
     "PAUSING", "PAUSED", "RECOVERABLE_FAILURE", "VALIDATING",
     "REVIEW_REQUIRED", "PACKAGING", "CANCELLING", "COMPLETED", "CANCELLED",
     "FAILED"}

Terminal == {"COMPLETED", "CANCELLED", "FAILED"}

\* The frozen transition table of the workflow package.
Transitions ==
    ({"DRAFT"} \X {"RESOLVING_TARGET"})
    \cup ({"RESOLVING_TARGET"} \X {"READY", "RECOVERABLE_FAILURE", "CANCELLING"})
    \cup ({"READY"} \X {"EXECUTING", "CANCELLING"})
    \cup ({"EXECUTING"} \X {"WAITING_INPUT", "PAUSING", "VALIDATING",
                            "RECOVERABLE_FAILURE", "FAILED", "CANCELLING"})
    \cup ({"WAITING_INPUT"} \X {"EXECUTING", "PAUSING", "FAILED", "CANCELLING"})
    \cup ({"PAUSING"} \X {"PAUSED", "RECOVERABLE_FAILURE", "CANCELLING"})
    \cup ({"PAUSED"} \X {"EXECUTING", "CANCELLING"})
    \cup ({"RECOVERABLE_FAILURE"} \X {"READY", "EXECUTING", "FAILED", "CANCELLING"})
    \cup ({"VALIDATING"} \X {"REVIEW_REQUIRED", "RECOVERABLE_FAILURE", "FAILED",
                             "CANCELLING"})
    \cup ({"REVIEW_REQUIRED"} \X {"PACKAGING", "EXECUTING", "FAILED", "CANCELLING"})
    \cup ({"PACKAGING"} \X {"COMPLETED", "RECOVERABLE_FAILURE", "FAILED",
                            "CANCELLING"})
    \cup ({"CANCELLING"} \X {"CANCELLED"})

Operations ==
    {"putDiscovery", "resolveTarget", "startRun", "pauseRun", "resumeRun",
     "cancelRun", "rerunRuntimeGate", "validateRun", "createReview",
     "createPackage", "requestRunDeletion", "restoreRunDeletion"}

\* States the server enters: createPackage, admitPackageValidation and queueCleanup
\* are the code for them.
ServerOnly == {"PACKAGING", "COMPLETED", "CANCELLING", "CANCELLED"}

ASSUME ConstantsAssumption ==
    /\ NoSnapshot \notin Snapshots
    /\ HasResolver \in BOOLEAN
    /\ WorkerMoves \subseteq Transitions
    /\ Offered \subseteq Operations
    /\ MaxVersion \in Nat
    /\ MaxCrashes \in Nat

\* What is asked of the worker: it leaves those states to the server.  updateRun does
\* not enforce it: a worker that stored COMPLETED along the table would be taken.
WorkerKeepsOut == \A move \in WorkerMoves : move[2] \notin ServerOnly

Limitations == {"unresolved", "failed"}

\* phaseKeys: the eleven phases after static-inventory never change in this code.
PhaseKeys == {"discovery", "target-snapshot", "static-inventory", "later"}
PhaseStates ==
    {"PENDING", "READY", "RUNNING", "WAITING_INPUT", "RETRYABLE_FAILURE",
     "SUCCEEDED", "FAILED", "SKIPPED", "CANCELLED"}

EventTypes == {"run.state.changed", "warning.raised", "package.state.changed"}
AttemptStates == {"NONE", "QUEUED", "RUNNING", "SUCCEEDED", "FAILED", "CANCELLED"}
JobStates == {"REQUESTED", "TRASHED", "RESTORING"}

VARIABLES
    run,        \* the runs row: its document (state, ver, snap, lims, pkg)
    events,     \* run_events in sequence order; "state" is the state of the
                \* document the event was inserted with (a history field)
    phases,     \* phases.state by phase key
    attempt,    \* the static-inventory attempt number 1, and its fence token
    cleanups,   \* fence tokens of the cleanup_records rows
    idem,       \* unexpired idempotency_keys rows of this run
    discovery,  \* do the current claims cover every discovery topic
    decision,   \* the decision object is present and every control reconciled
    reviewLog,  \* the reviews table, in insertion order
    reviews,    \* review objects with current=1, as createPackage lists them
    package,    \* state of the current package object
    jobs,       \* deletion_jobs states
    resolving,  \* resolver calls in flight (memory)
    view,       \* the run document the external worker read (memory)
    seen,       \* the row version the operator will send as If-Match
    crashes

dbVars == <<run, events, phases, attempt, cleanups, idem, discovery, decision,
            reviewLog, reviews, package, jobs>>
vars == <<dbVars, resolving, view, seen, crashes>>

RunDocs == [state : RunStates, ver : Nat, snap : Snapshots \cup {NoSnapshot},
            lims : SUBSET Limitations, pkg : BOOLEAN]
Events == [ver : Nat, type : EventTypes, state : RunStates]
Replies == [op : Operations, key : Keys, ver : Nat, state : RunStates]
Reviews == [kind : ReviewKinds, passed : BOOLEAN]

TypeOK ==
    /\ run \in RunDocs
    /\ events \in Seq(Events)
    /\ phases \in [PhaseKeys -> PhaseStates]
    /\ attempt \in [state : AttemptStates, fence : Nat]
    /\ cleanups \subseteq Nat
    /\ idem \subseteq Replies
    /\ discovery \in BOOLEAN
    /\ decision \in BOOLEAN
    /\ reviewLog \in Seq(Reviews)
    /\ reviews \subseteq Reviews
    /\ package \in {"NONE", "REQUESTED", "VALIDATED"}
    /\ jobs \in Seq(JobStates)
    /\ resolving \subseteq Slots
    /\ view \in RunDocs \cup {NoView}
    /\ seen \in Nat
    /\ crashes \in Nat

-----------------------------------------------------------------------------
(* RakStore.updateRun: terminal documents accept only a new version, the     *)
(* UPDATE is a compare-and-swap on row_version, and the event row is part of *)
(* the same transaction.                                                     *)
MayUpdateWithoutCas(doc) ==                                      \* mutant
    run.state \in Terminal => [doc EXCEPT !.ver = 0] = [run EXCEPT !.ver = 0]
MayUpdateWithoutFreeze(doc) == run.ver = doc.ver - 1             \* mutant
MayUpdate(doc) ==
    /\ run.state \in Terminal => [doc EXCEPT !.ver = 0] = [run EXCEPT !.ver = 0]
    /\ run.ver = doc.ver - 1

EventOf(doc, type) == [ver |-> doc.ver, type |-> type, state |-> doc.state]

UpdateRun(doc, type) ==
    /\ MayUpdate(doc)
    /\ run' = doc
    /\ events' = Append(events, EventOf(doc, type))

Bumped(doc) == [doc EXCEPT !.ver = @ + 1]
MovedTo(doc, to) == [Bumped(doc) EXCEPT !.state = to]
CanTransition(from, to) == <<from, to>> \in Transitions

(* What mutateDraft, mutateState and mutateAction check before the           *)
(* transaction, in their order: no live idempotency row for the key, If-Match*)
(* equal to the row version, an allowed state.  A request that fails a check *)
(* is refused and changes nothing.                                           *)
Fresh(op, k) == ~ \E r \in idem : r.op = op /\ r.key = k
Accepts(op, k, allowed) ==
    /\ op \in Offered
    /\ Fresh(op, k)
    /\ seen = run.ver
    /\ run.state \in allowed
    /\ run.ver < MaxVersion

ReplyFromOldRow(op, k, doc) ==                                   \* mutant
    /\ idem' = idem \cup {[op |-> op, key |-> k, ver |-> run.ver, state |-> doc.state]}
    /\ seen' = doc.ver
\* saveIdempotent, and the ETag the operator receives.
Reply(op, k, doc) ==
    /\ idem' = idem \cup {[op |-> op, key |-> k, ver |-> doc.ver, state |-> doc.state]}
    /\ seen' = doc.ver

\* mutateDraft and mutateState: the state stays, the version moves.
MutateState(op, k, allowed) ==
    /\ Accepts(op, k, allowed)
    /\ UpdateRun(Bumped(run), "run.state.changed")
    /\ Reply(op, k, Bumped(run))

\* mutateAction: a same-state request bumps the version, any other takes a
\* transition of the table.
Target(to) == IF run.state = to THEN Bumped(run) ELSE MovedTo(run, to)
MutateAction(op, k, allowed, to) ==
    /\ Accepts(op, k, allowed)
    /\ run.state = to \/ CanTransition(run.state, to)
    /\ UpdateRun(Target(to), "run.state.changed")
    /\ Reply(op, k, Target(to))

SurfaceInPlace(lim) ==                                           \* mutant
    /\ run' = IF run.state \in Terminal THEN run ELSE [run EXCEPT !.lims = @ \cup {lim}]
    /\ UNCHANGED events
\* surfaceLimitation: nothing for a limitation the document already lists.
Surface(lim) ==
    LET doc == [Bumped(run) EXCEPT !.lims = @ \cup {lim}] IN
    IF lim \in run.lims \/ ~ MayUpdate(doc)
    THEN UNCHANGED <<run, events>>
    ELSE UpdateRun(doc, "warning.raised")

-----------------------------------------------------------------------------
Init ==
    /\ run = [state |-> "DRAFT", ver |-> 0, snap |-> NoSnapshot, lims |-> {},
              pkg |-> FALSE]
    /\ events = <<EventOf(run, "run.state.changed")>>
    /\ phases = [p \in PhaseKeys |-> IF p = "discovery" THEN "READY" ELSE "PENDING"]
    /\ attempt = [state |-> "NONE", fence |-> 0]
    /\ cleanups = {}
    /\ idem = {}
    /\ discovery = FALSE
    /\ decision = FALSE
    /\ reviewLog = <<>>
    /\ reviews = {}
    /\ package = "NONE"
    /\ jobs = <<>>
    /\ resolving = {}
    /\ view = NoView
    /\ seen = 0
    /\ crashes = 0

PutDiscovery(k) ==
    /\ MutateState("putDiscovery", k, {"DRAFT"})
    /\ discovery' \in BOOLEAN
    /\ UNCHANGED <<phases, attempt, cleanups, decision, reviewLog, reviews, package,
                   jobs, resolving, view, crashes>>

\* afterAccept of resolve-target: with a resolver the call stays in flight;
\* without one the limitation is surfaced before the handler yields.
AfterAccept ==
    /\ HasResolver
    /\ \E s \in Slots \ resolving : resolving' = resolving \cup {s}

WarnedOfNothing(doc) == Bumped(doc)                              \* mutant
\* The document after the limitation of an unconfigured resolver is surfaced.
Warned(doc) == [Bumped(doc) EXCEPT !.lims = @ \cup {"unresolved"}]

ResolveTarget(k) ==
    /\ Accepts("resolveTarget", k, {"DRAFT"})
    /\ discovery
    /\ LET doc == MovedTo(run, "RESOLVING_TARGET")
           warned == Warned(doc) IN
       /\ CanTransition(run.state, doc.state)
       /\ MayUpdate(doc)
       /\ Reply("resolveTarget", k, doc)
       /\ \/ /\ AfterAccept
             /\ UpdateRun(doc, "run.state.changed")
          \/ /\ ~ HasResolver
             /\ run' = warned
             /\ events' = events \o <<EventOf(doc, "run.state.changed"),
                                      EventOf(warned, "warning.raised")>>
             /\ UNCHANGED resolving
    /\ UNCHANGED <<phases, attempt, cleanups, discovery, decision, reviewLog, reviews,
                   package, jobs, view, crashes>>

(* A repeated resolve-target under the same key returns the stored response, *)
(* but the route still runs afterAccept, so a second resolver call starts.   *)
ReplayResolveTarget(k) ==
    /\ \E r \in idem : r.op = "resolveTarget" /\ r.key = k /\ seen' = r.ver
    /\ \/ AfterAccept /\ UNCHANGED <<run, events>>
       \/ ~ HasResolver /\ Surface("unresolved") /\ UNCHANGED resolving
    /\ UNCHANGED <<phases, attempt, cleanups, idem, discovery, decision, reviewLog,
                   reviews, package, jobs, view, crashes>>

\* admitSnapshot, which re-reads the row: the phases are written directly.
AdmitSnapshot(snapshot) ==
    /\ run.state = "RESOLVING_TARGET"
    /\ UpdateRun([MovedTo(run, "READY") EXCEPT !.snap = snapshot], "run.state.changed")
    /\ phases' = [phases EXCEPT !["discovery"] = "SUCCEEDED",
                                !["target-snapshot"] = "SUCCEEDED",
                                !["static-inventory"] = "READY"]

\* The catch branch of afterAccept: the resolver failed, or the snapshot came
\* after the run had left RESOLVING_TARGET.  On a terminal run the update is
\* refused and the route answers 500.
ResolutionIgnored == UNCHANGED <<run, events, phases>>           \* mutant
ResolutionFailed == Surface("failed") /\ UNCHANGED phases

FinishResolve(s) ==
    /\ s \in resolving
    /\ resolving' = resolving \ {s}
    /\ \/ \E snapshot \in Snapshots : AdmitSnapshot(snapshot)
       \/ ResolutionFailed
    /\ UNCHANGED <<attempt, cleanups, idem, discovery, decision, reviewLog, reviews,
                   package, jobs, view, seen, crashes>>

StartRunUnchecked(k) ==                                          \* mutant
    /\ MutateAction("startRun", k, {"READY"}, "EXECUTING")
    /\ attempt' = [state |-> "QUEUED", fence |-> 1]
    /\ UNCHANGED <<phases, cleanups, discovery, decision, reviewLog, reviews, package,
                   jobs, resolving, view, crashes>>
\* startRun: the body names the admitted snapshot; queueAttempt always inserts
\* attempt number 1, which a unique index keeps single.
StartRun(k) ==
    /\ MutateAction("startRun", k, {"READY"}, "EXECUTING")
    /\ run.snap # NoSnapshot
    /\ attempt.state = "NONE"
    /\ attempt' = [state |-> "QUEUED", fence |-> 1]
    /\ UNCHANGED <<phases, cleanups, discovery, decision, reviewLog, reviews, package,
                   jobs, resolving, view, crashes>>

\* pause, resume, runtime-gate and validate change the run row alone.
PlainAction(op, k, allowed, to) ==
    /\ MutateAction(op, k, allowed, to)
    /\ UNCHANGED <<phases, attempt, cleanups, discovery, decision, reviewLog, reviews,
                   package, jobs, resolving, view, crashes>>

PauseRun(k) == PlainAction("pauseRun", k, {"EXECUTING", "WAITING_INPUT"}, "PAUSING")
ResumeRun(k) == PlainAction("resumeRun", k, {"PAUSED", "RECOVERABLE_FAILURE"}, "EXECUTING")
RerunRuntimeGate(k) ==
    PlainAction("rerunRuntimeGate", k, {"EXECUTING", "WAITING_INPUT"}, "EXECUTING")
ValidateRun(k) == PlainAction("validateRun", k, {"EXECUTING"}, "VALIDATING")

Live(state) == state \in {"QUEUED", "RUNNING"}

CancelledAttempt ==                                              \* mutant
    IF Live(attempt.state) THEN [attempt EXCEPT !.state = "CANCELLED"] ELSE attempt
CancellingAttempt ==                                             \* mutant
    IF Live(attempt.state) THEN [attempt EXCEPT !.state = "CANCELLING"] ELSE attempt
\* queueCleanup: fences out live attempts and records the highest fence.
FencedAttempt ==
    IF Live(attempt.state)
    THEN [state |-> "CANCELLED", fence |-> attempt.fence + 1]
    ELSE attempt

(* cancelRun writes CANCELLING and, in the same transaction, queueCleanup    *)
(* writes CANCELLED.  The stored response carries the first version.         *)
CancelRun(k) ==
    /\ Accepts("cancelRun", k, RunStates \ (Terminal \cup {"CANCELLING", "DRAFT"}))
    /\ LET first == MovedTo(run, "CANCELLING")
           second == MovedTo(first, "CANCELLED") IN
       /\ CanTransition(run.state, "CANCELLING")
       /\ MayUpdate(first)
       /\ run' = second
       /\ events' = events \o <<EventOf(first, "run.state.changed"),
                                EventOf(second, "run.state.changed")>>
       /\ Reply("cancelRun", k, first)
    /\ attempt' = FencedAttempt
    /\ cleanups' = cleanups \cup {FencedAttempt.fence}
    /\ UNCHANGED <<phases, discovery, decision, reviewLog, reviews, package, jobs,
                   resolving, view, crashes>>

\* In DRAFT the same route only revokes inputs: the state stays, a warning is
\* logged.
CancelDraft(k) ==
    /\ Accepts("cancelRun", k, {"DRAFT"})
    /\ UpdateRun(Bumped(run), "warning.raised")
    /\ Reply("cancelRun", k, Bumped(run))
    /\ UNCHANGED <<phases, attempt, cleanups, discovery, decision, reviewLog, reviews,
                   package, jobs, resolving, view, crashes>>

\* createReview: the reviews table grows, but putObjects first clears the
\* current flag of every review object of the run.
CreateReview(k, review) ==
    /\ MutateState("createReview", k, {"REVIEW_REQUIRED"})
    /\ run.snap # NoSnapshot
    /\ reviewLog' = Append(reviewLog, review)
    /\ reviews' = {review}
    /\ UNCHANGED <<phases, attempt, cleanups, discovery, decision, package, jobs,
                   resolving, view, crashes>>

ReviewsPass == \A kind \in ReviewKinds : [kind |-> kind, passed |-> TRUE] \in reviews

CreatePackageUngated(k) ==                                       \* mutant
    /\ MutateAction("createPackage", k, {"REVIEW_REQUIRED"}, "PACKAGING")
    /\ package' = "REQUESTED"
    /\ UNCHANGED <<phases, attempt, cleanups, discovery, decision, reviewLog, reviews,
                   jobs, resolving, view, crashes>>
CreatePackage(k) ==
    /\ MutateAction("createPackage", k, {"REVIEW_REQUIRED"}, "PACKAGING")
    /\ decision /\ ReviewsPass
    /\ package' = "REQUESTED"
    /\ UNCHANGED <<phases, attempt, cleanups, discovery, decision, reviewLog, reviews,
                   jobs, resolving, view, crashes>>

\* admitPackageValidation: the only way to COMPLETED.
AdmitPackageValidation ==
    /\ run.state = "PACKAGING"
    /\ run.ver < MaxVersion
    /\ UpdateRun([MovedTo(run, "COMPLETED") EXCEPT !.pkg = TRUE], "package.state.changed")
    /\ package' = "VALIDATED"
    /\ UNCHANGED <<phases, attempt, cleanups, idem, discovery, decision, reviewLog,
                   reviews, jobs, resolving, view, seen, crashes>>

RequestDeletion(k) ==
    /\ MutateState("requestRunDeletion", k, Terminal)
    /\ jobs' = Append(jobs, "REQUESTED")
    /\ UNCHANGED <<phases, attempt, cleanups, discovery, decision, reviewLog, reviews,
                   package, resolving, view, crashes>>

RestoreDeletion(k, j) ==
    /\ MutateState("restoreRunDeletion", k, Terminal)
    /\ jobs[j] = "TRASHED"
    /\ jobs' = [jobs EXCEPT ![j] = "RESTORING"]
    /\ UNCHANGED <<phases, attempt, cleanups, discovery, decision, reviewLog, reviews,
                   package, resolving, view, crashes>>

\* GET /runs/{id}: the operator learns the current row version.
Refresh ==
    /\ seen # run.ver
    /\ seen' = run.ver
    /\ UNCHANGED <<dbVars, resolving, view, crashes>>

\* replayIdempotent deletes a row past its 24 hours, so the key is new again.
ExpireKey(r) ==
    /\ idem' = idem \ {r}
    /\ UNCHANGED <<run, events, phases, attempt, cleanups, discovery, decision,
                   reviewLog, reviews, package, jobs, resolving, view, seen, crashes>>

-----------------------------------------------------------------------------
(* The external assessment worker.  It reads the run document, works, and     *)
(* stores transitionRun(copy, to) through updateRun, whatever happened since. *)
WorkerRead ==
    /\ \E to \in RunStates : <<run.state, to>> \in WorkerMoves
    /\ view = NoView
    /\ view' = run
    /\ UNCHANGED <<dbVars, resolving, seen, crashes>>

WorkerWrite(to) ==
    /\ view # NoView
    /\ <<view.state, to>> \in WorkerMoves
    /\ run.ver < MaxVersion
    /\ view' = NoView
    /\ IF MayUpdate(MovedTo(view, to))
       THEN UpdateRun(MovedTo(view, to), "run.state.changed")
       ELSE UNCHANGED <<run, events>>
    /\ UNCHANGED <<phases, attempt, cleanups, idem, discovery, decision, reviewLog,
                   reviews, package, jobs, resolving, seen, crashes>>

\* The worker claims a queued attempt or ends a running one.
WorkerAttempt ==
    /\ \/ /\ attempt.state = "QUEUED" /\ run.state = "EXECUTING"
          /\ attempt' = [attempt EXCEPT !.state = "RUNNING"]
       \/ /\ attempt.state = "RUNNING"
          /\ \E end \in {"SUCCEEDED", "FAILED"} : attempt' = [attempt EXCEPT !.state = end]
    /\ UNCHANGED <<run, events, phases, cleanups, idem, discovery, decision, reviewLog,
                   reviews, package, jobs, resolving, view, seen, crashes>>

\* The synthesis phases store the decision and, with one putObjects, the
\* reviews of every kind.
WorkerDecision ==
    /\ run.state = "VALIDATING"
    /\ ~ decision /\ decision' = TRUE
    /\ reviews' = [kind : ReviewKinds, passed : {TRUE}]
    /\ UNCHANGED <<run, events, phases, attempt, cleanups, idem, discovery, reviewLog,
                   package, jobs, resolving, view, seen, crashes>>

\* The external remover moves a requested deletion to the trash.
WorkerTrash(j) ==
    /\ jobs[j] = "REQUESTED"
    /\ jobs' = [jobs EXCEPT ![j] = "TRASHED"]
    /\ UNCHANGED <<run, events, phases, attempt, cleanups, idem, discovery, decision,
                   reviewLog, reviews, package, resolving, view, seen, crashes>>

\* The server restarts: only what is in SQLite survives, and nothing at start-up
\* looks at unfinished runs.
Crash ==
    /\ crashes < MaxCrashes
    /\ crashes' = crashes + 1
    /\ resolving' = {}
    /\ view' = NoView
    /\ UNCHANGED <<dbVars, seen>>

-----------------------------------------------------------------------------
Operator ==
    \/ \E k \in Keys :
          \/ PutDiscovery(k) \/ ResolveTarget(k) \/ ReplayResolveTarget(k)
          \/ StartRun(k) \/ PauseRun(k) \/ ResumeRun(k) \/ RerunRuntimeGate(k)
          \/ ValidateRun(k) \/ CancelRun(k) \/ CancelDraft(k)
          \/ \E review \in Reviews : CreateReview(k, review)
          \/ CreatePackage(k) \/ RequestDeletion(k)
          \/ \E j \in 1..Len(jobs) : RestoreDeletion(k, j)
    \/ Refresh
    \/ \E r \in idem : ExpireKey(r)

Worker ==
    \/ WorkerRead
    \/ \E to \in RunStates : WorkerWrite(to)
    \/ WorkerAttempt
    \/ WorkerDecision
    \/ \E j \in 1..Len(jobs) : WorkerTrash(j)
    \/ AdmitPackageValidation

Next ==
    \/ Operator
    \/ \E s \in Slots : FinishResolve(s)
    \/ Worker
    \/ Crash

Spec == Init /\ [][Next]_vars

\* A resolver call that is running ends, with a snapshot or an error: the local
\* resolver is a bounded synchronous computation.
FairSpec == Spec /\ \A s \in Slots : WF_vars(FinishResolve(s))

-----------------------------------------------------------------------------
(* Properties.                                                                *)

(* The event log is the run's complete history: one event per row version, in *)
(* order, the last one describing the row.  SSE readers resume by sequence    *)
(* number, so a version without an event (or two events for one) is lost or   *)
(* doubled work for them.                                                     *)
EventLogIsHistory ==
    /\ Len(events) = run.ver + 1
    /\ \A i \in 1..Len(events) : events[i].ver = i - 1
    /\ events[Len(events)].state = run.state

(* Every pair of consecutive versions is a transition of the frozen table or  *)
(* a same-state bump, also for the writes that skip transitionRun             *)
(* (admitSnapshot, queueCleanup, admitPackageValidation) and for a worker     *)
(* that writes from a copy it read long ago.                                  *)
HistoryFollowsTable ==
    \A i \in 1..(Len(events) - 1) :
        \/ events[i].state = events[i + 1].state
        \/ CanTransition(events[i].state, events[i + 1].state)

(* A copy of the run that is still at the row's version is the row: versions  *)
(* identify documents, which is what makes compare-and-swap on the version    *)
(* alone enough for a worker that holds a copy across other actors' writes.   *)
CopyIsHonest ==
    view # NoView => /\ view.ver <= run.ver
                     /\ view.ver = run.ver => view = run

(* A terminal document never changes again except for its version: the late   *)
(* resolver and the late worker are refused by updateRun.                     *)
TerminalIsFrozen ==
    [][run.state \in Terminal => [run' EXCEPT !.ver = 0] = [run EXCEPT !.ver = 0]]_vars

(* No write loses what another actor stored: the admitted snapshot, a surfaced*)
(* limitation or the bound package never disappears from the document.        *)
NothingIsLost ==
    [][/\ run.snap # NoSnapshot => run'.snap = run.snap
       /\ run.lims \subseteq run'.lims
       /\ run.pkg => run'.pkg
       /\ run'.ver >= run.ver]_vars

(* A cancelled run has no attempt a worker could still finish, and its cleanup*)
(* record holds a fence at least as high as any attempt's, so a receipt with  *)
(* the dispatched fence is superseded: with a worker that keeps out of the    *)
(* states the server enters.                                                  *)
CancelledIsFenced ==
    run.state = "CANCELLED" =>
        /\ ~ Live(attempt.state)
        /\ \E f \in cleanups : f >= attempt.fence
        /\ attempt.state = "CANCELLED" => \E f \in cleanups : f > 1

(* A stored response is true: the version and state it reports are a point of *)
(* the run's history, so a replay never describes a run that did not exist.   *)
RepliesAreHistory ==
    \A r \in idem : \E i \in 1..Len(events) :
        events[i].ver = r.ver /\ events[i].state = r.state

(* COMPLETED, the bound package and the validated package object stand or     *)
(* fall together, and only behind a decision: with a worker that keeps out of *)
(* the states the server enters.                                              *)
CompletedIsPackaged ==
    /\ (run.state = "COMPLETED") <=> run.pkg
    /\ run.pkg <=> (package = "VALIDATED")
    /\ run.pkg => decision

(* Work is queued only on an admitted snapshot, whatever happened between the *)
(* acceptance of resolve-target and the start.                                *)
AttemptHasSnapshot == attempt.state # "NONE" => run.snap # NoSnapshot

(* A resolution that was accepted concludes: the run leaves RESOLVING_TARGET  *)
(* or carries a limitation that tells the operator why not.                   *)
ResolutionConcludes ==
    run.state = "RESOLVING_TARGET"
        ~> (run.state # "RESOLVING_TARGET" \/ run.lims # {})

(* When the latest review of every required kind passed, the package gate     *)
(* sees them all.                                                             *)
LatestPassed(kind) ==
    \E i \in 1..Len(reviewLog) :
        /\ reviewLog[i] = [kind |-> kind, passed |-> TRUE]
        /\ \A j \in (i + 1)..Len(reviewLog) : reviewLog[j].kind # kind
AllPassedIsEligible ==
    (run.state = "REVIEW_REQUIRED" /\ \A kind \in ReviewKinds : LatestPassed(kind))
        => ReviewsPass
=============================================================================
