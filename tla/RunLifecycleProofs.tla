--------------------------- MODULE RunLifecycleProofs ---------------------------
(***************************************************************************)
(* Proofs about RunLifecycle, for every value of its constants.            *)
(*                                                                         *)
(* Every write to the run row has one of three shapes (Commit): none, one  *)
(* updateRun, or the two updateRun calls of one transaction.  NextCommits  *)
(* shows it action by action; everything about the row, the event log and  *)
(* the worker's copy then follows from the shape alone.                    *)
(***************************************************************************)
EXTENDS RunLifecycle, TLAPS

\* The steps one updateRun may take, whoever wrote the document.
Legal(a, b) == a.state = b.state \/ CanTransition(a.state, b.state)

\* What a write keeps: only the admission of a snapshot sets the snapshot, only
\* completion binds a package.
Keeps(a, b) ==
    /\ b.snap = a.snap \/ (a.state = "RESOLVING_TARGET" /\ b.state = "READY")
    /\ a.lims \subseteq b.lims
    /\ a.pkg => b.pkg
    /\ b.pkg => a.pkg \/ b.state = "COMPLETED"

Unwritten == run' = run /\ events' = events
OneWrite ==
    \E doc \in RunDocs, type \in EventTypes :
        UpdateRun(doc, type) /\ Legal(run, doc) /\ Keeps(run, doc)
TwoWrites ==
    \E first \in RunDocs, second \in RunDocs, t1 \in EventTypes, t2 \in EventTypes :
        /\ run.state \notin Terminal
        /\ first.ver = run.ver + 1 /\ second.ver = run.ver + 2
        /\ run' = second
        /\ events' = events \o <<EventOf(first, t1), EventOf(second, t2)>>
        /\ Legal(run, first) /\ Legal(first, second)
        /\ Keeps(run, first) /\ Keeps(first, second)
Commit == Unwritten \/ OneWrite \/ TwoWrites

\* Before admission no snapshot is bound.
EarlyHasNoSnapshot == run.state \in {"DRAFT", "RESOLVING_TARGET"} => run.snap = NoSnapshot

\* A log that tells the history of a document up to its version.
Tells(log, doc) ==
    /\ log \in Seq(Events)
    /\ Len(log) = doc.ver + 1
    /\ \A i \in 1..Len(log) : log[i].ver = i - 1
    /\ log[Len(log)].state = doc.state
    /\ \A i \in 1..(Len(log) - 1) :
          log[i].state = log[i + 1].state \/ CanTransition(log[i].state, log[i + 1].state)

IInv ==
    /\ TypeOK
    /\ CopyIsHonest
    /\ EarlyHasNoSnapshot
    /\ Tells(events, run)

-----------------------------------------------------------------------------
(* A bumped or moved document is again a document, one version on.            *)
LEMMA BumpedDoc ==
    ASSUME NEW doc \in RunDocs
    PROVE  /\ Bumped(doc) \in RunDocs
           /\ Bumped(doc).ver = doc.ver + 1
           /\ Bumped(doc).state = doc.state
           /\ Bumped(doc).snap = doc.snap
           /\ Bumped(doc).lims = doc.lims
           /\ Bumped(doc).pkg = doc.pkg
  <1>1. Bumped(doc) = [state |-> doc.state, ver |-> doc.ver + 1, snap |-> doc.snap,
              lims |-> doc.lims, pkg |-> doc.pkg]
    BY DEF Bumped, RunDocs
  <1>2. doc.state \in RunStates /\ doc.ver \in Nat /\ doc.lims \in SUBSET Limitations
        /\ doc.snap \in Snapshots \cup {NoSnapshot} /\ doc.pkg \in BOOLEAN
    BY DEF RunDocs
  <1> QED
    BY <1>1, <1>2 DEF RunDocs

LEMMA MovedDoc ==
    ASSUME NEW doc \in RunDocs, NEW to \in RunStates
    PROVE  /\ MovedTo(doc, to) \in RunDocs
           /\ MovedTo(doc, to).ver = doc.ver + 1
           /\ MovedTo(doc, to).state = to
           /\ MovedTo(doc, to).snap = doc.snap
           /\ MovedTo(doc, to).lims = doc.lims
           /\ MovedTo(doc, to).pkg = doc.pkg
  <1> DEFINE next == Bumped(doc)
  <1>0. next \in RunDocs /\ next.ver = doc.ver + 1 /\ next.state = doc.state
        /\ next.snap = doc.snap /\ next.lims = doc.lims /\ next.pkg = doc.pkg
    BY BumpedDoc
  <1>1. MovedTo(doc, to) = [state |-> to, ver |-> doc.ver + 1, snap |-> doc.snap,
              lims |-> doc.lims, pkg |-> doc.pkg]
    <2>1. MovedTo(doc, to) = [next EXCEPT !.state = to]
      BY DEF MovedTo
    <2> HIDE DEF next
    <2> QED
      BY <1>0, <2>1 DEF RunDocs
  <1>2. doc.state \in RunStates /\ doc.ver \in Nat /\ doc.lims \in SUBSET Limitations
        /\ doc.snap \in Snapshots \cup {NoSnapshot} /\ doc.pkg \in BOOLEAN
    BY DEF RunDocs
  <1> QED
    BY <1>1, <1>2 DEF RunDocs

(* mutateDraft and mutateState write once.                                    *)
LEMMA MutateStateCommits ==
    ASSUME TypeOK, NEW op, NEW k, NEW allowed, MutateState(op, k, allowed)
    PROVE  OneWrite
  <1>1. run \in RunDocs
    BY DEF TypeOK
  <1>2. Bumped(run) \in RunDocs /\ Legal(run, Bumped(run)) /\ Keeps(run, Bumped(run))
    BY <1>1, BumpedDoc DEF Legal, Keeps
  <1>3. "run.state.changed" \in EventTypes
    BY DEF EventTypes
  <1> QED
    BY <1>2, <1>3 DEF MutateState, OneWrite

(* mutateAction writes once, along the table.                                 *)
LEMMA MutateActionCommits ==
    ASSUME TypeOK, NEW op, NEW k, NEW allowed, NEW to \in RunStates,
           MutateAction(op, k, allowed, to)
    PROVE  OneWrite
  <1>1. run \in RunDocs
    BY DEF TypeOK
  <1>2. Target(to) \in RunDocs /\ Legal(run, Target(to)) /\ Keeps(run, Target(to))
    <2>1. CASE run.state = to
      BY <1>1, <2>1, BumpedDoc DEF Target, Legal, Keeps
    <2>2. CASE run.state # to
      BY <1>1, <2>2, MovedDoc DEF Target, Legal, Keeps, MutateAction
    <2> QED
      BY <2>1, <2>2
  <1>3. "run.state.changed" \in EventTypes
    BY DEF EventTypes
  <1> QED
    BY <1>2, <1>3 DEF MutateAction, OneWrite

(* Surfacing a limitation writes at most once.                                *)
LEMMA SurfaceCommits ==
    ASSUME TypeOK, NEW lim \in Limitations, Surface(lim)
    PROVE  Unwritten \/ OneWrite
  <1> DEFINE doc == [Bumped(run) EXCEPT !.lims = @ \cup {lim}]
  <1>1. run \in RunDocs
    BY DEF TypeOK
  <1>2. /\ doc \in RunDocs /\ doc.state = run.state /\ doc.snap = run.snap
        /\ run.lims \subseteq doc.lims /\ doc.pkg = run.pkg
    BY <1>1, BumpedDoc DEF RunDocs, Bumped
  <1>3. Legal(run, doc) /\ Keeps(run, doc)
    BY <1>2 DEF Legal, Keeps
  <1>4. "warning.raised" \in EventTypes
    BY DEF EventTypes
  <1>5. CASE lim \in run.lims \/ ~ MayUpdate(doc)
    BY <1>5 DEF Surface, Unwritten
  <1>6. CASE ~ (lim \in run.lims \/ ~ MayUpdate(doc))
    <2>1. UpdateRun(doc, "warning.raised")
      BY <1>6 DEF Surface
    <2> QED
      BY <1>2, <1>3, <1>4, <2>1 DEF OneWrite
  <1> QED
    BY <1>5, <1>6

(* Accepting resolve-target writes once, or twice without a resolver.         *)
LEMMA ResolveTargetCommits ==
    ASSUME TypeOK, NEW k, ResolveTarget(k)
    PROVE  OneWrite \/ TwoWrites
  <1> DEFINE doc == MovedTo(run, "RESOLVING_TARGET")
             warned == Warned(doc)
  <1>1. run \in RunDocs /\ "RESOLVING_TARGET" \in RunStates /\ "unresolved" \in Limitations
        /\ "run.state.changed" \in EventTypes /\ "warning.raised" \in EventTypes
    BY DEF TypeOK, RunStates, Limitations, EventTypes
  <1>2. /\ doc \in RunDocs /\ doc.ver = run.ver + 1 /\ doc.state = "RESOLVING_TARGET"
        /\ doc.snap = run.snap /\ doc.lims = run.lims /\ doc.pkg = run.pkg
    BY <1>1, MovedDoc
  <1> HIDE DEF doc
  <1>3. /\ Bumped(doc) \in RunDocs /\ Bumped(doc).ver = doc.ver + 1
        /\ Bumped(doc).state = doc.state /\ Bumped(doc).snap = doc.snap
        /\ Bumped(doc).lims = doc.lims /\ Bumped(doc).pkg = doc.pkg
    BY <1>2, BumpedDoc
  <1>4. /\ warned \in RunDocs /\ warned.ver = doc.ver + 1 /\ warned.state = doc.state
        /\ warned.snap = doc.snap /\ doc.lims \subseteq warned.lims
        /\ warned.pkg = doc.pkg
    BY <1>1, <1>3 DEF RunDocs, Warned
  <1> HIDE DEF warned
  <1>5. run.state = "DRAFT" /\ CanTransition(run.state, doc.state) /\ MayUpdate(doc)
    BY DEF ResolveTarget, Accepts, doc
  <1>6. Legal(run, doc) /\ Keeps(run, doc) /\ Legal(doc, warned) /\ Keeps(doc, warned)
    BY <1>2, <1>4, <1>5 DEF Legal, Keeps
  <1>7. \/ UpdateRun(doc, "run.state.changed")
        \/ /\ run' = warned
           /\ events' = events \o <<EventOf(doc, "run.state.changed"),
                                    EventOf(warned, "warning.raised")>>
    BY DEF ResolveTarget, doc, warned
  <1>8. CASE UpdateRun(doc, "run.state.changed")
    BY <1>1, <1>2, <1>6, <1>8 DEF OneWrite
  <1>9. CASE /\ run' = warned
             /\ events' = events \o <<EventOf(doc, "run.state.changed"),
                                      EventOf(warned, "warning.raised")>>
    <2>1. run.state \notin Terminal
      BY <1>5 DEF Terminal
    <2>2. warned.ver = run.ver + 2
      BY <1>1, <1>2, <1>4 DEF RunDocs
    <2> QED
      BY <1>1, <1>2, <1>4, <1>6, <1>9, <2>1, <2>2 DEF TwoWrites
  <1> QED
    BY <1>7, <1>8, <1>9

(* Admission of a snapshot writes once and is the only write of the snapshot. *)
LEMMA AdmitSnapshotCommits ==
    ASSUME TypeOK, NEW snapshot \in Snapshots, AdmitSnapshot(snapshot)
    PROVE  OneWrite
  <1> DEFINE moved == MovedTo(run, "READY")
             doc == [moved EXCEPT !.snap = snapshot]
  <1>1. run \in RunDocs /\ "READY" \in RunStates /\ "run.state.changed" \in EventTypes
    BY DEF TypeOK, RunStates, EventTypes
  <1>2. /\ moved \in RunDocs /\ moved.state = "READY" /\ moved.lims = run.lims
        /\ moved.pkg = run.pkg
    BY <1>1, MovedDoc
  <1>3. UpdateRun(doc, "run.state.changed") /\ run.state = "RESOLVING_TARGET"
    BY DEF AdmitSnapshot
  <1> HIDE DEF moved
  <1>4. /\ doc \in RunDocs /\ doc.state = "READY" /\ doc.lims = run.lims
        /\ doc.pkg = run.pkg
    BY <1>2 DEF RunDocs
  <1> HIDE DEF doc
  <1>5. Legal(run, doc) /\ Keeps(run, doc)
    BY <1>3, <1>4 DEF Legal, Keeps, CanTransition, Transitions
  <1> QED
    BY <1>1, <1>3, <1>4, <1>5 DEF OneWrite

(* Cancelling writes CANCELLING and CANCELLED in one transaction.             *)
LEMMA CancelRunCommits ==
    ASSUME TypeOK, NEW k, CancelRun(k)
    PROVE  TwoWrites
  <1> DEFINE first == MovedTo(run, "CANCELLING")
             second == MovedTo(first, "CANCELLED")
  <1>1. run \in RunDocs /\ "CANCELLING" \in RunStates /\ "CANCELLED" \in RunStates
        /\ "run.state.changed" \in EventTypes
    BY DEF TypeOK, RunStates, EventTypes
  <1>2. /\ run' = second
        /\ events' = events \o <<EventOf(first, "run.state.changed"),
                                 EventOf(second, "run.state.changed")>>
        /\ CanTransition(run.state, "CANCELLING") /\ run.state \notin Terminal
    BY DEF CancelRun, Accepts
  <1>3. /\ first \in RunDocs /\ first.ver = run.ver + 1 /\ first.state = "CANCELLING"
        /\ first.snap = run.snap /\ first.lims = run.lims /\ first.pkg = run.pkg
    BY <1>1, MovedDoc
  <1> HIDE DEF first
  <1>4. /\ second \in RunDocs /\ second.ver = first.ver + 1 /\ second.state = "CANCELLED"
        /\ second.snap = first.snap /\ second.lims = first.lims /\ second.pkg = first.pkg
    BY <1>1, <1>3, MovedDoc
  <1> HIDE DEF second
  <1>5. second.ver = run.ver + 2
    BY <1>1, <1>3, <1>4 DEF RunDocs
  <1>6. CanTransition("CANCELLING", "CANCELLED")
    BY DEF CanTransition, Transitions
  <1>7. Legal(run, first) /\ Legal(first, second) /\ Keeps(run, first) /\ Keeps(first, second)
    BY <1>2, <1>3, <1>4, <1>6 DEF Legal, Keeps
  <1> QED
    BY <1>1, <1>2, <1>3, <1>4, <1>5, <1>7 DEF TwoWrites

(* In DRAFT the cancel route writes once.                                     *)
LEMMA CancelDraftCommits ==
    ASSUME TypeOK, NEW k, CancelDraft(k)
    PROVE  OneWrite
  <1>1. run \in RunDocs /\ "warning.raised" \in EventTypes
    BY DEF TypeOK, EventTypes
  <1>2. Bumped(run) \in RunDocs /\ Legal(run, Bumped(run)) /\ Keeps(run, Bumped(run))
    BY <1>1, BumpedDoc DEF Legal, Keeps
  <1> QED
    BY <1>1, <1>2 DEF CancelDraft, OneWrite

(* Completion writes once.                                                    *)
LEMMA AdmitPackageCommits ==
    ASSUME TypeOK, AdmitPackageValidation
    PROVE  OneWrite
  <1> DEFINE moved == MovedTo(run, "COMPLETED")
             doc == [moved EXCEPT !.pkg = TRUE]
  <1>1. run \in RunDocs /\ "COMPLETED" \in RunStates
        /\ "package.state.changed" \in EventTypes
    BY DEF TypeOK, RunStates, EventTypes
  <1>2. /\ moved \in RunDocs /\ moved.state = "COMPLETED" /\ moved.lims = run.lims
        /\ moved.snap = run.snap
    BY <1>1, MovedDoc
  <1>3. UpdateRun(doc, "package.state.changed") /\ run.state = "PACKAGING"
    BY DEF AdmitPackageValidation
  <1> HIDE DEF moved
  <1>4. /\ doc \in RunDocs /\ doc.state = "COMPLETED" /\ doc.lims = run.lims
        /\ doc.snap = run.snap /\ doc.pkg = TRUE
    BY <1>2 DEF RunDocs
  <1> HIDE DEF doc
  <1>5. Legal(run, doc) /\ Keeps(run, doc)
    BY <1>3, <1>4 DEF Legal, Keeps, CanTransition, Transitions
  <1> QED
    BY <1>1, <1>3, <1>4, <1>5 DEF OneWrite

(* A worker that passes the compare-and-swap holds the current document, so   *)
(* its write is a step of the table from the current state.                   *)
LEMMA WorkerWriteCommits ==
    ASSUME TypeOK, CopyIsHonest, NEW to \in RunStates, WorkerWrite(to)
    PROVE  Unwritten \/ OneWrite
  <1> DEFINE doc == MovedTo(view, to)
  <1>1. view \in RunDocs /\ run \in RunDocs /\ "run.state.changed" \in EventTypes
    BY DEF TypeOK, WorkerWrite, EventTypes
  <1>2. /\ doc \in RunDocs /\ doc.ver = view.ver + 1 /\ doc.state = to
        /\ doc.snap = view.snap /\ doc.lims = view.lims /\ doc.pkg = view.pkg
    BY <1>1, MovedDoc
  <1> HIDE DEF doc
  <1>3. CASE ~ MayUpdate(doc)
    BY <1>3 DEF WorkerWrite, Unwritten, doc
  <1>4. CASE MayUpdate(doc)
    <2>1. UpdateRun(doc, "run.state.changed")
      BY <1>4 DEF WorkerWrite, doc
    <2>2. view.ver = run.ver
      BY <1>1, <1>2, <1>4 DEF MayUpdate, RunDocs
    <2>3. view = run
      BY <2>2 DEF CopyIsHonest, WorkerWrite
    <2>4. CanTransition(run.state, to)
      BY <2>3, ConstantsAssumption DEF WorkerWrite, CanTransition
    <2>5. Legal(run, doc) /\ Keeps(run, doc)
      BY <1>2, <2>3, <2>4 DEF Legal, Keeps
    <2> QED
      BY <1>1, <1>2, <2>1, <2>5 DEF OneWrite
  <1> QED
    BY <1>3, <1>4

-----------------------------------------------------------------------------
(* Every step of the system has one of the three shapes.                      *)
LEMMA NextCommits ==
    ASSUME TypeOK, CopyIsHonest, [Next]_vars
    PROVE  Commit
  <1>1. ASSUME NEW k \in Keys,
               \/ PutDiscovery(k) \/ RequestDeletion(k)
               \/ \E review \in Reviews : CreateReview(k, review)
               \/ \E j \in 1..Len(jobs) : RestoreDeletion(k, j)
        PROVE  Commit
    BY <1>1, MutateStateCommits
       DEF PutDiscovery, RequestDeletion, CreateReview, RestoreDeletion, Commit
  <1>2. ASSUME NEW k \in Keys,
               \/ StartRun(k) \/ PauseRun(k) \/ ResumeRun(k) \/ RerunRuntimeGate(k)
               \/ ValidateRun(k) \/ CreatePackage(k)
        PROVE  Commit
    <2>1. {"EXECUTING", "PAUSING", "VALIDATING", "PACKAGING"} \subseteq RunStates
      BY DEF RunStates
    <2> QED
      BY <1>2, <2>1, MutateActionCommits
         DEF StartRun, PauseRun, ResumeRun, RerunRuntimeGate, ValidateRun, CreatePackage,
             PlainAction, Commit
  <1>3. ASSUME NEW k \in Keys, ResolveTarget(k) \/ CancelRun(k) \/ CancelDraft(k)
        PROVE  Commit
    BY <1>3, ResolveTargetCommits, CancelRunCommits, CancelDraftCommits DEF Commit
  <1>4. ASSUME NEW k \in Keys, ReplayResolveTarget(k)
        PROVE  Commit
    BY <1>4, SurfaceCommits DEF ReplayResolveTarget, Commit, Unwritten, Limitations
  <1>5. ASSUME NEW slot \in Slots, FinishResolve(slot)
        PROVE  Commit
    BY <1>5, AdmitSnapshotCommits, SurfaceCommits
       DEF FinishResolve, ResolutionFailed, Commit, Limitations
  <1>6. ASSUME AdmitPackageValidation \/ \E to \in RunStates : WorkerWrite(to)
        PROVE  Commit
    BY <1>6, AdmitPackageCommits, WorkerWriteCommits DEF Commit
  <1>7. ASSUME \/ Refresh \/ \E r \in idem : ExpireKey(r)
               \/ WorkerRead \/ WorkerAttempt \/ WorkerDecision
               \/ \E j \in 1..Len(jobs) : WorkerTrash(j)
               \/ Crash \/ UNCHANGED vars
        PROVE  Commit
    BY <1>7 DEF Refresh, ExpireKey, WorkerRead, WorkerAttempt, WorkerDecision, WorkerTrash,
                Crash, vars, dbVars, Commit, Unwritten
  <1> QED
    BY <1>1, <1>2, <1>3, <1>4, <1>5, <1>6, <1>7 DEF Next, Operator, Worker

-----------------------------------------------------------------------------
(* Type correctness.                                                          *)

LEMMA EventOfType ==
    ASSUME NEW doc \in RunDocs, NEW type \in EventTypes
    PROVE  /\ EventOf(doc, type) \in Events
           /\ EventOf(doc, type).ver = doc.ver
           /\ EventOf(doc, type).state = doc.state
  BY DEF EventOf, Events, RunDocs

(* The row and its events stay well typed through a write of any shape.       *)
LEMMA CommitTypes ==
    ASSUME TypeOK, Commit
    PROVE  run' \in RunDocs /\ events' \in Seq(Events)
  <1>1. CASE Unwritten
    BY <1>1 DEF Unwritten, TypeOK
  <1>2. CASE OneWrite
    <2>1. PICK doc \in RunDocs, type \in EventTypes :
             run' = doc /\ events' = Append(events, EventOf(doc, type))
      BY <1>2 DEF OneWrite, UpdateRun
    <2>2. EventOf(doc, type) \in Events
      BY EventOfType
    <2> QED
      BY <2>1, <2>2 DEF TypeOK
  <1>3. CASE TwoWrites
    <2>1. PICK first \in RunDocs, second \in RunDocs, t1 \in EventTypes, t2 \in EventTypes :
             /\ run' = second
             /\ events' = events \o <<EventOf(first, t1), EventOf(second, t2)>>
      BY <1>3 DEF TwoWrites
    <2>2. EventOf(first, t1) \in Events /\ EventOf(second, t2) \in Events
      BY EventOfType
    <2>3. <<EventOf(first, t1), EventOf(second, t2)>> \in Seq(Events)
      BY <2>2
    <2> QED
      BY <2>1, <2>3 DEF TypeOK
  <1> QED
    BY <1>1, <1>2, <1>3 DEF Commit

\* The part of TypeOK about everything but the row and its events.
RestTypeOK ==
    /\ phases \in [PhaseKeys -> PhaseStates]
    /\ attempt \in [state : AttemptStates, fence : Nat]
    /\ cleanups \subseteq Nat
    /\ idem \subseteq Replies
    /\ discovery \in BOOLEAN
    /\ decision \in BOOLEAN
    /\ reviewLog \in Seq(Reviews)
    /\ reviews \subseteq Reviews
    /\ package \in {"NONE", "REQUESTED", "VALIDATED"}
    /\ jobs \in Seq(JobStates)
    /\ resolving \subseteq Slots
    /\ view \in RunDocs \cup {NoView}
    /\ seen \in Nat
    /\ crashes \in Nat

LEMMA ReplyTypes ==
    ASSUME TypeOK, NEW op \in Operations, NEW k \in Keys, NEW doc \in RunDocs,
           Reply(op, k, doc)
    PROVE  idem' \subseteq Replies /\ seen' \in Nat
  <1>1. doc.ver \in Nat /\ doc.state \in RunStates
    BY DEF RunDocs
  <1>2. [op |-> op, key |-> k, ver |-> doc.ver, state |-> doc.state] \in Replies
    BY <1>1 DEF Replies
  <1> QED
    BY <1>1, <1>2 DEF Reply, TypeOK

LEMMA MutateStateReplies ==
    ASSUME TypeOK, NEW op \in Operations, NEW k \in Keys, NEW allowed,
           MutateState(op, k, allowed)
    PROVE  idem' \subseteq Replies /\ seen' \in Nat
  <1>1. Bumped(run) \in RunDocs
    BY BumpedDoc DEF TypeOK
  <1> QED
    BY <1>1, ReplyTypes DEF MutateState

LEMMA MutateActionReplies ==
    ASSUME TypeOK, NEW op \in Operations, NEW k \in Keys, NEW allowed,
           NEW to \in RunStates, MutateAction(op, k, allowed, to)
    PROVE  idem' \subseteq Replies /\ seen' \in Nat
  <1>1. Target(to) \in RunDocs
    BY BumpedDoc, MovedDoc DEF TypeOK, Target
  <1> QED
    BY <1>1, ReplyTypes DEF MutateAction

LEMMA OperatorTypes ==
    ASSUME TypeOK, Operator
    PROVE  RestTypeOK'
  <1> USE DEF TypeOK, RestTypeOK
  <1>1. ASSUME NEW k \in Keys, PutDiscovery(k)
        PROVE  RestTypeOK'
    BY <1>1, MutateStateReplies DEF PutDiscovery, Operations
  <1>2. ASSUME NEW k \in Keys, ResolveTarget(k)
        PROVE  RestTypeOK'
    <2>1. MovedTo(run, "RESOLVING_TARGET") \in RunDocs
      BY MovedDoc DEF RunStates
    <2>2. idem' \subseteq Replies /\ seen' \in Nat
      BY <1>2, <2>1, ReplyTypes DEF ResolveTarget, Operations
    <2>3. resolving' \subseteq Slots
      BY <1>2 DEF ResolveTarget, AfterAccept
    <2> QED
      BY <1>2, <2>2, <2>3 DEF ResolveTarget
  <1>3. ASSUME NEW k \in Keys, ReplayResolveTarget(k)
        PROVE  RestTypeOK'
    <2>1. seen' \in Nat
      BY <1>3 DEF ReplayResolveTarget, Replies
    <2>2. resolving' \subseteq Slots
      BY <1>3 DEF ReplayResolveTarget, AfterAccept
    <2> QED
      BY <1>3, <2>1, <2>2 DEF ReplayResolveTarget
  <1>4. ASSUME NEW k \in Keys, StartRun(k)
        PROVE  RestTypeOK'
    <2>1. idem' \subseteq Replies /\ seen' \in Nat
      BY <1>4, MutateActionReplies DEF StartRun, Operations, RunStates
    <2>2. attempt' \in [state : AttemptStates, fence : Nat]
      BY <1>4 DEF StartRun, AttemptStates
    <2> QED
      BY <1>4, <2>1, <2>2 DEF StartRun
  <1>5. ASSUME NEW k \in Keys, PauseRun(k) \/ ResumeRun(k) \/ RerunRuntimeGate(k) \/ ValidateRun(k)
        PROVE  RestTypeOK'
    <2>1. idem' \subseteq Replies /\ seen' \in Nat
      BY <1>5, MutateActionReplies
         DEF PauseRun, ResumeRun, RerunRuntimeGate, ValidateRun, PlainAction, Operations,
             RunStates
    <2> QED
      BY <1>5, <2>1 DEF PauseRun, ResumeRun, RerunRuntimeGate, ValidateRun, PlainAction
  <1>6. ASSUME NEW k \in Keys, CancelRun(k)
        PROVE  RestTypeOK'
    <2>1. MovedTo(run, "CANCELLING") \in RunDocs
      BY MovedDoc DEF RunStates
    <2>2. idem' \subseteq Replies /\ seen' \in Nat
      BY <1>6, <2>1, ReplyTypes DEF CancelRun, Operations
    <2>3. FencedAttempt \in [state : AttemptStates, fence : Nat]
      BY DEF FencedAttempt, AttemptStates
    <2>4. cleanups' \subseteq Nat
      BY <1>6, <2>3 DEF CancelRun
    <2> QED
      BY <1>6, <2>2, <2>3, <2>4 DEF CancelRun
  <1>7. ASSUME NEW k \in Keys, CancelDraft(k)
        PROVE  RestTypeOK'
    <2>1. Bumped(run) \in RunDocs
      BY BumpedDoc
    <2>2. idem' \subseteq Replies /\ seen' \in Nat
      BY <1>7, <2>1, ReplyTypes DEF CancelDraft, Operations
    <2> QED
      BY <1>7, <2>2 DEF CancelDraft
  <1>8. ASSUME NEW k \in Keys, NEW review \in Reviews, CreateReview(k, review)
        PROVE  RestTypeOK'
    <2>1. idem' \subseteq Replies /\ seen' \in Nat
      BY <1>8, MutateStateReplies DEF CreateReview, Operations
    <2> QED
      BY <1>8, <2>1 DEF CreateReview
  <1>9. ASSUME NEW k \in Keys, CreatePackage(k)
        PROVE  RestTypeOK'
    <2>1. idem' \subseteq Replies /\ seen' \in Nat
      BY <1>9, MutateActionReplies DEF CreatePackage, Operations, RunStates
    <2> QED
      BY <1>9, <2>1 DEF CreatePackage
  <1>10. ASSUME NEW k \in Keys, RequestDeletion(k)
         PROVE  RestTypeOK'
    <2>1. idem' \subseteq Replies /\ seen' \in Nat
      BY <1>10, MutateStateReplies DEF RequestDeletion, Operations
    <2>2. jobs' \in Seq(JobStates)
      BY <1>10 DEF RequestDeletion, JobStates
    <2> QED
      BY <1>10, <2>1, <2>2 DEF RequestDeletion
  <1>11. ASSUME NEW k \in Keys, NEW j \in 1..Len(jobs), RestoreDeletion(k, j)
         PROVE  RestTypeOK'
    <2>1. idem' \subseteq Replies /\ seen' \in Nat
      BY <1>11, MutateStateReplies DEF RestoreDeletion, Operations
    <2>2. jobs' \in Seq(JobStates)
      BY <1>11 DEF RestoreDeletion, JobStates
    <2> QED
      BY <1>11, <2>1, <2>2 DEF RestoreDeletion
  <1>12. ASSUME Refresh \/ \E r \in idem : ExpireKey(r)
         PROVE  RestTypeOK'
    BY <1>12 DEF Refresh, ExpireKey, dbVars, RunDocs
  <1> QED
    BY <1>1, <1>2, <1>3, <1>4, <1>5, <1>6, <1>7, <1>8, <1>9, <1>10, <1>11, <1>12 DEF Operator

LEMMA SystemTypes ==
    ASSUME TypeOK, Worker \/ Crash \/ \E slot \in Slots : FinishResolve(slot)
    PROVE  RestTypeOK'
  <1> USE DEF TypeOK, RestTypeOK
  <1>1. ASSUME NEW slot \in Slots, FinishResolve(slot)
        PROVE  RestTypeOK'
    <2>1. phases' \in [PhaseKeys -> PhaseStates]
      BY <1>1 DEF FinishResolve, AdmitSnapshot, ResolutionFailed, PhaseStates
    <2>2. resolving' \subseteq Slots
      BY <1>1 DEF FinishResolve
    <2> QED
      BY <1>1, <2>1, <2>2 DEF FinishResolve
  <1>2. CASE WorkerAttempt
    <2>1. attempt' \in [state : AttemptStates, fence : Nat]
      BY <1>2 DEF WorkerAttempt, AttemptStates
    <2> QED
      BY <1>2, <2>1 DEF WorkerAttempt
  <1>3. CASE WorkerDecision
    BY <1>3 DEF WorkerDecision, Reviews
  <1>4. CASE \E j \in 1..Len(jobs) : WorkerTrash(j)
    <2>1. jobs' \in Seq(JobStates)
      BY <1>4 DEF WorkerTrash, JobStates
    <2> QED
      BY <1>4, <2>1 DEF WorkerTrash
  <1>5. CASE WorkerRead \/ (\E to \in RunStates : WorkerWrite(to)) \/ AdmitPackageValidation
    BY <1>5 DEF WorkerRead, WorkerWrite, AdmitPackageValidation, dbVars
  <1>6. CASE Crash
    BY <1>6 DEF Crash, dbVars
  <1> QED
    BY <1>1, <1>2, <1>3, <1>4, <1>5, <1>6 DEF Worker

LEMMA TypeStep ==
    ASSUME TypeOK, CopyIsHonest, [Next]_vars
    PROVE  TypeOK'
  <1>1. run' \in RunDocs /\ events' \in Seq(Events)
    BY NextCommits, CommitTypes
  <1>2. RestTypeOK'
    <2>1. CASE UNCHANGED vars
      BY <2>1 DEF vars, dbVars, TypeOK, RestTypeOK
    <2>2. CASE Next
      BY <2>2, OperatorTypes, SystemTypes DEF Next
    <2> QED
      BY <2>1, <2>2
  <1> QED
    BY <1>1, <1>2 DEF TypeOK, RestTypeOK

-----------------------------------------------------------------------------
(* The inductive invariant.                                                   *)

LEMMA InitIInv == Init => IInv
  <1> SUFFICES ASSUME Init PROVE IInv
    OBVIOUS
  <1>1. run = [state |-> "DRAFT", ver |-> 0, snap |-> NoSnapshot, lims |-> {}, pkg |-> FALSE]
    BY DEF Init
  <1>2. run \in RunDocs /\ run.ver = 0 /\ run.state = "DRAFT" /\ run.snap = NoSnapshot
    BY <1>1 DEF RunDocs, RunStates
  <1>3. "run.state.changed" \in EventTypes
    BY DEF EventTypes
  <1>4. /\ EventOf(run, "run.state.changed") \in Events
        /\ EventOf(run, "run.state.changed").ver = 0
        /\ EventOf(run, "run.state.changed").state = run.state
    BY <1>2, <1>3, EventOfType
  <1>5. /\ events \in Seq(Events) /\ Len(events) = 1 /\ events[1].ver = 0
        /\ events[1].state = run.state
    BY <1>4 DEF Init
  <1>6. TypeOK
    <2>1. phases \in [PhaseKeys -> PhaseStates]
      BY DEF Init, PhaseStates
    <2>2. attempt \in [state : AttemptStates, fence : Nat]
      BY DEF Init, AttemptStates
    <2>3. reviewLog \in Seq(Reviews) /\ jobs \in Seq(JobStates)
      BY DEF Init
    <2> QED
      BY <1>2, <1>5, <2>1, <2>2, <2>3 DEF Init, TypeOK
  <1>7. CopyIsHonest /\ EarlyHasNoSnapshot
    BY <1>2 DEF Init, CopyIsHonest, EarlyHasNoSnapshot
  <1>8. Tells(events, run)
    BY <1>2, <1>5 DEF Tells
  <1> QED
    BY <1>6, <1>7, <1>8 DEF IInv

(* One legal version and its event extend the history by one.                 *)
LEMMA LogAppend ==
    ASSUME NEW log, NEW a \in RunDocs, NEW b \in RunDocs, NEW type \in EventTypes,
           Tells(log, a), Legal(a, b), b.ver = a.ver + 1
    PROVE  Tells(Append(log, EventOf(b, type)), b)
  <1> DEFINE e == EventOf(b, type)
             longer == Append(log, e)
  <1>1. e \in Events /\ e.ver = b.ver /\ e.state = b.state
    BY EventOfType
  <1> HIDE DEF e
  <1>2. /\ log \in Seq(Events) /\ Len(log) \in Nat /\ Len(log) = b.ver /\ a.ver \in Nat
        /\ log[Len(log)].state = a.state
    BY DEF Tells, RunDocs
  <1>3. /\ longer \in Seq(Events) /\ Len(longer) = Len(log) + 1
        /\ longer[Len(log) + 1] = e /\ \A i \in 1..Len(log) : longer[i] = log[i]
    BY <1>1, <1>2
  <1> HIDE DEF longer
  <1>4. ASSUME NEW i \in 1..Len(longer)
        PROVE  longer[i].ver = i - 1
    <2>1. CASE i = Len(log) + 1
      BY <1>1, <1>2, <1>3, <2>1
    <2>2. CASE i \in 1..Len(log)
      BY <1>3, <2>2 DEF Tells
    <2> QED
      BY <1>2, <1>3, <2>1, <2>2
  <1>5. ASSUME NEW i \in 1..(Len(longer) - 1)
        PROVE  \/ longer[i].state = longer[i + 1].state
               \/ CanTransition(longer[i].state, longer[i + 1].state)
    <2>1. CASE i = Len(log)
      <3>1. longer[i].state = a.state /\ longer[i + 1].state = b.state
        <4>1. Len(log) \in 1..Len(log)
          BY <1>2
        <4> QED
          BY <1>1, <1>2, <1>3, <2>1, <4>1
      <3> QED
        BY <3>1 DEF Legal
    <2>2. CASE i # Len(log)
      <3>1. i \in 1..(Len(log) - 1) /\ i \in 1..Len(log) /\ i + 1 \in 1..Len(log)
        BY <1>2, <1>3, <2>2
      <3>2. longer[i] = log[i] /\ longer[i + 1] = log[i + 1]
        BY <1>3, <3>1
      <3>3. log[i].state = log[i + 1].state \/ CanTransition(log[i].state, log[i + 1].state)
        BY <3>1 DEF Tells
      <3> QED
        BY <3>2, <3>3
    <2> QED
      BY <2>1, <2>2
  <1>6. longer[Len(longer)].state = b.state /\ Len(longer) = b.ver + 1
    BY <1>1, <1>2, <1>3
  <1>7. Tells(longer, b)
    BY <1>3, <1>4, <1>5, <1>6 DEF Tells
  <1> QED
    BY <1>7 DEF longer, e

(* The log grows by exactly the versions written, along the table.            *)
LEMMA LogStep ==
    ASSUME TypeOK, Tells(events, run), Commit
    PROVE  Tells(events, run)'
  <1>1. run \in RunDocs /\ run.ver \in Nat /\ events \in Seq(Events)
    BY DEF TypeOK, RunDocs
  <1>2. CASE Unwritten
    BY <1>2 DEF Unwritten, Tells
  <1>3. CASE OneWrite
    <2>1. PICK doc \in RunDocs, type \in EventTypes :
             /\ run' = doc /\ events' = Append(events, EventOf(doc, type))
             /\ run.ver = doc.ver - 1 /\ Legal(run, doc)
      BY <1>3 DEF OneWrite, UpdateRun, MayUpdate
    <2>2. doc.ver = run.ver + 1
      BY <1>1, <2>1 DEF RunDocs
    <2>3. Tells(Append(events, EventOf(doc, type)), doc)
      BY <1>1, <2>1, <2>2, LogAppend
    <2> QED
      BY <2>1, <2>3 DEF Tells
  <1>4. CASE TwoWrites
    <2>1. PICK first \in RunDocs, second \in RunDocs, t1 \in EventTypes, t2 \in EventTypes :
             /\ first.ver = run.ver + 1 /\ second.ver = run.ver + 2
             /\ run' = second
             /\ events' = events \o <<EventOf(first, t1), EventOf(second, t2)>>
             /\ Legal(run, first) /\ Legal(first, second)
      BY <1>4 DEF TwoWrites
    <2> DEFINE e1 == EventOf(first, t1)
               e2 == EventOf(second, t2)
    <2>2. e1 \in Events /\ e2 \in Events
      BY EventOfType
    <2> HIDE DEF e1, e2
    <2>3. events \o <<e1, e2>> = Append(Append(events, e1), e2)
      BY <1>1, <2>2
    <2>4. Tells(Append(events, e1), first)
      BY <1>1, <2>1, LogAppend DEF e1
    <2>5. Tells(Append(Append(events, e1), e2), second)
      BY <1>1, <2>1, <2>4, LogAppend DEF e2
    <2>6. events' = Append(Append(events, e1), e2)
      BY <2>1, <2>3 DEF e1, e2
    <2> QED
      BY <2>1, <2>5, <2>6 DEF Tells
  <1> QED
    BY <1>2, <1>3, <1>4 DEF Commit

(* Versions only grow, so a copy that was behind stays behind.                *)
LEMMA CommitGrows ==
    ASSUME TypeOK, Commit
    PROVE  /\ run'.ver >= run.ver
           /\ run'.ver = run.ver => run' = run
  <1>1. run.ver \in Nat
    BY DEF TypeOK, RunDocs
  <1>2. CASE Unwritten
    BY <1>1, <1>2 DEF Unwritten
  <1>3. CASE OneWrite
    <2>1. PICK doc \in RunDocs : run' = doc /\ run.ver = doc.ver - 1
      BY <1>3 DEF OneWrite, UpdateRun, MayUpdate
    <2> QED
      BY <1>1, <2>1 DEF RunDocs
  <1>4. CASE TwoWrites
    <2>1. PICK second \in RunDocs : run' = second /\ second.ver = run.ver + 2
      BY <1>4 DEF TwoWrites
    <2> QED
      BY <1>1, <2>1
  <1> QED
    BY <1>2, <1>3, <1>4 DEF Commit

LEMMA CopyStep ==
    ASSUME TypeOK, CopyIsHonest, [Next]_vars
    PROVE  CopyIsHonest'
  <1>1. run'.ver >= run.ver /\ (run'.ver = run.ver => run' = run)
    BY NextCommits, CommitGrows
  <1>2. run.ver \in Nat /\ run'.ver \in Nat
    BY TypeStep DEF TypeOK, RunDocs
  <1>3. view' = view \/ view' = NoView \/ (view' = run /\ run' = run)
    BY DEF Next, Operator, Worker, PutDiscovery, ResolveTarget, ReplayResolveTarget, StartRun,
           PauseRun, ResumeRun, RerunRuntimeGate, ValidateRun, PlainAction, CancelRun,
           CancelDraft, CreateReview, CreatePackage, RequestDeletion, RestoreDeletion, Refresh,
           ExpireKey, FinishResolve, WorkerRead, WorkerWrite, WorkerAttempt, WorkerDecision,
           WorkerTrash, AdmitPackageValidation, Crash, vars, dbVars
  <1>4. ASSUME view' # NoView, view' = view
        PROVE  view'.ver <= run'.ver /\ (view'.ver = run'.ver => view' = run')
    <2>1. view.ver <= run.ver /\ (view.ver = run.ver => view = run) /\ view.ver \in Nat
      BY <1>4 DEF CopyIsHonest, TypeOK, RunDocs
    <2> QED
      BY <1>1, <1>2, <1>4, <2>1
  <1>5. ASSUME view' = run, run' = run
        PROVE  view'.ver <= run'.ver /\ view' = run'
    BY <1>2, <1>5
  <1> QED
    BY <1>3, <1>4, <1>5 DEF CopyIsHonest

LEMMA EarlyStep ==
    ASSUME EarlyHasNoSnapshot, Commit
    PROVE  EarlyHasNoSnapshot'
  <1> DEFINE Early(doc) == doc.state \in {"DRAFT", "RESOLVING_TARGET"}
  <1>1. ASSUME NEW a, NEW b, Legal(a, b), Keeps(a, b), Early(b)
        PROVE  Early(a) /\ b.snap = a.snap
    BY <1>1 DEF Legal, Keeps, CanTransition, Transitions
  <1>2. CASE Unwritten
    BY <1>2 DEF Unwritten, EarlyHasNoSnapshot
  <1>3. CASE OneWrite
    <2>1. PICK doc \in RunDocs : run' = doc /\ Legal(run, doc) /\ Keeps(run, doc)
      BY <1>3 DEF OneWrite, UpdateRun
    <2> QED
      BY <1>1, <2>1 DEF EarlyHasNoSnapshot
  <1>4. CASE TwoWrites
    <2>1. PICK first \in RunDocs, second \in RunDocs :
             /\ run' = second /\ Legal(run, first) /\ Legal(first, second)
             /\ Keeps(run, first) /\ Keeps(first, second)
      BY <1>4 DEF TwoWrites
    <2> QED
      BY <1>1, <2>1 DEF EarlyHasNoSnapshot
  <1> QED
    BY <1>2, <1>3, <1>4 DEF Commit

LEMMA NextIInv == IInv /\ [Next]_vars => IInv'
  <1> SUFFICES ASSUME IInv, [Next]_vars PROVE IInv'
    OBVIOUS
  <1>1. TypeOK /\ CopyIsHonest /\ EarlyHasNoSnapshot
    BY DEF IInv
  <1>2. Commit
    BY <1>1, NextCommits
  <1> QED
    BY <1>1, <1>2, TypeStep, CopyStep, EarlyStep, LogStep DEF IInv

(* The inductive invariant holds throughout every behaviour.                  *)
THEOREM Invariance == Spec => []IInv
  <1>1. Init => IInv
    BY InitIInv
  <1>2. IInv /\ [Next]_vars => IInv'
    BY NextIInv
  <1> QED
    BY <1>1, <1>2, PTL DEF Spec

-----------------------------------------------------------------------------
(* The type invariant holds throughout every behaviour.                       *)
THEOREM TypeCorrect == Spec => []TypeOK
  <1>1. IInv => TypeOK
    BY DEF IInv
  <1> QED
    BY <1>1, Invariance, PTL

(* run_events is the run's complete history: one event per row version.       *)
THEOREM EventLogCorrect == Spec => []EventLogIsHistory
  <1>1. IInv => EventLogIsHistory
    BY DEF IInv, Tells, EventLogIsHistory
  <1> QED
    BY <1>1, Invariance, PTL

(* Consecutive versions follow the frozen transition table, whatever worker   *)
(* writes from whatever copy.                                                 *)
THEOREM HistoryCorrect == Spec => []HistoryFollowsTable
  <1>1. IInv => HistoryFollowsTable
    BY DEF IInv, Tells, HistoryFollowsTable
  <1> QED
    BY <1>1, Invariance, PTL

(* A copy at the row's version is the row.                                    *)
THEOREM CopyCorrect == Spec => []CopyIsHonest
  <1>1. IInv => CopyIsHonest
    BY DEF IInv
  <1> QED
    BY <1>1, Invariance, PTL

-----------------------------------------------------------------------------
LEMMA FrozenStep ==
    ASSUME IInv, [Next]_vars, run.state \in Terminal
    PROVE  [run' EXCEPT !.ver = 0] = [run EXCEPT !.ver = 0]
  <1>1. Commit
    BY NextCommits DEF IInv
  <1>2. CASE Unwritten
    BY <1>2 DEF Unwritten
  <1>3. CASE OneWrite
    <2>1. PICK doc \in RunDocs, type \in EventTypes : UpdateRun(doc, type)
      BY <1>3 DEF OneWrite
    <2>2. run' = doc /\ [doc EXCEPT !.ver = 0] = [run EXCEPT !.ver = 0]
      BY <2>1 DEF UpdateRun, MayUpdate
    <2> QED
      BY <2>2
  <1>4. CASE TwoWrites
    BY <1>4 DEF TwoWrites
  <1> QED
    BY <1>1, <1>2, <1>3, <1>4 DEF Commit

(* The document of a completed, cancelled or failed run never changes again,  *)
(* except for its version.                                                    *)
THEOREM TerminalFrozen == Spec => TerminalIsFrozen
  <1>1. IInv /\ [Next]_vars =>
          [run.state \in Terminal => [run' EXCEPT !.ver = 0] = [run EXCEPT !.ver = 0]]_vars
    BY FrozenStep
  <1> QED
    BY <1>1, Invariance, PTL DEF Spec, TerminalIsFrozen

LEMMA KeepsStep ==
    ASSUME IInv, [Next]_vars
    PROVE  /\ run.snap # NoSnapshot => run'.snap = run.snap
           /\ run.lims \subseteq run'.lims
           /\ run.pkg => run'.pkg
           /\ run'.ver >= run.ver
  <1>1. Commit /\ TypeOK /\ EarlyHasNoSnapshot
    BY NextCommits DEF IInv
  <1>2. run'.ver >= run.ver
    BY <1>1, CommitGrows
  <1>3. CASE Unwritten
    BY <1>2, <1>3 DEF Unwritten
  <1>4. CASE OneWrite
    <2>1. PICK doc \in RunDocs : run' = doc /\ Keeps(run, doc)
      BY <1>4 DEF OneWrite, UpdateRun
    <2> QED
      BY <1>1, <1>2, <2>1 DEF Keeps, EarlyHasNoSnapshot
  <1>5. CASE TwoWrites
    <2>1. PICK first \in RunDocs, second \in RunDocs :
             /\ run' = second /\ Legal(run, first)
             /\ Keeps(run, first) /\ Keeps(first, second)
      BY <1>5 DEF TwoWrites
    <2>2. first.state = "RESOLVING_TARGET" => run.state \in {"DRAFT", "RESOLVING_TARGET"}
      BY <2>1 DEF Legal, CanTransition, Transitions
    <2> QED
      BY <1>1, <1>2, <2>1, <2>2 DEF Keeps, EarlyHasNoSnapshot
  <1> QED
    BY <1>1, <1>3, <1>4, <1>5 DEF Commit

(* No write loses an admitted snapshot, a limitation, a package or a version. *)
THEOREM NothingLost == Spec => NothingIsLost
  <1>1. IInv /\ [Next]_vars =>
          [/\ run.snap # NoSnapshot => run'.snap = run.snap
           /\ run.lims \subseteq run'.lims
           /\ run.pkg => run'.pkg
           /\ run'.ver >= run.ver]_vars
    BY KeepsStep
  <1> QED
    BY <1>1, Invariance, PTL DEF Spec, NothingIsLost

-----------------------------------------------------------------------------
(* Only start-run creates the attempt.                                        *)
LEMMA AttemptChanges ==
    ASSUME [Next]_vars
    PROVE  \/ attempt' = attempt
           \/ \E k \in Keys : StartRun(k) \/ CancelRun(k)
           \/ WorkerAttempt
  BY DEF Next, Operator, Worker, PutDiscovery, ResolveTarget, ReplayResolveTarget, PauseRun,
         ResumeRun, RerunRuntimeGate, ValidateRun, PlainAction, CancelDraft, CreateReview,
         CreatePackage, RequestDeletion, RestoreDeletion, Refresh, ExpireKey, FinishResolve,
         WorkerRead, WorkerWrite, WorkerDecision, WorkerTrash, AdmitPackageValidation, Crash,
         vars, dbVars

LEMMA AttemptStep ==
    ASSUME IInv, AttemptHasSnapshot, [Next]_vars
    PROVE  AttemptHasSnapshot'
  <1>1. run.snap # NoSnapshot => run'.snap # NoSnapshot
    BY KeepsStep
  <1>2. attempt' = attempt \/ attempt.state # "NONE" \/ run.snap # NoSnapshot
    BY AttemptChanges DEF StartRun, CancelRun, WorkerAttempt, FencedAttempt, Live
  <1> QED
    BY <1>1, <1>2 DEF AttemptHasSnapshot

(* Work is queued only on an admitted snapshot.                               *)
THEOREM AttemptCorrect == Spec => []AttemptHasSnapshot
  <1>1. Init => AttemptHasSnapshot
    BY DEF Init, AttemptHasSnapshot
  <1>2. IInv /\ AttemptHasSnapshot /\ [Next]_vars => AttemptHasSnapshot'
    BY AttemptStep
  <1> QED
    BY <1>1, <1>2, Invariance, PTL DEF Spec

-----------------------------------------------------------------------------
(* Which step enters a server-only state.                                     *)
LEMMA Entries ==
    ASSUME WorkerKeepsOut, IInv, [Next]_vars, run'.state # run.state,
           run'.state \in ServerOnly
    PROVE  \/ run'.state = "PACKAGING" /\ \E k \in Keys : CreatePackage(k)
           \/ run'.state = "COMPLETED" /\ AdmitPackageValidation
           \/ run'.state = "CANCELLED" /\ \E k \in Keys : CancelRun(k)
  <1>1. run \in RunDocs /\ (view # NoView => view \in RunDocs)
    BY DEF IInv, TypeOK
  <1>2. /\ Bumped(run).state = run.state
        /\ \A to \in RunStates : MovedTo(run, to).state = to
    BY <1>1, BumpedDoc, MovedDoc
  <1>3. {"RESOLVING_TARGET", "EXECUTING", "PAUSING", "VALIDATING", "PACKAGING", "COMPLETED",
         "CANCELLING", "CANCELLED", "READY"} \subseteq RunStates
    BY DEF RunStates
  <1>4. ASSUME NEW op, NEW k, NEW allowed, MutateState(op, k, allowed)
        PROVE  FALSE
    BY <1>2, <1>4 DEF MutateState, UpdateRun
  <1>5. ASSUME NEW op, NEW k, NEW allowed, NEW to \in RunStates, MutateAction(op, k, allowed, to)
        PROVE  run'.state = to
    BY <1>2, <1>5 DEF MutateAction, UpdateRun, Target
  <1>6. ASSUME NEW lim \in Limitations, Surface(lim)
        PROVE  FALSE
    <2> DEFINE doc == [Bumped(run) EXCEPT !.lims = @ \cup {lim}]
    <2>1. Bumped(run) \in RunDocs
      BY <1>1, BumpedDoc
    <2>2. doc.state = run.state
      BY <1>2, <2>1 DEF RunDocs
    <2> HIDE DEF doc
    <2>3. run' = run \/ run' = doc
      BY <1>6 DEF Surface, UpdateRun, doc
    <2> QED
      BY <2>2, <2>3
  <1>7. ASSUME NEW k \in Keys, ResolveTarget(k)
        PROVE  FALSE
    <2> DEFINE doc == MovedTo(run, "RESOLVING_TARGET")
               warned == Warned(doc)
    <2>1. doc \in RunDocs /\ doc.state = "RESOLVING_TARGET"
      BY <1>1, <1>3, MovedDoc
    <2> HIDE DEF doc
    <2>2. Bumped(doc) \in RunDocs /\ Bumped(doc).state = "RESOLVING_TARGET"
      BY <2>1, BumpedDoc
    <2>3. warned.state = "RESOLVING_TARGET"
      BY <2>2 DEF RunDocs, Warned
    <2> HIDE DEF warned
    <2>4. run' = doc \/ run' = warned
      BY <1>7 DEF ResolveTarget, UpdateRun, doc, warned
    <2> QED
      BY <2>1, <2>3, <2>4 DEF ServerOnly
  <1>8. ASSUME NEW snapshot \in Snapshots, AdmitSnapshot(snapshot)
        PROVE  FALSE
    <2> DEFINE moved == MovedTo(run, "READY")
    <2>1. moved \in RunDocs /\ moved.state = "READY"
      BY <1>1, <1>3, MovedDoc
    <2> HIDE DEF moved
    <2>2. run' = [moved EXCEPT !.snap = snapshot]
      BY <1>8 DEF AdmitSnapshot, UpdateRun, moved
    <2>3. run'.state = "READY"
      BY <2>1, <2>2 DEF RunDocs
    <2> QED
      BY <2>3 DEF ServerOnly
  <1>9. ASSUME NEW k \in Keys, CancelRun(k)
        PROVE  run'.state = "CANCELLED"
    <2>1. MovedTo(run, "CANCELLING") \in RunDocs
      BY <1>1, <1>3, MovedDoc
    <2>2. run' = MovedTo(MovedTo(run, "CANCELLING"), "CANCELLED")
      BY <1>9 DEF CancelRun
    <2> QED
      BY <1>3, <2>1, <2>2, MovedDoc
  <1>10. ASSUME AdmitPackageValidation
         PROVE  run'.state = "COMPLETED"
    <2> DEFINE moved == MovedTo(run, "COMPLETED")
    <2>1. moved \in RunDocs /\ moved.state = "COMPLETED"
      BY <1>1, <1>3, MovedDoc
    <2> HIDE DEF moved
    <2>2. run' = [moved EXCEPT !.pkg = TRUE]
      BY <1>10 DEF AdmitPackageValidation, UpdateRun, moved
    <2> QED
      BY <2>1, <2>2 DEF RunDocs
  <1>11. ASSUME NEW to \in RunStates, WorkerWrite(to)
         PROVE  FALSE
    <2>1. run' = run \/ run' = MovedTo(view, to)
      BY <1>11 DEF WorkerWrite, UpdateRun
    <2>2. MovedTo(view, to).state = to /\ to \notin ServerOnly
      BY <1>1, <1>11, MovedDoc DEF WorkerWrite, WorkerKeepsOut
    <2> QED
      BY <2>1, <2>2
  <1>12. ASSUME NEW k \in Keys,
                \/ PutDiscovery(k) \/ RequestDeletion(k)
                \/ \E review \in Reviews : CreateReview(k, review)
                \/ \E j \in 1..Len(jobs) : RestoreDeletion(k, j)
         PROVE  FALSE
    BY <1>4, <1>12 DEF PutDiscovery, RequestDeletion, CreateReview, RestoreDeletion
  <1>13. ASSUME NEW k \in Keys, StartRun(k) \/ PauseRun(k) \/ ResumeRun(k)
                                \/ RerunRuntimeGate(k) \/ ValidateRun(k)
         PROVE  FALSE
    <2>1. run'.state \in {"EXECUTING", "PAUSING", "VALIDATING"}
      BY <1>3, <1>5, <1>13
         DEF StartRun, PauseRun, ResumeRun, RerunRuntimeGate, ValidateRun, PlainAction
    <2> QED
      BY <2>1 DEF ServerOnly
  <1>14. ASSUME NEW k \in Keys, CreatePackage(k)
         PROVE  run'.state = "PACKAGING"
    BY <1>3, <1>5, <1>14 DEF CreatePackage
  <1>15. ASSUME NEW k \in Keys, CancelDraft(k) \/ ReplayResolveTarget(k)
         PROVE  FALSE
    BY <1>2, <1>6, <1>15 DEF CancelDraft, UpdateRun, ReplayResolveTarget, Limitations
  <1>16. ASSUME NEW slot \in Slots, FinishResolve(slot)
         PROVE  FALSE
    BY <1>6, <1>8, <1>16 DEF FinishResolve, ResolutionFailed, Limitations
  <1>17. ASSUME \/ Refresh \/ \E r \in idem : ExpireKey(r)
                \/ WorkerRead \/ WorkerAttempt \/ WorkerDecision
                \/ \E j \in 1..Len(jobs) : WorkerTrash(j)
                \/ Crash \/ UNCHANGED vars
         PROVE  FALSE
    BY <1>17 DEF Refresh, ExpireKey, WorkerRead, WorkerAttempt, WorkerDecision, WorkerTrash,
                 Crash, vars, dbVars
  <1> QED
    BY <1>7, <1>9, <1>10, <1>11, <1>12, <1>13, <1>14, <1>15, <1>16, <1>17
       DEF Next, Operator, Worker

\* What keeps a cancelled run fenced: fences start at 1 and cancelling raises them.
FenceInv ==
    /\ attempt.state # "NONE" => attempt.fence >= 1
    /\ attempt.state = "CANCELLED" => attempt.fence >= 2
    /\ run.state = "CANCELLED" =>
          ~ Live(attempt.state) /\ \E f \in cleanups : f >= attempt.fence

LEMMA FenceStep ==
    ASSUME WorkerKeepsOut, IInv, FenceInv, [Next]_vars
    PROVE  FenceInv'
  <1>1. /\ attempt.fence \in Nat /\ attempt \in [state : AttemptStates, fence : Nat]
        /\ cleanups \subseteq Nat
    BY DEF IInv, TypeOK
  <1>2. ASSUME NEW k \in Keys, StartRun(k)
        PROVE  FenceInv'
    <2>1. attempt' = [state |-> "QUEUED", fence |-> 1]
      BY <1>2 DEF StartRun
    <2>2. run'.state = "EXECUTING"
      <3>1. run \in RunDocs /\ "EXECUTING" \in RunStates
        BY DEF IInv, TypeOK, RunStates
      <3> QED
        BY <1>2, <3>1, BumpedDoc, MovedDoc DEF StartRun, MutateAction, Target, UpdateRun
    <2> QED
      BY <2>1, <2>2 DEF FenceInv
  <1>3. ASSUME NEW k \in Keys, CancelRun(k)
        PROVE  FenceInv'
    <2>1. attempt' = FencedAttempt /\ cleanups' = cleanups \cup {FencedAttempt.fence}
      BY <1>3 DEF CancelRun
    <2>2. /\ FencedAttempt.fence \in Nat /\ ~ Live(FencedAttempt.state)
          /\ FencedAttempt.state # "NONE" => FencedAttempt.fence >= 1
          /\ FencedAttempt.state = "CANCELLED" => FencedAttempt.fence >= 2
      BY <1>1 DEF FencedAttempt, Live, FenceInv
    <2> QED
      BY <2>1, <2>2 DEF FenceInv
  <1>4. CASE WorkerAttempt
    <2>1. run' = run /\ cleanups' = cleanups /\ attempt'.fence = attempt.fence
          /\ Live(attempt.state) /\ attempt'.state \in {"RUNNING", "SUCCEEDED", "FAILED"}
      BY <1>1, <1>4 DEF WorkerAttempt, Live
    <2> QED
      BY <2>1 DEF FenceInv, Live
  <1>5. CASE attempt' = attempt /\ ~ \E k \in Keys : CancelRun(k)
    <2>1. run'.state = "CANCELLED" => run.state = "CANCELLED"
      BY <1>5, Entries DEF ServerOnly
    <2>2. cleanups' = cleanups
      BY <1>5 DEF Next, Operator, Worker, PutDiscovery, ResolveTarget, ReplayResolveTarget,
           StartRun, PauseRun, ResumeRun, RerunRuntimeGate, ValidateRun, PlainAction,
           CancelDraft, CreateReview, CreatePackage, RequestDeletion, RestoreDeletion, Refresh,
           ExpireKey, FinishResolve, WorkerRead, WorkerWrite, WorkerAttempt, WorkerDecision,
           WorkerTrash, AdmitPackageValidation, Crash, vars, dbVars
    <2> QED
      BY <1>5, <2>1, <2>2 DEF FenceInv
  <1> QED
    BY <1>2, <1>3, <1>4, <1>5, AttemptChanges

(* A cancelled run has no live attempt, and its cleanup record supersedes the *)
(* fence of every dispatch, as long as the worker does not cancel runs itself.*)
THEOREM CancelledCorrect == ASSUME WorkerKeepsOut PROVE Spec => []CancelledIsFenced
  <1>1. Init => FenceInv
    BY DEF Init, FenceInv
  <1>2. IInv /\ FenceInv /\ [Next]_vars => FenceInv'
    BY FenceStep
  <1>3. IInv /\ FenceInv => CancelledIsFenced
    <2> SUFFICES ASSUME IInv, FenceInv, run.state = "CANCELLED" PROVE CancelledIsFenced
      BY DEF CancelledIsFenced
    <2>1. cleanups \subseteq Nat /\ attempt.fence \in Nat
      BY DEF IInv, TypeOK
    <2> QED
      BY <2>1 DEF FenceInv, CancelledIsFenced
  <1> QED
    BY <1>1, <1>2, <1>3, Invariance, PTL DEF Spec
-----------------------------------------------------------------------------
(* A package is bound by completion alone.                                    *)
LEMMA PackageStep ==
    ASSUME IInv, [Next]_vars, run'.pkg, ~ run.pkg
    PROVE  run'.state = "COMPLETED"
  <1>1. Commit
    BY NextCommits DEF IInv
  <1>2. CASE Unwritten
    BY <1>2 DEF Unwritten
  <1>3. CASE OneWrite
    BY <1>3 DEF OneWrite, UpdateRun, Keeps
  <1>4. CASE TwoWrites
    <2>1. PICK first \in RunDocs, second \in RunDocs :
             /\ run' = second /\ Legal(first, second)
             /\ Keeps(run, first) /\ Keeps(first, second)
      BY <1>4 DEF TwoWrites
    <2>2. first.state = "COMPLETED" => second.state = "COMPLETED"
      BY <2>1 DEF Legal, CanTransition, Transitions
    <2> QED
      BY <2>1, <2>2 DEF Keeps
  <1> QED
    BY <1>1, <1>2, <1>3, <1>4 DEF Commit

(* The package object changes with the run alone, and a decision stays.       *)
LEMMA PackageChanges ==
    ASSUME [Next]_vars
    PROVE  /\ decision => decision'
           /\ \/ package' = package
              \/ \E k \in Keys : CreatePackage(k)
              \/ AdmitPackageValidation
  <1>1. \/ package' = package
        \/ \E k \in Keys : CreatePackage(k)
        \/ AdmitPackageValidation
    BY DEF Next, Operator, Worker, PutDiscovery, ResolveTarget, ReplayResolveTarget, StartRun,
         PauseRun, ResumeRun, RerunRuntimeGate, ValidateRun, PlainAction, CancelRun,
         CancelDraft, CreateReview, RequestDeletion, RestoreDeletion, Refresh, ExpireKey,
         FinishResolve, WorkerRead, WorkerWrite, WorkerAttempt, WorkerDecision, WorkerTrash,
         Crash, vars, dbVars
  <1>2. decision' = decision \/ WorkerDecision
    BY DEF Next, Operator, Worker, PutDiscovery, ResolveTarget, ReplayResolveTarget, StartRun,
         PauseRun, ResumeRun, RerunRuntimeGate, ValidateRun, PlainAction, CancelRun,
         CancelDraft, CreateReview, CreatePackage, RequestDeletion, RestoreDeletion, Refresh,
         ExpireKey, FinishResolve, WorkerRead, WorkerWrite, WorkerAttempt, WorkerTrash,
         AdmitPackageValidation, Crash, vars, dbVars
  <1>3. WorkerDecision => ~ decision
    BY DEF WorkerDecision
  <1> QED
    BY <1>1, <1>2, <1>3

\* What completion rests on: a run is packaged behind a decision only.
PackageInv == CompletedIsPackaged /\ (run.state = "PACKAGING" => decision)

LEMMA PackageInvStep ==
    ASSUME WorkerKeepsOut, IInv, PackageInv, [Next]_vars
    PROVE  PackageInv'
  <1>1. run \in RunDocs /\ run' \in RunDocs
    BY NextIInv DEF IInv, TypeOK
  <1>2. ASSUME AdmitPackageValidation
        PROVE  PackageInv'
    <2> DEFINE moved == MovedTo(run, "COMPLETED")
    <2>1. moved \in RunDocs /\ moved.state = "COMPLETED"
      BY <1>1, MovedDoc DEF RunStates
    <2>2. run' = [moved EXCEPT !.pkg = TRUE]
      BY <1>2 DEF AdmitPackageValidation, UpdateRun
    <2> HIDE DEF moved
    <2>3. run'.state = "COMPLETED" /\ run'.pkg = TRUE
      BY <2>1, <2>2 DEF RunDocs
    <2>4. package' = "VALIDATED" /\ decision' = decision /\ run.state = "PACKAGING"
      BY <1>2 DEF AdmitPackageValidation
    <2> QED
      BY <2>3, <2>4 DEF PackageInv, CompletedIsPackaged
  <1>3. ASSUME NEW k \in Keys, CreatePackage(k)
        PROVE  PackageInv'
    <2>1. /\ run.state = "REVIEW_REQUIRED" /\ decision /\ decision' = decision
          /\ package' = "REQUESTED"
      BY <1>3 DEF CreatePackage, MutateAction, Accepts
    <2>2. run' = MovedTo(run, "PACKAGING")
      BY <1>3, <2>1 DEF CreatePackage, MutateAction, Target, UpdateRun
    <2>3. run'.state = "PACKAGING" /\ run'.pkg = run.pkg
      BY <1>1, <2>2, MovedDoc DEF RunStates
    <2> QED
      BY <2>1, <2>3 DEF PackageInv, CompletedIsPackaged
  <1>4. ASSUME ~ AdmitPackageValidation, ~ \E k \in Keys : CreatePackage(k)
        PROVE  PackageInv'
    <2>1. package' = package /\ (decision => decision')
      BY <1>4, PackageChanges DEF IInv
    <2>2. run'.state \in {"PACKAGING", "COMPLETED"} => run.state = run'.state
      BY <1>4, Entries DEF ServerOnly
    <2>3. run.state = "COMPLETED" => run'.state = "COMPLETED"
      <3>1. SUFFICES ASSUME run.state = "COMPLETED" PROVE run'.state = "COMPLETED"
        OBVIOUS
      <3>2. [run' EXCEPT !.ver = 0] = [run EXCEPT !.ver = 0]
        BY <3>1, FrozenStep DEF Terminal
      <3>3. [run' EXCEPT !.ver = 0].state = run'.state
            /\ [run EXCEPT !.ver = 0].state = run.state
        BY <1>1 DEF RunDocs
      <3> QED
        BY <3>1, <3>2, <3>3
    <2>4. run.pkg => run'.pkg
      BY KeepsStep
    <2>5. run'.pkg => run.pkg
      BY <2>2, PackageStep DEF PackageInv, CompletedIsPackaged
    <2>6. run.pkg \in BOOLEAN /\ run'.pkg \in BOOLEAN
      BY <1>1 DEF RunDocs
    <2> QED
      BY <2>1, <2>2, <2>3, <2>4, <2>5, <2>6 DEF PackageInv, CompletedIsPackaged
  <1> QED
    BY <1>2, <1>3, <1>4

(* COMPLETED, the bound package and the validated package object stand or     *)
(* fall together, behind a decision, as long as the worker leaves PACKAGING   *)
(* and COMPLETED to the server, which updateRun does not enforce: then no     *)
(* write but admitPackageValidation's completes a run, and none reaches       *)
(* PACKAGING past createPackage's gate.                                       *)
THEOREM CompletedPackaged == ASSUME WorkerKeepsOut PROVE Spec => []CompletedIsPackaged
  <1>1. Init => PackageInv
    BY DEF Init, PackageInv, CompletedIsPackaged
  <1>2. IInv /\ PackageInv /\ [Next]_vars => PackageInv'
    BY PackageInvStep
  <1>3. PackageInv => CompletedIsPackaged
    BY DEF PackageInv
  <1> QED
    BY <1>1, <1>2, <1>3, Invariance, PTL DEF Spec

-----------------------------------------------------------------------------
\* The log has the version of a document, in its state.
Recorded(log, doc) ==
    \E i \in 1..Len(log) : log[i].ver = doc.ver /\ log[i].state = doc.state

(* A log that only grows keeps what it recorded.                              *)
LEMMA RecordsStay ==
    ASSUME IInv, [Next]_vars, NEW doc, Recorded(events, doc)
    PROVE  Recorded(events', doc)
  <1>1. Commit /\ events \in Seq(Events)
    BY NextCommits DEF IInv, TypeOK
  <1>2. PICK i \in 1..Len(events) : events[i].ver = doc.ver /\ events[i].state = doc.state
    BY DEF Recorded
  <1>3. i \in 1..Len(events') /\ events'[i] = events[i]
    <2>1. CASE Unwritten
      BY <2>1 DEF Unwritten
    <2>2. CASE OneWrite
      <3>1. PICK e \in Events : events' = Append(events, e)
        BY <2>2, EventOfType DEF OneWrite, UpdateRun
      <3> QED
        BY <1>1, <3>1
    <2>3. CASE TwoWrites
      <3>1. PICK d \in Events, e \in Events : events' = events \o <<d, e>>
        <4>1. PICK first \in RunDocs, second \in RunDocs, t1 \in EventTypes, t2 \in EventTypes :
                 events' = events \o <<EventOf(first, t1), EventOf(second, t2)>>
          BY <2>3 DEF TwoWrites
        <4> QED
          BY <4>1, EventOfType
      <3> QED
        BY <1>1, <3>1
    <2> QED
      BY <1>1, <2>1, <2>2, <2>3 DEF Commit
  <1> QED
    BY <1>2, <1>3 DEF Recorded

(* One updateRun records the document it stores.                              *)
LEMMA WriteRecords ==
    ASSUME TypeOK, NEW doc \in RunDocs, NEW type \in EventTypes,
           events' = Append(events, EventOf(doc, type))
    PROVE  Recorded(events', doc)
  <1>1. EventOf(doc, type) \in Events /\ EventOf(doc, type).ver = doc.ver
        /\ EventOf(doc, type).state = doc.state
    BY EventOfType
  <1>2. events \in Seq(Events)
    BY DEF TypeOK
  <1>3. Len(events) + 1 \in 1..Len(events') /\ events'[Len(events) + 1] = EventOf(doc, type)
    BY <1>1, <1>2
  <1> QED
    BY <1>1, <1>3 DEF Recorded

(* A transaction with two updateRun calls records the first document, too.    *)
LEMMA TwoWritesRecord ==
    ASSUME TypeOK, NEW first \in RunDocs, NEW second \in RunDocs,
           NEW t1 \in EventTypes, NEW t2 \in EventTypes,
           events' = events \o <<EventOf(first, t1), EventOf(second, t2)>>
    PROVE  Recorded(events', first)
  <1>1. /\ EventOf(first, t1) \in Events /\ EventOf(second, t2) \in Events
        /\ EventOf(first, t1).ver = first.ver /\ EventOf(first, t1).state = first.state
    BY EventOfType
  <1> DEFINE d == EventOf(first, t1)
             e == EventOf(second, t2)
  <1>2. d \in Events /\ e \in Events /\ events' = events \o <<d, e>> /\ events \in Seq(Events)
    BY <1>1 DEF TypeOK
  <1> HIDE DEF d, e
  <1>3. Len(events) + 1 \in 1..Len(events') /\ events'[Len(events) + 1] = d
    BY <1>2
  <1> QED
    BY <1>1, <1>3 DEF Recorded, d

\* What a step may add to the stored replies: one, about a recorded document.
RepliesOf(doc) == \A r \in idem' \ idem : r.ver = doc.ver /\ r.state = doc.state
NewRepliesRecorded ==
    \/ idem' \subseteq idem
    \/ \E doc \in RunDocs : Recorded(events', doc) /\ RepliesOf(doc)

LEMMA ReplyOf ==
    ASSUME NEW op, NEW k, NEW doc, Reply(op, k, doc)
    PROVE  RepliesOf(doc)
  BY DEF Reply, RepliesOf

LEMMA NextReplies ==
    ASSUME TypeOK, [Next]_vars
    PROVE  NewRepliesRecorded
  <1>1. run \in RunDocs
    BY DEF TypeOK
  <1>2. "run.state.changed" \in EventTypes /\ "warning.raised" \in EventTypes
    BY DEF EventTypes
  <1>3. ASSUME NEW op, NEW k, NEW allowed, MutateState(op, k, allowed)
        PROVE  NewRepliesRecorded
    <2>1. Bumped(run) \in RunDocs
      BY <1>1, BumpedDoc
    <2>2. Recorded(events', Bumped(run)) /\ RepliesOf(Bumped(run))
      BY <1>2, <1>3, <2>1, WriteRecords, ReplyOf DEF MutateState, UpdateRun
    <2> QED
      BY <2>1, <2>2 DEF NewRepliesRecorded
  <1>4. ASSUME NEW op, NEW k, NEW allowed, NEW to \in RunStates,
               MutateAction(op, k, allowed, to)
        PROVE  NewRepliesRecorded
    <2>1. Target(to) \in RunDocs
      BY <1>1, BumpedDoc, MovedDoc DEF Target
    <2>2. Recorded(events', Target(to)) /\ RepliesOf(Target(to))
      BY <1>2, <1>4, <2>1, WriteRecords, ReplyOf DEF MutateAction, UpdateRun
    <2> QED
      BY <2>1, <2>2 DEF NewRepliesRecorded
  <1>5. ASSUME NEW k \in Keys, ResolveTarget(k)
        PROVE  NewRepliesRecorded
    <2> DEFINE doc == MovedTo(run, "RESOLVING_TARGET")
               warned == Warned(doc)
    <2>1. doc \in RunDocs
      BY <1>1, MovedDoc DEF RunStates
    <2>2. /\ Reply("resolveTarget", k, doc)
          /\ \/ events' = Append(events, EventOf(doc, "run.state.changed"))
             \/ events' = events \o <<EventOf(doc, "run.state.changed"),
                                      EventOf(warned, "warning.raised")>>
      BY <1>5 DEF ResolveTarget, UpdateRun
    <2> HIDE DEF doc
    <2>3. warned \in RunDocs
      BY <2>1, BumpedDoc DEF RunDocs, Warned, Limitations
    <2> HIDE DEF warned
    <2>4. Recorded(events', doc) /\ RepliesOf(doc)
      BY <1>2, <2>1, <2>2, <2>3, WriteRecords, TwoWritesRecord, ReplyOf
    <2> QED
      BY <2>1, <2>4 DEF NewRepliesRecorded
  <1>6. ASSUME NEW k \in Keys, CancelRun(k)
        PROVE  NewRepliesRecorded
    <2> DEFINE first == MovedTo(run, "CANCELLING")
               second == MovedTo(first, "CANCELLED")
    <2>1. first \in RunDocs
      BY <1>1, MovedDoc DEF RunStates
    <2>2. /\ Reply("cancelRun", k, first)
          /\ events' = events \o <<EventOf(first, "run.state.changed"),
                                   EventOf(second, "run.state.changed")>>
      BY <1>6 DEF CancelRun
    <2> HIDE DEF first
    <2>3. second \in RunDocs
      BY <2>1, MovedDoc DEF RunStates
    <2> HIDE DEF second
    <2>4. Recorded(events', first) /\ RepliesOf(first)
      BY <1>2, <2>1, <2>2, <2>3, TwoWritesRecord, ReplyOf
    <2> QED
      BY <2>1, <2>4 DEF NewRepliesRecorded
  <1>7. ASSUME NEW k \in Keys, CancelDraft(k)
        PROVE  NewRepliesRecorded
    <2>1. Bumped(run) \in RunDocs
      BY <1>1, BumpedDoc
    <2>2. Recorded(events', Bumped(run)) /\ RepliesOf(Bumped(run))
      BY <1>2, <1>7, <2>1, WriteRecords, ReplyOf DEF CancelDraft, UpdateRun
    <2> QED
      BY <2>1, <2>2 DEF NewRepliesRecorded
  <1>8. ASSUME NEW k \in Keys,
               \/ PutDiscovery(k) \/ RequestDeletion(k)
               \/ \E review \in Reviews : CreateReview(k, review)
               \/ \E j \in 1..Len(jobs) : RestoreDeletion(k, j)
        PROVE  NewRepliesRecorded
    BY <1>3, <1>8 DEF PutDiscovery, RequestDeletion, CreateReview, RestoreDeletion
  <1>9. ASSUME NEW k \in Keys,
               \/ StartRun(k) \/ PauseRun(k) \/ ResumeRun(k) \/ RerunRuntimeGate(k)
               \/ ValidateRun(k) \/ CreatePackage(k)
        PROVE  NewRepliesRecorded
    <2>1. {"EXECUTING", "PAUSING", "VALIDATING", "PACKAGING"} \subseteq RunStates
      BY DEF RunStates
    <2> QED
      BY <1>4, <1>9, <2>1
         DEF StartRun, PauseRun, ResumeRun, RerunRuntimeGate, ValidateRun, CreatePackage,
             PlainAction
  <1>10. ASSUME \/ \E k \in Keys : ReplayResolveTarget(k)
                \/ Refresh \/ \E r \in idem : ExpireKey(r)
                \/ \E s \in Slots : FinishResolve(s)
                \/ Worker \/ Crash \/ UNCHANGED vars
         PROVE  NewRepliesRecorded
    <2>1. idem' \subseteq idem
      BY <1>10 DEF ReplayResolveTarget, Refresh, ExpireKey, FinishResolve, Worker, WorkerRead,
           WorkerWrite, WorkerAttempt, WorkerDecision, WorkerTrash, AdmitPackageValidation,
           Crash, vars, dbVars
    <2> QED
      BY <2>1 DEF NewRepliesRecorded
  <1> QED
    BY <1>5, <1>6, <1>7, <1>8, <1>9, <1>10 DEF Next, Operator

(* A stored response, replayed whenever and however often, reports a version  *)
(* and a state the run went through, the first of cancelRun's two included.   *)
THEOREM RepliesTrue == Spec => []RepliesAreHistory
  <1>1. Init => RepliesAreHistory
    BY DEF Init, RepliesAreHistory
  <1>2. IInv /\ RepliesAreHistory /\ [Next]_vars => RepliesAreHistory'
    <2> SUFFICES ASSUME IInv, RepliesAreHistory, [Next]_vars, NEW r \in idem'
                 PROVE  Recorded(events', r)
      BY DEF RepliesAreHistory, Recorded
    <2>1. CASE r \in idem
      BY <2>1, RecordsStay DEF RepliesAreHistory, Recorded
    <2>2. CASE r \notin idem
      <3>1. PICK doc \in RunDocs : Recorded(events', doc) /\ RepliesOf(doc)
        BY <2>2, NextReplies DEF NewRepliesRecorded, IInv
      <3> QED
        BY <2>2, <3>1 DEF Recorded, RepliesOf
    <2> QED
      BY <2>1, <2>2
  <1> QED
    BY <1>1, <1>2, Invariance, PTL DEF Spec
=============================================================================
