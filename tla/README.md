# A verification project for the Repo Assessment Kit

This directory models the parts of the kit whose correctness depends on order:
who writes when, what survives a restart, what a retry may repeat. Each module is
translated from the JavaScript, TypeScript and shell sources; TLC checks it on small
instances and TLAPS proves central properties for every instance.

    tlasany RunLifecycle.tla                              # parse
    tlc -workers 2 -config MCRunLifecycle.cfg MCRunLifecycle.tla
    tlc -workers 2 -config MCComponents.cfg MCComponents.tla
    tlapm RunLifecycleProofs.tla                          # check the proofs
    tlapm ComponentsProofs.tla

## 1. The system and its parts

The kit assesses a source repository. A control-plane server keeps assessment
runs for a human operator, who works in a web console. A release orchestrator, a
separate program, runs an assessment: it takes a snapshot of the source, runs it in
an isolated runtime that it reaches only through a small root helper, has AI
providers write and review proposals in containers, and packages the outcome. A
last program takes two finished runs of two providers to a customer release.

| Part | Source | State it keeps | Operations | What makes it hard | Module |
|---|---|---|---|---|---|
| Server API | `apps/server/src/app.ts` | resolver calls in flight | one route per operation; every mutation carries `If-Match` and `Idempotency-Key` | a route that answers before its asynchronous tail ends; replays | `RunLifecycle` |
| Store | `packages/persistence/src/index.ts` | SQLite: runs, events, phases, attempts, cleanups, idempotency rows, objects, reviews, deletion jobs | `updateRun` (compare-and-swap plus event), `admitSnapshot`, `queueCleanup`, `admitPackageValidation`, ... | several writers with copies of the same document | `RunLifecycle` |
| Workflow | `packages/workflow/src/index.ts` | the frozen run and phase tables | `transitionRun` | writes that do not go through it | `RunLifecycle` |
| Operator inputs | `apps/server/src/app.ts` | approvals, capabilities, secret rows; tokens, values, timers and sessions in memory | save approvals, create, upload and revoke a secret, log in | expiry, restart, cancellation and upload in any order | `DraftInputs` |
| Web console | `apps/web` | the last document it read, an event stream | load, change, follow | stale views, late answers, another tab | `OperatorConsole` |
| Local acquisition | `apps/server/src/local-acquisition.ts` | content-addressed snapshots | freeze a working tree | the source changes while it is read | `SourceCapture` |
| Host helper service, journal | `scripts/host-helper-service.mjs`, `host-helper-journal.mjs` | handlers in flight; counters, nonces, fences, commands, resources, cleanup in one fsynced file | `handle`, `admit`, `complete`, `reconcile`, `emergencyStop` | interleaved handlers, death between effect and record, a write that fails half-way | `HostHelper` |
| Host helper client | `scripts/host-helper-client.mjs` | a counter file | `request` | retries under one commandId | `HostHelper` |
| Helper installation | `scripts/install-production-host-helper.sh`, the validator and service start | installed files, identity, unit | install, verify, validate, serve | two installers, a checkout edited meanwhile | `HelperInstall` |
| Runtime flow | `scripts/production-runtime-flow.mjs` | a PREPARED/COMPLETED journal | the commands of a VM's life and their cleanup | resume after a crash between effect and record | `RuntimeFlow` |
| SSH source, snapshots | `scripts/production-ssh-source.mjs`, `immutable-local-snapshot.mjs` | an index, a journal per acquisition, transferred trees | acquire, import, capture, release | cleanup on every exit | `SshSource`, `SourceCapture` |
| Release orchestrator | `scripts/run-release-assessment.mjs`, `release-run-state.mjs` | a journalled run directory | run, resume, finalise a failure | what is resumable, what is forgotten | `ReleaseRun` |
| Provider broker | `scripts/provider-broker.mjs` | admissions, staged files, containers | execute; the command line over the helper | cancellation races completion; dependencies that throw | `ProviderBroker`, `ProviderCommand` |
| Provider container | `container/provider-task.mjs` | a process group and its output | run, parse, validate | a stream cut off at a limit or a timeout | `ProviderTask` |
| Agent adapters | `packages/agent-adapters` | none | execute a task, take or refuse a proposal | a proposal of another attempt | `AgentTask` |
| Control plans | `packages/runtime/src/control-plan.ts` | admissions and nonces | sign, admit, dispatch, revoke, reconcile | a plan revoked between lookup and use | `ControlPlan` |
| Packaging | `packages/packaging` | archive, digest, encrypted copy | check, write, validate, seal | a torn or edited file, another process | `CustomerPackage` |
| Public release | `scripts/public-release-transition.mjs` | a pair directory, its journal and lock | pair, review, authorize, release | lock takeover from a dead owner, torn files | `PublicRelease` |
| Engagement id | `scripts/engagement-id.mjs` | `.rak_id` | resolve | first launchers race | `EngagementId` |
| Analyzers, reporting, evidence, policy, validation | `packages/*`, `scripts/*` | none | functions of documents | data algorithms | none |

How they interact. The console calls the server; the server's handlers write the
store, one synchronous transaction at a time; the resolver runs between two handlers.
The assessment engine that would move a run through its phases is not in the
repository: the store offers `getRun`/`updateRun` to it and `RunLifecycle` has it as
an external worker. The orchestrator calls the runtime flow, the SSH source and the
provider command; these call the helper client; the client writes one frame to the
helper's socket; the helper admits it in the journal, calls a driver (a fixed external
broker binary) and records the result. Each of these callers gives a command a fixed
id, so its module takes from `HostHelper` what that promises: a command is done once.
The public release reads two finished run directories and shares nothing with them.

What makes each part correct is stated by the properties of section 3. The hazards,
each at its line, are in `PROJECT.json`.

## 2. Modules

`RunLifecycle` and `HostHelper` (with `EffectLedger`, what the helper promises) have
their own instances, `MCRunLifecycle` and `MCHostHelper`. The other fifteen
components share no state; `Components` is their sum: its first state picks one of
them, and the behaviour from there is one of that component's. Four modules instantiate
the components under names of their own, with constants and assumptions of their own:
`ReleaseParts` (`Release`, `Public`, `Package`), `ProviderParts` (`Broker`, `Command`,
`Task`, `Agent`), `SourceParts` (`Runtime`, `Capture`, `Ssh`, `Control`) and
`ServerParts` (`Inputs`, `Console`, `Install`, `Id`). A variable name that several
components have is declared once, the ones of several groups in `ComponentState`.
`MCComponents` gives the constants values. `MCReleaseRun` and `MCPublicRelease` do so
for the runs that expect a violation. `RunLifecycleProofs` and `HostHelperProofs` hold
the theorems of their modules, each `XProofs` of a group those of its components, and
`ComponentsProofs` those of the sum. `NumberFacts` holds two lemmas about sets of
numbers that the groups share.

### RunLifecycle

`run` is the row of `runs` with the fields of its document that other state depends
on (state, version, snapshot, limitations, package). `events` is `run_events`; each
event also remembers the state of the document it was written with, a history field
that the table does not have. `attempt` and `cleanups` are `phase_attempts` and
`cleanup_records`, `idem` the idempotency rows, `reviewLog` the reviews table and
`reviews` the review objects with `current=1`. `resolving` and `view` are memory:
resolver calls in flight and the worker's copy. `seen` is the version the operator
sends as `If-Match`.

Node runs one handler at a time and the SQLite driver is synchronous, so a handler
without an `await` is one action, with every write it makes. `resolve-target` is
two: the route, and `FinishResolve` after the `await`. `mutateDraft`, `mutateState`
and `mutateAction` are operators with the code's checks in the code's order; a
request that fails a check changes nothing and has no action. `cancelRun` writes
two versions, CANCELLING and CANCELLED, in one transaction and stores the first as
the response.

The worker is external. It reads the run, later stores `transitionRun(copy, to)`
through `updateRun`, and may do so after anything happened; it moves along
`WorkerMoves`, any subset of the table. `updateRun` keeps no writer out of the states
the server enters (PACKAGING, COMPLETED, CANCELLING, CANCELLED); that the worker
leaves them alone is `WorkerKeepsOut`, which the workers of the runs satisfy and on
which `CompletedIsPackaged` and `CancelledIsFenced` rest.

Abstracted: request bodies, schema checks, ETag formatting, the text of
limitations, the eleven phases after static-inventory (one representative), other
runs. Cancelling also revokes secret inputs, and rerunning the runtime gate also
replaces capability objects; both touch tables no property here reads.

### HostHelper

A frame is its index in `frames`: its nonce and its request digest are unique to
it. A delivery of a frame has one handler, whose `pc` moves once for every `await`
of `handle`. `journal` is the process's copy, `disk` the file. A transaction either
is written, or throws in one of three ways: the temporary file of an earlier
failure is in the way (`wx`), the write fails and leaves one, or the rename reached
the disk and the fsync of the directory failed. Crashes drop the copy, the handlers
and the temporary name; a reboot also empties `/var/run`, so the socket and the
client's counter go. Reconcile and emergency-stop run as a process of their own
while `serve` is down; the singleton lock that ensures this is taken to work.

`driven`, `outcome` and `alive` are not program state: they record which deliveries
called a driver, what the effect came to, and which runtimes exist.

Abstracted: field validation, MACs, peer credentials, payloads. A driver returns
SUCCEEDED or FAILED, or throws with or without its effect; RUNNING and ACCEPTED are
kept as results like FAILED is. When its answer does not parse or is not of the
operation's form, the code records AUTH_FAILED after an effect that may have happened,
with `cleanupRequired: false`, and so does the model; `EffectIsNotRefused` therefore
speaks of the codes of a refused admission, which only another handler could record. In
reconcile, the external broker reports the true outcome of every pending command; when
it does not, the code throws, which is `AbandonMaintenance`. A maintenance write that
fails ends the process and is the same action.

### ReleaseRun

One run directory; the commands `run` and `resume` are one process each, which works on
a copy of the journal in memory and replaces the file as a whole. The steps are the
stages of the orchestrator: capture, isolated runtime, offline draft, provider tasks
(an author and the reviews of its proposal, each with attempts and an authority),
package validation, receipt, and `finalizeReleaseFailure`, where every throw goes. The
result of the isolated runtime is stored whatever it is: a BLOCKED one, also with
residue or with effects that have no answer, limits the draft, which goes on; a resume
refuses it. The source, the snapshot, the draft and the configuration may drift between
any two steps. Not in the module: the readiness report, task capsules, the successor
package. Two commands at once on one directory are outside the checked instance,
because no part of the repository starts them; nothing in the code keeps them apart
either.

### PublicRelease

The four commands of `public-release-transition.mjs`. `pair` reads the journal before
it takes `.transition.lock`, the others after it. The journal is replaced by one
rename; every other file is created exclusively and then filled, so a death in
between leaves it torn. The lock has the code's three steps (create, write the pid,
give back) and its takeover: read, judge the owner dead or an unsigned lock old, and
remove. Authentic records and certificates are taken as such; whether their windows
are open changes.

### ProviderBroker, ProviderCommand, ProviderTask, AgentTask

`ProviderBroker` is `createProviderBroker(...).execute(job)`: several calls for one job
over a journal, a staging area and an executor that may each throw, a journal call
also after it wrote. An execution that throws is not cancelled, so its container may
outlive the call. This function is called by tests only; what production runs is
`ProviderCommand`, the command line that carries one job through helper commands with
fixed ids and links a result document into place once. `ProviderTask` is the program in
the container, from the validated envelope to the written proposal: process group,
output limit, timeout, event stream, final proposal. `AgentTask` is the adapter of
`packages/agent-adapters`, over attempts of an author's task and of its review and an
outbox that holds the answer of any of them. Which proposal a review has to judge is
the caller's choice; it is modelled as its only caller, `executeProviderTasks`, makes
it: an author's proposal that was taken.

### RuntimeFlow

One attempt of the isolated runtime as a list of helper commands, each journalled
PREPARED before and COMPLETED after its answer, and the cleanup that follows however
the list ends. `world` is what exists on the host. A later process replays what is
COMPLETED and repeats a PREPARED command if its payload is the same. Assumed: the
effect of a command happens at the latest when its request times out.

### SshSource, SourceCapture

`SshSource` is `createFlow(...).execute` under `prepareNewRun`: the index that names
the acquisition under way, the acquisition's journal, the source the helper holds, the
import, the capture and the release. `SourceCapture` is the content of a directory
taken while somebody works in it: two walks compared (a snapshot, an identity) or
three (the server's resolver), one step for an entry.

### ControlPlan

A plan's life in a journal whose lookups are awaited: each `await` ends a step, so
admissions, dispatches, revocations and reconciliations of several callers overtake
each other, and the clock and the attempt's fence move.

### CustomerPackage

From the staging tree to a sealed package: the artifacts are read and checked against
their certificates, the archive is written at its final path, another process reads it
back, the detached digest seals it, an encrypted copy comes last. The tree may be
edited, another process may be at the same name, a file may be damaged, a process may
die. `createCustomerPackage` is called by tests only; the scripts use its parts (the
archive writer, the reader that checks an archive again, the encryption provider).

### DraftInputs, OperatorConsole

`DraftInputs` is the session, the approvals with what they show of a capability, and a
secret from its upload token to its erasure. Rows survive a restart; tokens, values,
timers and sessions do not. `OperatorConsole` is several tabs with requests that
overlap, answers that come late or never, and an event stream that breaks and resumes.
`informed` and `crossed` are history; a tab is `crossed` once an answer or an event of
another run got into it, and `ConsoleIsInformed` does not speak of it from then on.

### HelperInstall, EngagementId

`HelperInstall` is the installer, its validator and the start of the service over one
machine: a stage, the record of the release ceremony, files installed one at a time, no
lock against a second installer. `IndexIsFree` says whether awk lets a program assign
to a variable named `index`; POSIX awk does not, so the record check of the code ends
with a syntax error (`install_record`). The passing run sets it TRUE: it shows what the
rest of the installer does once that check can be read. `EngagementId` is the race for
`.rak_id`.

## 3. Runs

| Run | Bounds | Shows |
|---|---|---|
| `run_lifecycle` | 1 key, 2 snapshots, 2 overlapping resolver calls, 6 versions, 1 restart | the safety of one run through resolution, work, cancellation and replays |
| `run_packaging` | 9 versions, 2 review kinds, 1 slot | review, package, completion, deletion and restore |
| `run_resolution` | 5 versions, no restart, fairness | an accepted resolution concludes |
| `helper_client` | 3 commands of 2 attempts, 2 frames, 1 crash or reboot, 1 failed write | at-most-once effects, durable answers, `EffectLedger` |
| `helper_redelivery` | 1 command, 2 frames, each delivered twice, 1 crash or reboot | one effect also under duplicates |
| `components` | see below | the properties of the fifteen other components |

The properties of `components`, and what they rule out:

| Component | Bounds | Properties |
|---|---|---|
| `ReleaseRun` | 1 process, an author and a review, 3 commands, 3 kinds of fault | `DraftIsHonest`: a draft says LIMITED unless every task succeeded, its reviews are of the proposals in it, and isolated effects without an answer under it are owned to as BLOCKED. `IntegrityIsFinal`: FAILED_INTEGRITY, DRIFTED and CANCELLED stay |
| `PublicRelease` | 2 processes, 1 review kind, 1 cross-review, 5 commands, 1 kind of fault | `CertificateIsEarned`, `AdmittedIsWritten`: what the journal or a certificate claims is whole on disk. `OneHolder`: one command at a time while nobody died or was slow |
| `ProviderBroker` | 2 calls, 2 throws | `RecordsAreTrue`: one result, one container, "removed" only of files that are gone. `ReturnedIsSettled`: files left behind have a stage or a cleanup that threw to blame, a container an execution or a cancellation |
| `ProviderCommand` | 2 processes | `DocumentIsHonest`: completed means nothing of the job is on the host |
| `ProviderTask` | 2 evidence items, 1 admitted, limit of 4 events, 5 events | `ProposalIsEarned`: a proposal is of a whole stream and a program that succeeded |
| `RuntimeFlow` | 2 processes, 3 faults | `FlowIsAccounted`: SUCCEEDED is complete; no residue means nothing is left |
| `SourceCapture` | 2 names, 2 contents, 2 changes, 2 captures | `SnapshotIsAnInstant`: a snapshot is what the source held at one instant; the resolver's is weaker, entry by entry |
| `SshSource` | 4 runs, 3 faults | `SourceIsAccounted`: the helper holds no source that the index does not name |
| `ControlPlan` | 4 plans, 2 callers, 2 times, 2 fences, 4 calls | `ProbesAreAuthorised`: only signed, admitted, current plans are probed, one for a nonce |
| `AgentTask` | 2 evidence items, 1 allowed, 2 attempts each | `TakenIsBound`: a taken proposal is of its attempt, a taken review of a taken proposal |
| `CustomerPackage` | 7 artifacts, 2 paths, 2 processes, 1 edit, 1 fault, 2 calls | `PackageIsSealed`: a digest is of a certified archive without anything that may not leave |
| `DraftInputs` | 2 handles, 2 decisions, 4 instants, 3 requests, 1 restart | `SecretsAreHeld`: a value in memory is of a live handle and a timer erases it |
| `OperatorConsole` | 2 tabs, 2 runs, 2 changes, 1 load, 2 events shown | `ConsoleIsInformed`: no tab changes what it has not seen, no event is missing |
| `HelperInstall` | 2 installers, 2 files, 2 releases, 2 commands, 2 events | `InstallationIsWhole`: installed bytes were recorded, a verified installation is one release |
| `EngagementId` | 3 launchers, 3 attempts | `EngagementIsOne`: all get the one id |

The exact values are in the `.cfg` files and in `MCComponents.tla`. Why they are
enough: a version lost or written twice needs two writers and one of them late, which
is two resolver calls or a worker with an old copy; a second effect needs a second
frame or a second delivery of one, and one crash between admission and effect. In the
other components a fault needs at most two processes (or one and its successor) and a
death, a throw or a change between two steps of the first; three commands let a fault
of the first be met by a resume of a resume. A fault is counted by its kind in
`ReleaseRun` and `PublicRelease`, once each in a behaviour. The properties were each
tried against a mutant of the code that breaks them (`mutants` in `PROJECT.json`), so
the case does occur within the bounds. Every action of every module fires in a passing
run. Deadlock is not checked: the bounds stop the actors, and a finished run, job or
installation has nothing left to do.

Runs that are expected to find a violation each check one sentence of the repository
against what the code does:

| Run | The sentence | What happens |
|---|---|---|
| `run_review_eligible` | architecture: "append review; when all pass, package becomes eligible" | the second review clears the first |
| `helper_replay_result` | contract: the same key and digest returns the durable result | a late or in-flight duplicate rewrites the result |
| `release_final` | public release: "The digest-bound release transition is one-use." | a second `pair`, which read the journal before it waited for the lock, stores its old copy over a published release |
| `release_attempts` | broker test: "resumption requires a new attempt, fence, admission digest and nonce" | a resume that dies early forgets the attempts of tasks it has not reached; the next asks for attempt 1 again |
| `runtime_residue` | safety: any surviving secret is blocking residue | a revocation that was answered FAILED counts as done; a resumed process does not know its predecessor's secret |
| `install_record` | runbook: the installer accepts the closed record | its awk program assigns to `index`; every record is refused |

Fairness. Only `run_resolution` uses it: weak fairness of `FinishResolve`, because a
resolver that was called returns or throws (the local one is a bounded, synchronous
computation). The operator and the worker have no fairness, nobody has to act. The
other components are commands that a person starts and may stop starting; nothing in
the repository promises that they end.

Other behaviour met while modelling, which the models have and no run is about:

* Server. A restart during a resolver call leaves RESOLVING_TARGET for good. A
  replayed `resolve-target` resolves again, and the second call marks the run failed
  although the first one's snapshot was admitted. `admitSnapshot` writes phases along
  pairs outside the frozen table. `resume` takes a run without a snapshot out of
  RECOVERABLE_FAILURE, if a worker moved it there.
* Operator inputs. An approval that a later list does not mention, or that expires,
  leaves its capability shown as available. A secret is checked for expiry and approval
  before the replay of its request is looked up. After a restart an UPLOADED row has no
  value. Sessions never expire on the server.
* Console. Events and action answers never fetch the run again, although the
  architecture says that clients refetch, so a second action gets 412 until a reload. A
  late answer to a save sets the version of whatever run is shown, and an old stream may
  deliver into a new run's list.
* Helper. Reconcile records no resource that emergency-stop could then name; a resumed
  client's fresh frame conflicts with its own earlier one; the counter restarts after a
  reboot. The production provider adapter is never available, because the authorities
  that `initialize` looks for are not a field a reconcile answer may have. A driver whose
  answer is malformed is recorded as AUTH_FAILED with nothing to clean up, whatever it
  did on the host.
* Provider broker. The container of an executor that throws is not cancelled: the handler
  cancels after an abort or a timeout only.
* SSH source. A lost answer to `source.acquire`, or a death in ACQUIRING or between the
  import and its record, wedges the acquisition until somebody removes it by hand.
* Resolver. Walks one and three are compared and the second is published, so a file
  changed and changed back between them is published with its middle content.
* Release run. `verifyReleaseRun`, throwing after DRAFT_VALIDATED, makes a finished run
  RECOVERABLE_FAILURE again. No lock keeps two commands off one directory.
* Packaging. The archive is at its final path before it is validated; a failed
  validation or a death leaves it there unsealed, and every retry ends with EEXIST.
* Installation. A death between `groupadd` and `useradd` leaves a group that every
  later install refuses; the TERM trap removes the stage and the script goes on; install
  and verify fail while the service's socket exists.
* Engagement id. A death after the exclusive open leaves an empty file that every later
  launch refuses; a file removed between write and read gives the id "null".
* Control plans. A dispatch may probe a plan that is revoked after its lookup.

## 4. Proofs

Everything in `*Proofs.tla` is for arbitrary constants: any number of keys, versions,
resolver calls, commands, frames, deliveries, processes, crashes and faults. The
assumptions on the constants are `ConstantsAssumption` of `RunLifecycle` and
`HostHelper` and one assumption for a component in its group's module (table below).

`RunLifecycleProofs`. The event log is the heart. The inductive invariant says that
the log has one event for each version and ends in the row's state, that a worker's
copy is at most at the row's version and equal to the row when it is at it, and that
every pair of versions is a table transition. Each action appends exactly the events
of the versions it makes, so the invariant survives; the compare-and-swap turns a
late write into a refusal. From it follow `EventLogCorrect`, `HistoryCorrect`,
`CopyCorrect`, `TerminalFrozen` and `NothingLost`. `AttemptCorrect`,
`CancelledCorrect`, `CompletedPackaged` and `RepliesTrue` have invariants of their own:
about snapshots, fences, the package object beside the row, and, for the stored
replies, that the log only grows, so that a point of the history stays one.
`CancelledCorrect` and `CompletedPackaged` have the hypothesis `WorkerKeepsOut`: a worker
that stored COMPLETED itself would complete a run without a package. The other theorems
hold for a worker that writes anything along the table.

`HostHelperProofs`. A delivery *claims* its command when admit has let it through or
its driver was called. The invariant: the journal names the frame of every claim,
two claims on one command are one delivery, and the file extends the process's
copy. `EffectOnce` alone is not inductive, because it does not exclude two handlers
that are both past admit; and the last part is needed because a failed write may
have reached the disk. Every draft a transaction makes extends the journal
(`AdmittedExtends`, `CompletedExtends`, `MaintainedExtends`, `ReconciledExtends`),
so nothing is forgotten and a second claim meets the first at admit. This gives
`EffectAtMostOnce`, `AdmissionFirst` and `JournalGrows`.

`EffectUnrefused`, `AnswersDurable` and `LedgerImplemented` hold when no frame is
presented twice, which is their hypothesis MaxDeliveries = 1: a duplicate that fails
rewrites a result (`helper_replay_result`). Then the delivery that drove a command is
the only one that can record anything about it, a terminal entry is never reopened,
and a delivery past its driver has nothing but its result left to write. For the
refinement, the effect of a command is "performed" once a delivery of it is in
`driven`, "admitted" while the journal has an entry without one, and its result is the
journal's. Each transaction admits one command, concludes one, or changes neither map;
a driver call performs one; every other step stutters.

The components. A group's proof module shows for each component `C` that its
invariant holds of `C!Spec`, with the property that the run checks; the lemmas go
action by action. `ComponentsProofs` lifts each result to the sum: the part that the
first state picks stays picked (`PartStays`), with `C` picked the first state and every
step are ones of `C` (`CStarts`, `CSteps`), and with another part picked the property
says nothing. `PropertyHolds` is the theorem about `Spec` of `Components`, whose
property is the definition that the run `components` checks.

| Component | Theorems on the component | Assumption | Invariant |
|---|---|---|---|
| `ReleaseRun` | `ReleaseTypes`, `HonestDraft`, `FinalIntegrity` | a review comes after its author's task; `Isolated` is a boolean, a number of commands | the copy in the process is the journal while it works; what the journal says succeeded was admitted, and a task under way names its entry |
| `PublicRelease` | `PublicTypes`, `EarnedCertificate`, `WrittenAdmission`, `LoneHolder` | 0 is no process, numbers of commands and tasks | whatever the journal or any process's copy of it claims is a whole file, or the file of a process that is past writing it; for the lock: who is between creation and removal is the one the lock names |
| `CustomerPackage` | `PackageTypes`, `SealedPackage` | none | an archive is of the artifacts its writer checked; who writes a digest holds the digest of what it read |
| `ProviderBroker` | `BrokerTypes`, `TrueRecords`, `SettledReturn` | 0 is no call | one call owns the admission, and a file or a container beyond its call has a throw of its own dependencies to blame |
| `ProviderCommand` | `HonestDocument` | none | a document that claims, and a process about to write one, find the job gone from the host, and every command that could bring it back is spent |
| `ProviderTask` | `EarnedProposal` | none | the stream so far is the events of the program, and a reason to reject stays one |
| `RuntimeFlow` | `FlowTypes`, `AccountedFlow` | numbers of processes and faults | while nothing went wrong a command is still to do or COMPLETED, and the cleanup to do, done or residue; in the first process what exists is flagged or its revocation was refused |
| `SourceCapture` | `InstantSnapshot` | none | what the second walk has agreed with was so when it began and is so unless it changed since |
| `SshSource` | `AccountedSource` | a number of runs | each journal state implies what was taken, imported and captured; a process knows the acquisition that it is at |
| `ControlPlan` | `ControlTypes`, `AuthorisedProbes` | ids are names | the journal and its nonces agree, a dispatch past its lookup holds an admitted plan, and so does every probe |
| `AgentTask` | `AgentTypes`, `BoundProposals` | none | the recorded author proposals were authored, and an attempt has taken only what its checks passed |
| `DraftInputs` | `InputsTypes`, `SecretsHeld` | delays are durations, a number of requests | a token waits for its handle, a value has a timer by its expiry, a cancelled run has neither |
| `OperatorConsole` | `ConsoleTypes`, `InformedConsole` | numbers of events shown and of changes | the answer to a creation is of a run its tab has not heard of; a page that is not live has no answer of its load under way; a tab that nothing crossed holds the row it saw and shows the last events its stream delivered |
| `HelperInstall` | `InstallTypes`, `WholeInstallation` | releases have files and are not called like the other contents | the stage of an installer past its check is one recorded release; what it installed so far is that release or was edited since |
| `EngagementId` | `IdTypes`, `OneEngagement` | launchers are ids, a number of attempts | while nobody removed the file, the ids in use are the one in it, and who writes it created it |

`DraftIsHonest`, `IntegrityIsFinal` and `TypeOK` have the hypothesis `OneCommand`: one
process works on a run directory. It is a hypothesis of the theorem and not an assumption
on the constants, because the code has no lock that ensures it (section 2); the run
satisfies it. `TypeOK` needs it for `ReleaseRun` alone. The admission and certificate
properties of the public release do not need the lock: they are proved for processes that
hold it at the same time. `FlowIsAccounted` needs no assumption on what the helper
answers; its part about the cleanup is about the first process, because a later one does
not know what an earlier one flagged (`runtime_residue`).

The console's list is sorted after every event. That a set of numbers can be sorted
(`SortingExists`) is an argument by a smallest counterexample: `LeastNumber` of
`NumberFacts` gives the least element of a non-empty set of numbers, which stands for
induction also in `ProviderTask` (the first event at which a stream breaks). Sorting the
window of events a tab shows, with the next one, gives the next window (`SortedInterval`,
`ReceivedNext`), and the last of it is a window again. That no run has more changes than
all runs may have (`RoomForOne`) counts pairs of a run and a change.

Only model-checked: `ResolutionConcludes`. Liveness under fairness and `ENABLED` are
outside what the proof system does. The other properties of the passing runs are theorems.

## 5. Plan

1. Proofs: which properties of `ReleaseRun` survive two commands on one directory, and
   what of `EffectLedger` the helper still implements when a frame is presented twice.
2. The lock file of the helper's journal and of the client's counter, as
   `PublicRelease` has the pair lock.
3. The successor package inside `ReleaseRun`, and the revisions of a run.
4. `RuntimeFlow` and `ProviderCommand` over `EffectLedger` instead of their own record
   of commands taken.

## 6. Not modelled

* Analyzers, reporting and evidence: functions of documents with no state of their own.
* Offline and practical assessments: sequences over files without resume.
* Runtime policy and capability decisions, validation of the configuration, preflight
  and the network attestation: single-shot checks of one document.
* Canonical JSON, MACs, signatures, digests, schema checks, file permissions, archive
  byte layouts: data that the properties do not tell apart; a refusal stands for them.
* The external broker binaries and drivers: outside the repository.
* Approvals of a run's revisions, migrations and backups of the store.
