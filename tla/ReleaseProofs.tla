---------------------------- MODULE ReleaseProofs ----------------------------
(***************************************************************************)
(* Proofs about the release pipeline.  Each part has an invariant          *)
(* of its own, named after the component; constants have the assumptions of *)
(* the group's module.                                                     *)
(***************************************************************************)
EXTENDS ReleaseParts, TLAPS

-----------------------------------------------------------------------------
(***************************************************************************)
(* What a release run claims, with one command at a time: for any tasks,   *)
(* any number of commands, and faults in any order.                        *)
(*                                                                         *)
(* The invariant says, of every place of a command, what the copy of the   *)
(* journal it holds has behind it, so that the stage which resume trusts   *)
(* is honest whichever write was the last.                                 *)
(***************************************************************************)

\* One command at a time works in a directory; its operator sees to it, no part of the code.
OneCommand == \A p, q \in ReleaseProcs : p = q

TaskPcs == {"task", "ask", "broker"}
Early == {"initialize", "revalidate", "runtime", "running", "staged", "draft", "begin"}
Moving == Early \cup TaskPcs \cup {"validate"}
ReleasePcs == Moving \cup {"idle", "receipt", "finalize", "close"}

Journals == Release!Document \cup {Release!NoJournal}
Commands ==
    [pc : ReleasePcs, verb : {"none", "run", "resume"}, call : 0..ReleaseCalls,
     doc : Journals, task : Nat \ {0}, previous : [Release!Tasks -> 0..ReleaseCalls],
     available : BOOLEAN, aborted : BOOLEAN]

ReleaseTyped ==
    /\ journal \in Journals /\ receipt \in Journals
    /\ effects \in {"none", "open", "closed"}
    /\ proc \in [ReleaseProcs -> Commands]
    /\ asked \subseteq [task : Release!Tasks, attempt : Release!Calls, nonce : Release!Calls]
    /\ calls \in 0..ReleaseCalls

\* An attempt of a task is numbered by a command that admitted it, or by an earlier one.
AttemptsWithin(doc, n) == \A t \in Release!Tasks : doc.tasks[t].attempt <= n

Counted(at, n, doc, previous) ==
    /\ doc \in Release!Document /\ n \in 1..calls /\ AttemptsWithin(doc, n)
    /\ at \in Early => AttemptsWithin(doc, n - 1)
    /\ at \in TaskPcs => \A t \in Release!Tasks : previous[t] <= n - 1

\* With a final status the command is on its way out, with a copy that says so too.
StatusFits(at, doc) ==
    /\ at \in Moving => doc.status \notin Release!Terminal
    /\ at \in {"receipt", "close"} => doc.status \notin Release!IntegrityTerminal

JournalFits(at, doc) ==
    /\ journal # Release!NoJournal
    /\ journal.status \in Release!IntegrityTerminal =>
        at = "finalize" /\ doc.status \in Release!IntegrityTerminal
    /\ at \in Moving => journal.status # Release!Draft

\* What the tasks of a document say of each other.
TasksAgree(tasks) ==
    \A t \in Release!Tasks :
        /\ tasks[t].outcome = "succeeded" <=> tasks[t].proposal # 0
        /\ tasks[t].state = "ADMITTED" => tasks[t].outcome # "succeeded"
        /\ tasks[t].proposal # 0 /\ Release!Author(t) # 0 =>
             tasks[t].expects = tasks[Release!Author(t)].proposal

\* Effects that are left open are owned to.
Owned(doc) == effects = "open" => doc.runtime = "BLOCKED"

\* The claims of a document that has reached the validation of its package.
Honest(doc) ==
    /\ doc.stage \in {"PROVIDER_TASKS", "PACKAGE_VALIDATION",
       Release!Draft} => doc.package # "none"
    /\ doc.stage \in {"PACKAGE_VALIDATION", Release!Draft} =>
        (\A t \in Release!Tasks : doc.tasks[t].outcome = "succeeded")
        \/ doc.passed = "LIMITED"
    /\ TasksAgree(doc.tasks)
    /\ doc.runtime = "SUCCEEDED" => effects = "closed"
    /\ doc.status = Release!Draft => Owned(doc)

\* The tasks before the one at hand were done or left out, the ones behind it are not there.
TasksSoFar(at, tasks, task) ==
    /\ \A t \in Release!Tasks :
        /\ t > task => tasks[t] = Release!NoTask
        /\ t < task /\ tasks[t] = Release!NoTask => Release!Author(t) # 0
           /\ tasks[Release!Author(t)].proposal = 0
    /\ task \in Release!Tasks =>
        IF at = "task" THEN tasks[task] = Release!NoTask
        ELSE /\ tasks[task].state = "ADMITTED" /\ tasks[task].proposal = 0
             /\ Release!Author(task) # 0 => tasks[task].expects = tasks[Release!Author(task)].proposal
    /\ at # "task" => task \in Release!Tasks

StageFits(at, verb, doc, task) ==
    /\ verb \in {"run", "resume"} /\ Honest(doc)
    /\ at = "begin" \/ at \in TaskPcs => doc.stage = "PROVIDER_TASKS"
    /\ at \in TaskPcs => TasksSoFar(at, doc.tasks, task)
    /\ at = "validate" => doc.stage = "PACKAGE_VALIDATION"
    /\ at = "draft" => verb = "run"
    /\ at \in {"initialize", "revalidate"} /\ verb # "run" =>
        doc.stage \in Release!ResumableStages \cup {"ISOLATED_RUNTIME"}

\* Effects are open and not owned to only where the runtime is at work, or was when
\* the command died.
ReleaseEffectsFit(at, verb, doc) ==
    /\ verb = "run" /\ at \in {"initialize", "runtime"} => effects = "none"
    /\ verb = "run" /\ at = "staged" => Owned(doc)
    /\ at \in {"draft", "begin", "validate", "receipt"} \cup TaskPcs => Owned(doc)
    /\ at \in {"runtime", "running"} => Isolated
    /\ at = "revalidate" => verb # "run"

Fits(at, verb, n, doc, task, previous) ==
    /\ Counted(at, n, doc, previous) /\ StatusFits(at, doc)
    /\ StageFits(at, verb, doc, task) /\ ReleaseEffectsFit(at, verb, doc)

CommandsFit ==
    \A p \in ReleaseProcs : ~ Release!At(p, "idle") =>
        /\ JournalFits(proc[p].pc, Release!Doc(p))
        /\ Fits(proc[p].pc, proc[p].verb, proc[p].call, Release!Doc(p), Release!Task(p),
           proc[p].previous)

JournalIsHonest ==
    /\ journal # Release!NoJournal => Honest(journal) /\ AttemptsWithin(journal, calls)
    /\ journal = Release!NoJournal => effects = "none"
    /\ ~ Isolated => effects = "none"

ReleaseInv == OneCommand /\ ReleaseTyped /\ CommandsFit /\ JournalIsHonest

LEMMA NoJournalIsNoDocument == Release!NoJournal \notin Release!Document
  BY DEF Release!NoJournal, Release!Document, Release!Terminal, Release!IntegrityTerminal

\* Whatever a document says, only its author changes when it is written.
LEMMA SignedIsSame ==
  ASSUME NEW d \in Release!Document, NEW c \in Release!Calls
  PROVE  /\ [d EXCEPT !.by = c] \in Release!Document
         /\ [d EXCEPT !.by = c].status = d.status /\ [d EXCEPT !.by = c].stage = d.stage
         /\ [d EXCEPT !.by = c].tasks = d.tasks /\ [d EXCEPT !.by = c].passed = d.passed
         /\ [d EXCEPT !.by = c].runtime = d.runtime
         /\ [d EXCEPT !.by = c].package = d.package
  BY DEF Release!Document

LEMMA IdleIsCommand == Release!Idle \in Commands /\ Release!Idle.pc = "idle"
<1>1. 0 \in 0..ReleaseCalls BY ReleaseAssumption
<1> QED BY <1>1 DEF Release!Idle, Commands, ReleasePcs, Moving, Early, TaskPcs, Journals

LEMMA ReleaseInitInvariant == ASSUME OneCommand, Release!Init PROVE ReleaseInv
<1>1. 0 \in 0..ReleaseCalls BY ReleaseAssumption
<1> QED BY <1>1, IdleIsCommand
        DEF Release!Init, ReleaseInv, ReleaseTyped, CommandsFit, JournalIsHonest, Journals,
            Release!At

\* The one command moves to a place where it fits.
LEMMA AdvanceInvariant ==
  ASSUME ReleaseInv, NEW p \in ReleaseProcs, NEW x \in Commands,
         proc' = [proc EXCEPT ![p] = x],
         receipt' \in Journals, effects' \in {"none", "open", "closed"},
         asked' \subseteq [task : Release!Tasks, attempt : Release!Calls,
         nonce : Release!Calls],
         calls' \in 0..ReleaseCalls, journal' \in Release!Document, JournalIsHonest',
         x.pc # "idle" =>
            /\ (JournalFits(x.pc, x.doc))'
            /\ (Fits(x.pc, x.verb, x.call, x.doc, x.task, x.previous))'
  PROVE  ReleaseInv'
<1>1. proc' \in [ReleaseProcs -> Commands] /\ proc'[p] = x
  BY DEF ReleaseInv, ReleaseTyped
<1>2. \A q \in ReleaseProcs : q = p
  BY DEF ReleaseInv, OneCommand
<1>3. ReleaseTyped'
  BY <1>1 DEF ReleaseTyped, Journals
<1>4. CommandsFit'
  BY <1>1, <1>2 DEF CommandsFit, Release!At, Release!Doc, Release!Task
<1> QED BY <1>3, <1>4 DEF ReleaseInv

\* Facts about the command at work.
LEMMA AtWork ==
  ASSUME ReleaseInv, NEW p \in ReleaseProcs, ~ Release!At(p, "idle")
  PROVE  /\ proc[p] \in Commands /\ Release!Doc(p) \in Release!Document
            /\ journal \in Release!Document
         /\ proc[p].call \in Release!Calls /\ proc[p].call <= calls
         /\ JournalFits(proc[p].pc, Release!Doc(p)) /\ JournalIsHonest
         /\ Fits(proc[p].pc, proc[p].verb, proc[p].call, Release!Doc(p), Release!Task(p),
            proc[p].previous)
<1>1. calls \in Nat /\ calls <= ReleaseCalls /\ ReleaseCalls \in Nat
  BY ReleaseAssumption DEF ReleaseInv, ReleaseTyped
<1>2. /\ JournalFits(proc[p].pc, Release!Doc(p)) /\ JournalIsHonest
      /\ Fits(proc[p].pc, proc[p].verb, proc[p].call, Release!Doc(p), Release!Task(p),
         proc[p].previous)
  BY DEF ReleaseInv, CommandsFit
<1>3. Release!Doc(p) \in Release!Document /\ proc[p].call \in 1..calls
  BY <1>2 DEF Fits, Counted
<1>4. proc[p] \in Commands /\ journal \in Release!Document
  BY <1>2 DEF ReleaseInv, ReleaseTyped, JournalFits, Journals
<1> QED BY <1>1, <1>2, <1>3, <1>4 DEF Release!Calls

\* A command that changes its copy alone.
LEMMA KeepInvariant ==
  ASSUME ReleaseInv, NEW p \in ReleaseProcs, ~ Release!At(p, "idle"),
         NEW d \in Release!Document, NEW at \in ReleasePcs,
         Release!Keep(p, d, at), JournalFits(at, d),
         Fits(at, proc[p].verb, proc[p].call, d, Release!Task(p), proc[p].previous)
  PROVE  ReleaseInv'
<1>1. proc[p] \in Commands
  BY AtWork
<1>2. PICK x \in Commands : x = [proc[p] EXCEPT !.doc = d, !.pc = at]
  BY <1>1 DEF Commands, Journals
<1>3. /\ x.pc = at /\ x.doc = d /\ x.verb = proc[p].verb
      /\ x.call = proc[p].call /\ x.task = Release!Task(p) /\ x.previous = proc[p].previous
  BY <1>1, <1>2 DEF Release!Task, Commands
<1>4. proc' = [proc EXCEPT ![p] = x] /\ UNCHANGED <<journal, receipt, effects, asked, calls>>
  BY <1>2 DEF Release!Keep, ReleaseInv, ReleaseTyped
<1>5. JournalIsHonest' /\ journal' \in Release!Document
  BY <1>4, AtWork DEF JournalIsHonest, Honest, Owned
<1>6. /\ (JournalFits(x.pc, x.doc))'
      /\ (Fits(x.pc, x.verb, x.call, x.doc, x.task, x.previous))'
  BY <1>3, <1>4 DEF JournalFits, Fits, Counted, StageFits, Honest, Owned, ReleaseEffectsFit
<1> QED BY <1>4, <1>5, <1>6, AdvanceInvariant DEF ReleaseInv, ReleaseTyped

\* A command that writes its copy.
LEMMA ReleaseWriteInvariant ==
  ASSUME ReleaseInv, NEW p \in ReleaseProcs, ~ Release!At(p, "idle"),
         NEW d \in Release!Document,
         NEW at \in ReleasePcs \ {"idle"}, Release!Write(p, d, at),
         Fits(at, proc[p].verb, proc[p].call, d, Release!Task(p), proc[p].previous)
  PROVE  ReleaseInv'
<1>1. proc[p] \in Commands /\ proc[p].call \in Release!Calls
  BY AtWork
<1>2. PICK s \in Release!Document : s = [d EXCEPT !.by = proc[p].call]
  BY <1>1, SignedIsSame
<1>3. /\ s.status = d.status /\ s.stage = d.stage /\ s.tasks = d.tasks
      /\ s.passed = d.passed /\ s.runtime = d.runtime /\ s.package = d.package
  BY <1>1, <1>2, SignedIsSame
<1>4. PICK x \in Commands : x = [proc[p] EXCEPT !.doc = s, !.pc = at]
  BY <1>1 DEF Commands, Journals
<1>5. /\ x.pc = at /\ x.doc = s /\ x.verb = proc[p].verb
      /\ x.call = proc[p].call /\ x.task = Release!Task(p) /\ x.previous = proc[p].previous
  BY <1>1, <1>4 DEF Release!Task, Commands
<1>6. /\ journal' = s /\ proc' = [proc EXCEPT ![p] = x]
      /\ UNCHANGED <<receipt, effects, asked, calls>>
  BY <1>2, <1>4 DEF Release!Write, ReleaseInv, ReleaseTyped
<1>7. (Fits(x.pc, x.verb, x.call, x.doc, x.task, x.previous))'
  BY <1>3, <1>5, <1>6 DEF Fits, Counted, AttemptsWithin, StatusFits, StageFits, Honest, Owned,
     ReleaseEffectsFit
<1>8. AttemptsWithin(s, calls)
  <2>1. \A t \in Release!Tasks : d.tasks[t].attempt \in Nat
    BY ReleaseAssumption DEF Release!Document, Release!TaskRecord
  <2>2. calls \in Nat /\ proc[p].call \in Nat /\ proc[p].call <= calls
    BY AtWork DEF Release!Calls, ReleaseInv, ReleaseTyped
  <2>3. AttemptsWithin(d, proc[p].call)
    BY DEF Fits, Counted
  <2> QED BY <1>3, <2>1, <2>2, <2>3 DEF AttemptsWithin
<1>9. JournalIsHonest'
  BY <1>3, <1>6, <1>8, AtWork, NoJournalIsNoDocument
     DEF JournalIsHonest, Honest, Owned, Fits, StageFits, AttemptsWithin
<1>10. (JournalFits(x.pc, x.doc))'
  BY <1>3, <1>5, <1>6, NoJournalIsNoDocument
     DEF JournalFits, Fits, StatusFits, Release!Terminal, Release!IntegrityTerminal,
         ReleasePcs, Release!Draft
<1> QED BY <1>5, <1>6, <1>7, <1>9, <1>10, AdvanceInvariant DEF ReleaseInv, ReleaseTyped

\* A command that fails keeps its copy for the finalizer, wherever it was.
LEMMA ReleaseFailInvariant ==
  ASSUME ReleaseInv, NEW p \in ReleaseProcs, ~ Release!At(p, "idle"),
         proc[p].pc \in Release!Working \cup {"receipt"},
         proc' = [proc EXCEPT ![p].pc = "finalize"],
         UNCHANGED <<journal, receipt, effects, asked, calls>>
  PROVE  ReleaseInv'
<1>1. proc[p] \in Commands /\ Release!Doc(p) \in Release!Document
  BY AtWork
<1>2. PICK x \in Commands : x = [proc[p] EXCEPT !.pc = "finalize"]
  BY <1>1 DEF Commands, ReleasePcs
<1>3. /\ x.pc = "finalize" /\ x.doc = Release!Doc(p) /\ x.verb = proc[p].verb
      /\ x.call = proc[p].call /\ x.task = Release!Task(p) /\ x.previous = proc[p].previous
  BY <1>1, <1>2 DEF Release!Task, Release!Doc, Commands
<1>4. proc' = [proc EXCEPT ![p] = x]
  BY <1>2 DEF ReleaseInv, ReleaseTyped
<1>5. JournalIsHonest' /\ journal' \in Release!Document
  BY AtWork DEF JournalIsHonest, Honest, Owned
<1>6. PICK d \in Release!Document : d = Release!Doc(p)
  BY <1>1
<1>7. /\ (JournalFits("finalize", d))'
      /\ (Fits("finalize", x.verb, x.call, d, x.task, x.previous))'
  BY <1>3, <1>6, AtWork DEF JournalFits, Fits, Counted, StatusFits, StageFits, Honest, Owned,
     ReleaseEffectsFit,
     Moving, Early, TaskPcs
<1> QED BY <1>3, <1>4, <1>5, <1>6, <1>7, AdvanceInvariant DEF ReleaseInv, ReleaseTyped

LEMMA ReleaseThrowInvariant ==
  ASSUME ReleaseInv, NEW p \in ReleaseProcs, proc[p].pc \in Release!Working, Release!Throw(p)
  PROVE  ReleaseInv'
<1>1. ~ Release!At(p, "idle")
  BY DEF Release!Working, Release!At
<1>2. proc[p] \in Commands
  BY <1>1, AtWork
<1>3. proc' = [proc EXCEPT ![p].pc = "finalize"]
  BY <1>2 DEF Release!Throw, Release!Keep, Release!Doc, ReleaseInv, ReleaseTyped, Commands
<1> QED BY <1>1, <1>3, ReleaseFailInvariant DEF Release!Throw, Release!Keep

\* A command that ends or dies.
LEMMA LeaveInvariant ==
  ASSUME ReleaseInv, NEW p \in ReleaseProcs, ~ Release!At(p, "idle"),
         proc' = [proc EXCEPT ![p] = Release!Idle],
         UNCHANGED <<journal, effects, asked, calls>>, receipt' \in Journals
  PROVE  ReleaseInv'
<1>1. JournalIsHonest' /\ journal' \in Release!Document
  BY AtWork DEF JournalIsHonest, Honest, Owned
<1> QED BY <1>1, IdleIsCommand, AdvanceInvariant DEF ReleaseInv, ReleaseTyped

\* An integrity state claims nothing of the stages.
LEMMA ReleaseStopInvariant ==
  ASSUME ReleaseInv, NEW p \in ReleaseProcs, ~ Release!At(p, "idle"),
         NEW status \in Release!IntegrityTerminal,
         NEW d \in Release!Document, d.status = status, d.stage = status,
         d.tasks = Release!Doc(p).tasks,
         d.runtime = Release!Doc(p).runtime, Release!Write(p, d, "finalize")
  PROVE  ReleaseInv'
<1>1. Fits("finalize", proc[p].verb, proc[p].call, d, Release!Task(p), proc[p].previous)
  BY AtWork DEF Fits, Counted, AttemptsWithin, StatusFits, StageFits, Honest, Owned,
     ReleaseEffectsFit, Moving, Early,
     TaskPcs, Release!IntegrityTerminal, Release!Draft
<1> QED BY <1>1, ReleaseWriteInvariant DEF ReleasePcs, Release!IntegrityTerminal,
    Release!Draft

LEMMA IntegrityStopInvariant ==
  ASSUME ReleaseInv, NEW p \in ReleaseProcs, ~ Release!At(p, "idle"),
         NEW status \in Release!IntegrityTerminal,
         Release!IntegrityStop(p, status)
  PROVE  ReleaseInv'
<1>1. Release!Doc(p) \in Release!Document
  BY AtWork
<1>2. PICK d \in Release!Document : d = Release!Closing(Release!Doc(p), status)
  BY <1>1 DEF Release!Closing, Release!Document, Release!Terminal
<1>3. /\ d.status = status /\ d.stage = status /\ d.tasks = Release!Doc(p).tasks
      /\ d.runtime = Release!Doc(p).runtime
  BY <1>1, <1>2 DEF Release!Closing, Release!Document
<1> QED BY <1>2, <1>3, ReleaseStopInvariant DEF Release!IntegrityStop

LEMMA ReleaseFreshIsDocument ==
  ASSUME NEW c \in Release!Calls
  PROVE  /\ Release!Fresh(c) \in Release!Document /\ Release!Fresh(c).status = "ACTIVE"
            /\ Release!Fresh(c).stage = "OFFLINE_DRAFT"
         /\ Release!Fresh(c).tasks = Release!NoTasks /\ Release!Fresh(c).runtime = "none"
<1>1. Release!NoTask \in Release!TaskRecord
  BY ReleaseAssumption DEF Release!NoTask, Release!TaskRecord, Release!Outcomes
<1>2. Release!NoTasks \in [Release!Tasks -> Release!TaskRecord]
  BY <1>1 DEF Release!NoTasks
<1> QED BY <1>2 DEF Release!Fresh, Release!Document, Release!ResumableStages

LEMMA NoTasksAgree ==
  /\ Release!NoTasks \in [Release!Tasks -> Release!TaskRecord] /\ TasksAgree(Release!NoTasks)
  /\ \A t \in Release!Tasks : Release!NoTasks[t] = Release!NoTask
     /\ Release!NoTask.attempt = 0 /\ Release!NoTask.proposal = 0
<1>1. Release!NoTask \in Release!TaskRecord
  BY ReleaseAssumption DEF Release!NoTask, Release!TaskRecord, Release!Outcomes
<1> QED BY <1>1 DEF Release!NoTasks, TasksAgree, Release!NoTask

LEMMA StartRunInvariant ==
  ASSUME ReleaseInv, NEW p \in ReleaseProcs, Release!StartRun(p) PROVE ReleaseInv'
<1>1. /\ calls + 1 \in Release!Calls /\ calls + 1 \in 0..ReleaseCalls /\ calls' = calls + 1
      /\ ReleaseCalls \in Nat
  BY ReleaseAssumption DEF Release!StartRun, Release!Begun, ReleaseInv, ReleaseTyped,
     Release!Calls
<1>2. PICK d \in Release!Document : d = Release!Fresh(calls + 1)
  BY <1>1, ReleaseFreshIsDocument
<1>3. d.status = "ACTIVE" /\ d.stage = "OFFLINE_DRAFT" /\ d.tasks = Release!NoTasks
      /\ d.runtime = "none"
  BY <1>1, <1>2, ReleaseFreshIsDocument
<1>4. PICK x \in Commands :
        x = [Release!Idle EXCEPT !.verb = "run", !.call = calls', !.doc = d,
        !.pc = "initialize"]
  BY <1>1, IdleIsCommand DEF Commands, Journals, ReleasePcs, Moving, Early
<1>5. x.verb = "run" /\ x.call = calls + 1 /\ x.doc = d /\ x.pc = "initialize"
  BY <1>1, <1>4, IdleIsCommand DEF Commands
<1>6. /\ proc' = [proc EXCEPT ![p] = x] /\ journal' = d
      /\ UNCHANGED <<receipt, effects, asked>>
  BY <1>2, <1>4 DEF Release!StartRun, Release!Begun
<1>7. effects = "none"
  BY DEF Release!StartRun, ReleaseInv, JournalIsHonest
<1>8. (Honest(d))' /\ (AttemptsWithin(d, calls))' /\ AttemptsWithin(d, calls)
  BY <1>1, <1>3, NoTasksAgree DEF Honest, Owned, AttemptsWithin, Release!Draft, ReleaseInv,
     ReleaseTyped
<1>9. JournalIsHonest'
  BY <1>3, <1>6, <1>7, <1>8, NoJournalIsNoDocument DEF JournalIsHonest, Honest, Owned, AttemptsWithin
<1>10. (JournalFits(x.pc, x.doc))'
  BY <1>3, <1>5, <1>6, NoJournalIsNoDocument DEF JournalFits, Release!IntegrityTerminal,
     Release!Draft
<1>11. (Fits(x.pc, x.verb, x.call, x.doc, x.task, x.previous))'
  <2>1. (Counted(x.pc, x.call, d, x.previous))'
    BY <1>1, <1>3, <1>5, NoTasksAgree DEF Counted, AttemptsWithin, TaskPcs, Release!Calls,
       ReleaseInv, ReleaseTyped
  <2>2. (StageFits(x.pc, x.verb, x.doc, x.task))'
    BY <1>5, <1>6, <1>8 DEF StageFits, TaskPcs, Honest, Owned
  <2> QED BY <1>3, <1>5, <1>6, <1>7, <2>1, <2>2
          DEF Fits, StatusFits, ReleaseEffectsFit, Owned, Release!Terminal,
              Release!IntegrityTerminal, TaskPcs
<1> QED BY <1>1, <1>6, <1>9, <1>10, <1>11, AdvanceInvariant DEF ReleaseInv, ReleaseTyped

LEMMA StartResumeInvariant ==
  ASSUME ReleaseInv, NEW p \in ReleaseProcs, Release!StartResume(p) PROVE ReleaseInv'
<1>1. /\ calls + 1 \in Release!Calls /\ calls + 1 \in 0..ReleaseCalls /\ calls' = calls + 1
      /\ ReleaseCalls \in Nat /\ calls \in Nat
  BY ReleaseAssumption DEF Release!StartResume, Release!Begun, ReleaseInv, ReleaseTyped,
     Release!Calls
<1>2. PICK d \in Release!Document : d = journal
  BY DEF Release!StartResume, ReleaseInv, ReleaseTyped, Journals
<1>3. /\ d.status \notin Release!Terminal
      /\ d.stage \in Release!ResumableStages \cup {"ISOLATED_RUNTIME"}
  BY <1>2 DEF Release!StartResume, Release!CrashRecovery, Release!Resumable, Release!Terminal,
     Release!IntegrityTerminal
<1>4. PICK x \in Commands :
        x = [Release!Idle EXCEPT !.verb = "resume", !.call = calls', !.doc = d,
        !.pc = "initialize"]
  BY <1>1, IdleIsCommand DEF Commands, Journals, ReleasePcs, Moving, Early
<1>5. x.verb = "resume" /\ x.call = calls + 1 /\ x.doc = d /\ x.pc = "initialize"
  BY <1>1, <1>4, IdleIsCommand DEF Commands
<1>6. /\ proc' = [proc EXCEPT ![p] = x]
      /\ UNCHANGED <<journal, receipt, effects, asked>>
  BY <1>2, <1>4 DEF Release!StartResume, Release!Begun
<1>7. Honest(d) /\ AttemptsWithin(d, calls)
      /\ \A t \in Release!Tasks : d.tasks[t].attempt \in Nat
  BY <1>2, ReleaseAssumption DEF ReleaseInv, JournalIsHonest, Release!StartResume,
     Release!Document, Release!TaskRecord
<1>8. JournalIsHonest' /\ journal' \in Release!Document
  BY <1>1, <1>2, <1>6, <1>7 DEF JournalIsHonest, Honest, Owned, AttemptsWithin, ReleaseInv
<1>9. (JournalFits(x.pc, x.doc))'
  BY <1>2, <1>3, <1>5, <1>6 DEF JournalFits, Release!Terminal, Release!Draft,
     Release!StartResume
<1>10. (Fits(x.pc, x.verb, x.call, x.doc, x.task, x.previous))'
  <2>1. (Counted(x.pc, x.call, d, x.previous))'
    BY <1>1, <1>5, <1>7 DEF Counted, AttemptsWithin, TaskPcs, Release!Calls
  <2>2. (StageFits(x.pc, x.verb, x.doc, x.task))'
    BY <1>3, <1>5, <1>6, <1>7 DEF StageFits, TaskPcs, Honest, Owned
  <2> QED BY <1>3, <1>5, <2>1, <2>2 DEF Fits, StatusFits, ReleaseEffectsFit, Owned, TaskPcs
<1> QED BY <1>1, <1>6, <1>8, <1>9, <1>10, AdvanceInvariant DEF ReleaseInv, ReleaseTyped

LEMMA InitializeInvariant ==
  ASSUME ReleaseInv, NEW p \in ReleaseProcs, Release!Initialize(p) PROVE ReleaseInv'
<1>1. ~ Release!At(p, "idle") /\ proc[p].pc = "initialize"
  BY DEF Release!Initialize, Release!At
<1>2. proc[p] \in Commands /\ Release!Doc(p) \in Release!Document
      /\ journal \in Release!Document
  BY <1>1, AtWork
<1>3. PICK d \in Release!Document : d = [Release!Doc(p) EXCEPT !.stage =
                       IF Release!AfterInitialize(p) = "runtime" THEN "ISOLATED_RUNTIME" ELSE @]
  BY <1>2 DEF Release!Document
<1>4. /\ d.status = Release!Doc(p).status /\ d.tasks = Release!Doc(p).tasks
         /\ d.runtime = Release!Doc(p).runtime
      /\ d.package = Release!Doc(p).package /\ d.passed = Release!Doc(p).passed
      /\ Release!AfterInitialize(p) = "runtime" => d.stage = "ISOLATED_RUNTIME"
      /\ Release!AfterInitialize(p) # "runtime" => d.stage = Release!Doc(p).stage
  BY <1>2, <1>3 DEF Release!Document
<1>5. Release!AfterInitialize(p) \in {"revalidate", "runtime", "draft"}
  BY DEF Release!AfterInitialize
<1>6. PICK ready \in BOOLEAN :
        /\ proc' = [proc EXCEPT ![p].available = ready, ![p].doc = d,
                                ![p].pc = Release!AfterInitialize(p)]
        /\ journal' = IF Release!Run(p) THEN d ELSE journal
        /\ UNCHANGED <<receipt, effects, asked, calls, faults>>
  BY <1>3 DEF Release!Initialize, Release!Initialized, Release!Accepted
<1>7. PICK x \in Commands :
        x = [proc[p] EXCEPT !.available = ready, !.doc = d, !.pc = Release!AfterInitialize(p)]
  BY <1>2, <1>5 DEF Commands, Journals, ReleasePcs, Moving, Early
<1>8. /\ x.pc = Release!AfterInitialize(p) /\ x.doc = d /\ x.verb = proc[p].verb
      /\ x.call = proc[p].call /\ x.task = Release!Task(p) /\ x.previous = proc[p].previous
  BY <1>2, <1>7 DEF Release!Task, Commands
<1>9. proc' = [proc EXCEPT ![p] = x]
  BY <1>6, <1>7 DEF ReleaseInv, ReleaseTyped
<1>10. /\ Fits("initialize", proc[p].verb, proc[p].call, Release!Doc(p), Release!Task(p),
          proc[p].previous)
       /\ JournalFits("initialize", Release!Doc(p)) /\ JournalIsHonest
  BY <1>1, AtWork
<1>11. Honest(d) /\ d.status \notin Release!Terminal /\ AttemptsWithin(d, proc[p].call - 1)
       /\ AttemptsWithin(d, proc[p].call)
  BY <1>4, <1>10 DEF Fits, Counted, StatusFits, StageFits, Honest, Owned, Early, Moving,
     AttemptsWithin, Release!Draft
<1>12. AttemptsWithin(d, calls)
  <2>1. \A t \in Release!Tasks : d.tasks[t].attempt \in Nat
    BY ReleaseAssumption DEF Release!Document, Release!TaskRecord
  <2>2. calls \in Nat /\ proc[p].call \in Nat /\ proc[p].call <= calls
    BY <1>1, AtWork DEF Release!Calls, ReleaseInv, ReleaseTyped
  <2> QED BY <1>11, <2>1, <2>2 DEF AttemptsWithin
<1>13. JournalIsHonest' /\ journal' \in Release!Document
  BY <1>2, <1>6, <1>10, <1>11, <1>12, NoJournalIsNoDocument
     DEF JournalIsHonest, Honest, Owned, AttemptsWithin, Release!Terminal, Release!Draft, ReleaseInv
<1>14. (JournalFits(x.pc, x.doc))'
  BY <1>5, <1>6, <1>8, <1>10, <1>11, NoJournalIsNoDocument
     DEF JournalFits, Moving, Early, Release!Terminal, Release!Draft
<1>15. (Fits(x.pc, x.verb, x.call, d, x.task, x.previous))'
  <2>1. (Counted(x.pc, x.call, d, x.previous))'
    BY <1>5, <1>6, <1>8, <1>10, <1>11 DEF Fits, Counted, AttemptsWithin, TaskPcs
  <2>2. (StageFits(x.pc, x.verb, d, x.task))'
    BY <1>4, <1>5, <1>6, <1>8, <1>10, <1>11
       DEF Fits, StageFits, TaskPcs, Honest, Owned, Release!AfterInitialize, Release!Run
  <2>3. (ReleaseEffectsFit(x.pc, x.verb, d))'
    BY <1>5, <1>6, <1>8, <1>10 DEF Fits, ReleaseEffectsFit, Owned, TaskPcs, Release!AfterInitialize,
       Release!Run
  <2> QED BY <1>5, <1>8, <1>11, <2>1, <2>2, <2>3 DEF Fits, StatusFits
<1> QED BY <1>6, <1>8, <1>9, <1>13, <1>14, <1>15, AdvanceInvariant DEF ReleaseInv,
    ReleaseTyped

LEMMA RevalidateInvariant ==
  ASSUME ReleaseInv, NEW p \in ReleaseProcs, Release!Revalidate(p) PROVE ReleaseInv'
<1>1. ~ Release!At(p, "idle") /\ proc[p].pc = "revalidate"
  BY DEF Release!Revalidate, Release!At
<1>2. Release!Doc(p) \in Release!Document
  BY <1>1, AtWork
<1>3. PICK d \in Release!Document : d = Release!Doc(p)
  BY <1>2
<1>4. /\ Fits("revalidate", proc[p].verb, proc[p].call, d, Release!Task(p), proc[p].previous)
      /\ JournalFits("revalidate", d) /\ JournalIsHonest
  BY <1>1, <1>3, AtWork
<1>5. CASE Release!Throw(p)
  BY <1>1, <1>5, ReleaseThrowInvariant DEF Release!Working
<1>6. CASE Release!IntegrityStop(p, "DRIFTED") \/ Release!IntegrityStop(p, "FAILED_INTEGRITY")
  BY <1>1, <1>6, IntegrityStopInvariant DEF Release!IntegrityTerminal
<1>7. ASSUME NEW at \in {"runtime", "staged", "begin", "validate"}, Release!Keep(p, d, at),
             at = "runtime" => Isolated,
             at \in {"begin", "validate"} /\ Isolated => d.runtime # "none",
             ~ Release!Blocked(d),
             at = "begin" => d.stage = "PROVIDER_TASKS",
             at = "validate" => d.stage = "PACKAGE_VALIDATION"
      PROVE  ReleaseInv'
  <2>1. at \in {"begin", "validate"} => Owned(d)
    BY <1>4, <1>7, ReleaseAssumption DEF Owned, Release!Blocked, Release!Document, Fits, StageFits, Honest, JournalIsHonest
  <2>2. Fits(at, proc[p].verb, proc[p].call, d, Release!Task(p), proc[p].previous)
    BY <1>4, <1>7, <2>1 DEF Fits, Counted, StatusFits, StageFits, ReleaseEffectsFit, Owned, Moving,
       Early,
       TaskPcs
  <2>3. JournalFits(at, d)
    BY <1>4 DEF JournalFits, Moving, Early
  <2> QED BY <1>1, <1>7, <2>2, <2>3, KeepInvariant DEF ReleasePcs, Moving, Early
<1>8. d.stage \in Release!ResumableStages \cup {"ISOLATED_RUNTIME"}
  BY <1>4 DEF Fits, StageFits, ReleaseEffectsFit, Owned
<1>9. ASSUME ~ Release!Blocked(d), Release!Continue(p) PROVE ReleaseInv'
  BY <1>3, <1>5, <1>7, <1>8, <1>9 DEF Release!Continue, Release!ResumableStages
<1> QED BY <1>3, <1>5, <1>6, <1>9 DEF Release!Revalidate

\* Writes of the runtime's part go through the same document.
LEMMA NoRuntimeInvariant ==
  ASSUME ReleaseInv, NEW p \in ReleaseProcs, Release!NoRuntime(p) PROVE ReleaseInv'
<1>1. ~ Release!At(p, "idle") /\ proc[p].pc = "runtime"
  BY DEF Release!NoRuntime, Release!At
<1>2. PICK d \in Release!Document : d = Release!Doc(p)
  BY <1>1, AtWork
<1>3. Fits("runtime", proc[p].verb, proc[p].call, d, Release!Task(p), proc[p].previous)
  BY <1>1, <1>2, AtWork
<1>4. Fits("staged", proc[p].verb, proc[p].call, d, Release!Task(p), proc[p].previous)
  BY <1>3 DEF Fits, Counted, StatusFits, StageFits, ReleaseEffectsFit, Owned, Moving, Early, TaskPcs
<1>5. d.status # Release!Draft
  BY <1>3 DEF Fits, StatusFits, Moving, Early, Release!Terminal, Release!Draft
<1> QED BY <1>1, <1>2, <1>4, <1>5, ReleaseWriteInvariant DEF Release!NoRuntime, ReleasePcs,
    Moving, Early

LEMMA RuntimeEffectsInvariant ==
  ASSUME ReleaseInv, NEW p \in ReleaseProcs, Release!RuntimeEffects(p) PROVE ReleaseInv'
<1>1. ~ Release!At(p, "idle") /\ proc[p].pc \in {"runtime", "running"}
  BY DEF Release!RuntimeEffects, Release!At
<1>2. PICK d \in Release!Document : d = Release!Doc(p)
  BY <1>1, AtWork
<1>3. /\ Fits(proc[p].pc, proc[p].verb, proc[p].call, d, Release!Task(p), proc[p].previous)
      /\ JournalFits(proc[p].pc, d) /\ JournalIsHonest /\ proc[p] \in Commands
      /\ journal \in Release!Document
  BY <1>1, <1>2, AtWork
<1>4. PICK x \in Commands : x = [proc[p] EXCEPT !.pc = "running"]
  BY <1>3 DEF Commands, ReleasePcs, Moving, Early
<1>5. /\ x.pc = "running" /\ x.doc = d /\ x.verb = proc[p].verb
      /\ x.call = proc[p].call /\ x.task = Release!Task(p) /\ x.previous = proc[p].previous
  BY <1>2, <1>3, <1>4 DEF Release!Task, Release!Doc, Commands
<1>6. proc' = [proc EXCEPT ![p] = x] /\ UNCHANGED <<journal, receipt, asked, calls>>
      /\ effects' \in {"open", "closed"} /\ effects # "closed"
  BY <1>4 DEF Release!RuntimeEffects
<1>7. JournalIsHonest'
  BY <1>1, <1>3, <1>6 DEF JournalIsHonest, Honest, Owned, JournalFits, Fits, ReleaseEffectsFit,
     Moving, Early
<1>8. (JournalFits(x.pc, x.doc))'
  BY <1>1, <1>3, <1>5, <1>6 DEF JournalFits, Moving, Early
<1>9. (Fits(x.pc, x.verb, x.call, d, x.task, x.previous))'
  BY <1>1, <1>3, <1>5, <1>6 DEF Fits, Counted, StatusFits, StageFits, Honest, Owned,
     ReleaseEffectsFit, Moving,
     Early, TaskPcs, Release!Terminal, Release!Draft
<1> QED BY <1>3, <1>5, <1>6, <1>7, <1>8, <1>9, AdvanceInvariant DEF ReleaseInv, ReleaseTyped

LEMMA RuntimeResultInvariant ==
  ASSUME ReleaseInv, NEW p \in ReleaseProcs, Release!RuntimeResult(p) PROVE ReleaseInv'
<1>1. ~ Release!At(p, "idle") /\ proc[p].pc \in {"runtime", "running"}
  BY DEF Release!RuntimeResult, Release!At
<1>2. Release!Doc(p) \in Release!Document
  BY <1>1, AtWork
<1>3. CASE Release!Throw(p)
  BY <1>1, <1>3, ReleaseThrowInvariant DEF Release!Working
<1>4. ASSUME NEW result \in {"SUCCEEDED", "BLOCKED"},
             result = "SUCCEEDED" => effects = "closed",
             Release!Write(p, [Release!Doc(p) EXCEPT !.runtime = result], "staged")
      PROVE  ReleaseInv'
  <2>1. PICK d \in Release!Document : d = [Release!Doc(p) EXCEPT !.runtime = result]
    BY <1>2 DEF Release!Document
  <2>2. /\ d.status = Release!Doc(p).status /\ d.tasks = Release!Doc(p).tasks
        /\ d.stage = Release!Doc(p).stage /\ d.runtime = result
        /\ d.package = Release!Doc(p).package /\ d.passed = Release!Doc(p).passed
    BY <1>2, <2>1 DEF Release!Document
  <2>3. Fits(proc[p].pc, proc[p].verb, proc[p].call, Release!Doc(p), Release!Task(p),
        proc[p].previous)
    BY <1>1, AtWork
  <2>4. Owned(d)
    BY <1>4, <2>2 DEF Owned
  <2>5. Fits("staged", proc[p].verb, proc[p].call, d, Release!Task(p), proc[p].previous)
    BY <1>1, <1>4, <2>2, <2>3, <2>4
       DEF Fits, Counted, AttemptsWithin, StatusFits, StageFits, Honest, Owned, ReleaseEffectsFit,
           Moving, Early, TaskPcs
  <2> QED BY <1>1, <1>4, <2>1, <2>5, ReleaseWriteInvariant DEF ReleasePcs, Moving, Early
<1> QED BY <1>3, <1>4 DEF Release!RuntimeResult

LEMMA RuntimeDoneInvariant ==
  ASSUME ReleaseInv, NEW p \in ReleaseProcs, Release!RuntimeDone(p) PROVE ReleaseInv'
<1>1. ~ Release!At(p, "idle") /\ proc[p].pc = "staged"
  BY DEF Release!RuntimeDone, Release!At
<1>2. Release!Doc(p) \in Release!Document
  BY <1>1, AtWork
<1>3. PICK d \in Release!Document : d = [Release!Doc(p) EXCEPT !.stage = "OFFLINE_DRAFT"]
  BY <1>2 DEF Release!Document, Release!ResumableStages
<1>4. /\ d.status = Release!Doc(p).status /\ d.tasks = Release!Doc(p).tasks
         /\ d.stage = "OFFLINE_DRAFT"
      /\ d.runtime = Release!Doc(p).runtime
  BY <1>2, <1>3 DEF Release!Document
<1>5. Fits("staged", proc[p].verb, proc[p].call, Release!Doc(p), Release!Task(p),
      proc[p].previous)
  BY <1>1, AtWork
<1>6. PICK at \in {"draft", "finalize"} : at = IF Release!Run(p) THEN "draft" ELSE "finalize"
  OBVIOUS
<1>7. Fits(at, proc[p].verb, proc[p].call, d, Release!Task(p), proc[p].previous)
  BY <1>4, <1>5, <1>6 DEF Fits, Counted, AttemptsWithin, StatusFits, StageFits, Honest, Owned,
     ReleaseEffectsFit,
     Moving, Early, TaskPcs, Release!Draft, Release!Run
<1>8. d.status # Release!Draft
  BY <1>4, <1>5 DEF Fits, StatusFits, Moving, Early, Release!Terminal, Release!Draft
<1> QED BY <1>1, <1>3, <1>6, <1>7, <1>8, ReleaseWriteInvariant DEF Release!RuntimeDone,
    ReleasePcs, Moving, Early

LEMMA OfflineDraftInvariant ==
  ASSUME ReleaseInv, NEW p \in ReleaseProcs, Release!OfflineDraft(p) PROVE ReleaseInv'
<1>1. ~ Release!At(p, "idle") /\ proc[p].pc = "draft"
  BY DEF Release!OfflineDraft, Release!At
<1>2. Release!Doc(p) \in Release!Document
  BY <1>1, AtWork
<1>3. Fits("draft", proc[p].verb, proc[p].call, Release!Doc(p), Release!Task(p),
      proc[p].previous)
  BY <1>1, AtWork
<1>4. CASE Release!Throw(p)
  BY <1>1, <1>4, ReleaseThrowInvariant DEF Release!Working
<1>5. CASE Release!IntegrityStop(p, "FAILED_INTEGRITY")
  BY <1>1, <1>5, IntegrityStopInvariant DEF Release!IntegrityTerminal
<1>6. CASE Release!Write(p, [Release!Doc(p) EXCEPT !.status = "FAILED_INTEGRITY",
                                   !.stage = "FAILED_INTEGRITY"], "finalize")
  <2>1. PICK d \in Release!Document : d = [Release!Doc(p) EXCEPT !.status = "FAILED_INTEGRITY",
                                                 !.stage = "FAILED_INTEGRITY"]
    BY <1>2 DEF Release!Document, Release!Terminal, Release!IntegrityTerminal
  <2>2. /\ d.status = "FAILED_INTEGRITY" /\ d.stage = "FAILED_INTEGRITY"
        /\ d.tasks = Release!Doc(p).tasks /\ d.runtime = Release!Doc(p).runtime
    BY <1>2, <2>1 DEF Release!Document
  <2> QED BY <1>1, <1>6, <2>1, <2>2, ReleaseStopInvariant DEF Release!IntegrityTerminal
<1>7. CASE Release!Write(p, [Release!Doc(p) EXCEPT !.package = "bound",
      !.stage = "PROVIDER_TASKS"], "begin")
  <2>1. PICK d \in Release!Document : d = [Release!Doc(p) EXCEPT !.package = "bound",
                                                 !.stage = "PROVIDER_TASKS"]
    BY <1>2 DEF Release!Document, Release!ResumableStages
  <2>2. /\ d.package = "bound"
        /\ d.stage = "PROVIDER_TASKS"
        /\ d.status = Release!Doc(p).status
        /\ d.tasks = Release!Doc(p).tasks /\ d.runtime = Release!Doc(p).runtime
    BY <1>2, <2>1 DEF Release!Document
  <2>3. Fits("begin", proc[p].verb, proc[p].call, d, Release!Task(p), proc[p].previous)
    BY <1>3, <2>2 DEF Fits, Counted, AttemptsWithin, StatusFits, StageFits, Honest, Owned,
       ReleaseEffectsFit,
       Moving, Early, TaskPcs, Release!Draft
  <2>4. d.status # Release!Draft
    BY <1>3, <2>2 DEF Fits, StatusFits, Moving, Early, Release!Terminal, Release!Draft
  <2> QED BY <1>1, <1>7, <2>1, <2>3, <2>4, ReleaseWriteInvariant DEF ReleasePcs, Moving, Early
<1> QED BY <1>4, <1>5, <1>6, <1>7 DEF Release!OfflineDraft

\* The roles, as far as the tasks need them.
LEMMA RolesFacts ==
  /\ \E n \in Nat : Release!Tasks = 1..n
  /\ \A t \in Release!Tasks : Release!Author(t) \in Nat
  /\ \A t \in Release!Tasks : Release!Author(t) # 0 =>
        Release!Author(t) \in Release!Tasks /\ Release!Author(t) < t
        /\ Release!Author(Release!Author(t)) = 0
  BY ReleaseAssumption DEF RolesAreOrdered, Release!Tasks, Release!Author

\* The record of the task at hand changes; the ones before it do not speak of it.
LEMMA TaskUpdate ==
  ASSUME NEW tasks \in [Release!Tasks -> Release!TaskRecord], TasksAgree(tasks),
         NEW k \in Release!Tasks,
         NEW at \in TaskPcs, TasksSoFar(at, tasks, k),
         NEW r \in Release!TaskRecord, r # Release!NoTask,
         r.outcome = "succeeded" <=> r.proposal # 0,
         r.state = "ADMITTED" => r.outcome # "succeeded",
         r.proposal # 0
         /\ Release!Author(k) # 0 => r.expects = tasks[Release!Author(k)].proposal,
         NEW new, new = [tasks EXCEPT ![k] = r]
  PROVE  /\ new \in [Release!Tasks -> Release!TaskRecord] /\ TasksAgree(new)
         /\ TasksSoFar("task", new, k + 1)
         /\ r.state = "ADMITTED" /\ r.proposal = 0
               /\ (Release!Author(k) # 0 => r.expects = tasks[Release!Author(k)].proposal)
            => TasksSoFar("ask", new, k)
<1>1. new \in [Release!Tasks -> Release!TaskRecord] /\ new[k] = r
      /\ \A t \in Release!Tasks \ {k} : new[t] = tasks[t]
  OBVIOUS
<1>2. /\ k \in Nat /\ \A t \in Release!Tasks : t \in Nat
      /\ Release!NoTask.proposal = 0
  BY RolesFacts DEF Release!NoTask
<1>3. \A t \in Release!Tasks : t # k /\ new[t].proposal # 0 => t < k
  BY <1>1, <1>2 DEF TasksSoFar
<1>4. \A t \in Release!Tasks : t <= k /\ Release!Author(t) # 0 =>
        Release!Author(t) \in Release!Tasks /\ Release!Author(t) # k
        /\ new[Release!Author(t)] = tasks[Release!Author(t)]
  BY <1>1, <1>2, RolesFacts
<1>5. TasksAgree(new)
  <2> SUFFICES ASSUME NEW t \in Release!Tasks
               PROVE  /\ new[t].outcome = "succeeded" <=> new[t].proposal # 0
                      /\ new[t].state = "ADMITTED" => new[t].outcome # "succeeded"
                      /\ new[t].proposal # 0 /\ Release!Author(t) # 0 =>
                            new[t].expects = new[Release!Author(t)].proposal
    BY DEF TasksAgree
  <2>1. CASE t = k
    BY <1>1, <1>2, <1>4, <2>1
  <2>2. CASE t # k
    BY <1>1, <1>2, <1>3, <1>4, <2>2 DEF TasksAgree
  <2> QED BY <2>1, <2>2
<1>6. /\ \A t \in Release!Tasks : t > k => new[t] = Release!NoTask
      /\ \A t \in Release!Tasks : t <= k /\ new[t] = Release!NoTask => Release!Author(t) # 0
         /\ new[Release!Author(t)].proposal = 0
  BY <1>1, <1>2, <1>4 DEF TasksSoFar
<1>7. TasksSoFar("task", new, k + 1)
  BY <1>2, <1>6 DEF TasksSoFar
<1>8. ASSUME r.state = "ADMITTED", r.proposal = 0,
             Release!Author(k) # 0 => r.expects = tasks[Release!Author(k)].proposal
      PROVE  TasksSoFar("ask", new, k)
  BY <1>1, <1>2, <1>4, <1>6, <1>8 DEF TasksSoFar
<1> QED BY <1>1, <1>5, <1>7, <1>8

LEMMA BeginTasksInvariant ==
  ASSUME ReleaseInv, NEW p \in ReleaseProcs, Release!BeginTasks(p) PROVE ReleaseInv'
<1>1. ~ Release!At(p, "idle") /\ proc[p].pc = "begin"
  BY DEF Release!BeginTasks, Release!At
<1>2. Release!Doc(p) \in Release!Document /\ proc[p] \in Commands
      /\ journal \in Release!Document
  BY <1>1, AtWork
<1>3. PICK d \in Release!Document : d = [Release!Doc(p) EXCEPT !.tasks = Release!NoTasks]
  BY <1>2, NoTasksAgree DEF Release!Document
<1>4. /\ d.status = Release!Doc(p).status /\ d.tasks = Release!NoTasks
         /\ d.runtime = Release!Doc(p).runtime
      /\ d.package = Release!Doc(p).package /\ d.passed = Release!Doc(p).passed
         /\ d.stage = Release!Doc(p).stage
  BY <1>2, <1>3 DEF Release!Document
<1>5. PICK previous \in [Release!Tasks -> 0..ReleaseCalls] :
        previous = [t \in Release!Tasks |-> Release!Doc(p).tasks[t].attempt]
  BY <1>2 DEF Release!Document, Release!TaskRecord
<1>6. PICK x \in Commands :
        x = [proc[p] EXCEPT !.previous = previous, !.doc = d, !.task = 1, !.pc = "task"]
  <2>1. "task" \in ReleasePcs /\ d \in Journals /\ 1 \in Nat \ {0}
    BY DEF Journals, ReleasePcs, Moving, TaskPcs
  <2> QED BY <1>2, <2>1 DEF Commands
<1>7. /\ x.pc = "task" /\ x.doc = d /\ x.verb = proc[p].verb
      /\ x.call = proc[p].call /\ x.task = 1 /\ x.previous = previous
  BY <1>2, <1>6 DEF Commands
<1>8. /\ proc' = [proc EXCEPT ![p] = x]
      /\ UNCHANGED <<journal, receipt, effects, asked, calls>>
  BY <1>2, <1>3, <1>5, <1>6 DEF Release!BeginTasks, Release!Doc, ReleaseInv, ReleaseTyped,
     Commands
<1>9. /\ Fits("begin", proc[p].verb, proc[p].call, Release!Doc(p), Release!Task(p),
         proc[p].previous)
      /\ JournalFits("begin", Release!Doc(p)) /\ JournalIsHonest /\ proc[p].call \in Nat
  BY <1>1, AtWork DEF Release!Calls
<1>10. JournalIsHonest'
  BY <1>8, <1>9 DEF JournalIsHonest, Honest, Owned
<1>11. (JournalFits(x.pc, x.doc))'
  BY <1>7, <1>8, <1>9 DEF JournalFits, Moving, Early
<1>12. (Fits(x.pc, x.verb, x.call, d, x.task, x.previous))'
  <2>1. (Counted("task", x.call, d, previous))'
    BY <1>4, <1>5, <1>7, <1>8, <1>9, NoTasksAgree
       DEF Fits, Counted, AttemptsWithin, Early, TaskPcs
  <2>2. TasksSoFar("task", Release!NoTasks, 1)
    BY NoTasksAgree, RolesFacts DEF TasksSoFar
  <2>3. (StageFits("task", x.verb, d, 1))'
    BY <1>4, <1>7, <1>8, <1>9, <2>2, NoTasksAgree
       DEF Fits, StageFits, Honest, Owned, TaskPcs, Release!Draft
  <2> QED BY <1>4, <1>7, <1>8, <1>9, <2>1, <2>3
          DEF Fits, StatusFits, ReleaseEffectsFit, Owned, Moving, Early, TaskPcs
<1> QED BY <1>2, <1>7, <1>8, <1>10, <1>11, <1>12, AdvanceInvariant DEF ReleaseInv,
    ReleaseTyped

\* The next task, after a record for this one or without any.
LEMMA ReleaseNextTaskInvariant ==
  ASSUME ReleaseInv, NEW p \in ReleaseProcs, proc[p].pc \in TaskPcs,
         NEW d \in Release!Document,
         d.status = Release!Doc(p).status, d.stage = Release!Doc(p).stage,
         d.package = Release!Doc(p).package,
         d.passed = Release!Doc(p).passed, d.runtime = Release!Doc(p).runtime,
         TasksAgree(d.tasks), TasksSoFar("task", d.tasks, Release!Task(p) + 1),
         AttemptsWithin(d, proc[p].call),
         proc' = [proc EXCEPT ![p].doc = d, ![p].pc = "task", ![p].task = @ + 1],
         journal' = d \/ UNCHANGED journal,
         UNCHANGED <<receipt, effects, asked, calls>>
  PROVE  ReleaseInv'
<1>1. ~ Release!At(p, "idle")
  BY DEF TaskPcs, Release!At
<1>2. /\ proc[p] \in Commands /\ journal \in Release!Document
      /\ Fits(proc[p].pc, proc[p].verb, proc[p].call, Release!Doc(p), Release!Task(p),
         proc[p].previous)
      /\ JournalFits(proc[p].pc, Release!Doc(p)) /\ JournalIsHonest
      /\ proc[p].call \in Nat /\ proc[p].call <= calls /\ calls \in Nat
  BY <1>1, AtWork DEF Release!Calls, ReleaseInv, ReleaseTyped
<1>3. PICK x \in Commands :
        x = [proc[p] EXCEPT !.doc = d, !.pc = "task", !.task = Release!Task(p) + 1]
  <2>1. "task" \in ReleasePcs /\ d \in Journals
    BY DEF Journals, ReleasePcs, Moving, TaskPcs
  <2>2. Release!Task(p) + 1 \in Nat \ {0}
    BY <1>2 DEF Release!Task, Commands
  <2> QED BY <1>2, <2>1, <2>2 DEF Commands
<1>4. /\ x.pc = "task" /\ x.doc = d /\ x.verb = proc[p].verb
      /\ x.call = proc[p].call
      /\ x.task = Release!Task(p) + 1
      /\ x.previous = proc[p].previous
  BY <1>2, <1>3 DEF Commands
<1>5. proc' = [proc EXCEPT ![p] = x]
  BY <1>3 DEF ReleaseInv, ReleaseTyped, Release!Task
<1>6. Honest(d) /\ d.status \notin Release!Terminal
  BY <1>2 DEF Fits, StageFits, StatusFits, Honest, Owned, Moving, Release!Draft
<1>7. AttemptsWithin(d, calls)
  <2>1. \A t \in Release!Tasks : d.tasks[t].attempt \in Nat
    BY ReleaseAssumption DEF Release!Document, Release!TaskRecord
  <2> QED BY <1>2, <2>1 DEF AttemptsWithin
<1>8. JournalIsHonest' /\ journal' \in Release!Document
  BY <1>2, <1>6, <1>7, NoJournalIsNoDocument
     DEF JournalIsHonest, Honest, Owned, AttemptsWithin, Release!Terminal, Release!Draft
<1>9. (JournalFits(x.pc, x.doc))'
  BY <1>2, <1>4, <1>6, NoJournalIsNoDocument
     DEF JournalFits, Moving, TaskPcs, Release!Terminal, Release!Draft
<1>10. (Fits(x.pc, x.verb, x.call, d, x.task, x.previous))'
  <2>1. (Counted("task", x.call, d, x.previous))'
    BY <1>2, <1>4 DEF Fits, Counted, AttemptsWithin, Early, TaskPcs
  <2>2. (StageFits("task", x.verb, d, x.task))'
    BY <1>2, <1>4, <1>6 DEF Fits, StageFits, Honest, Owned, TaskPcs
  <2> QED BY <1>2, <1>4, <1>6, <2>1, <2>2
          DEF Fits, StatusFits, ReleaseEffectsFit, Owned, Moving, Early, TaskPcs
<1> QED BY <1>4, <1>5, <1>8, <1>9, <1>10, AdvanceInvariant DEF ReleaseInv, ReleaseTyped

\* What the command knows at one of its tasks.
LEMMA AtTask ==
  ASSUME ReleaseInv, NEW p \in ReleaseProcs, proc[p].pc \in TaskPcs
  PROVE  /\ Release!Doc(p) \in Release!Document
            /\ Release!Doc(p).tasks \in [Release!Tasks -> Release!TaskRecord]
         /\ TasksAgree(Release!Doc(p).tasks)
            /\ TasksSoFar(proc[p].pc, Release!Doc(p).tasks, Release!Task(p))
         /\ proc[p].call \in Release!Calls /\ AttemptsWithin(Release!Doc(p), proc[p].call)
         /\ Release!Task(p) \in Nat \ {0} /\ ~ Release!At(p, "idle")
         /\ Release!Task(p) \in Release!Tasks => Release!Attempt(p) \in Release!Calls
            /\ Release!Attempt(p) <= proc[p].call
<1>1. ~ Release!At(p, "idle")
  BY DEF TaskPcs, Release!At
<1>2. /\ Release!Doc(p) \in Release!Document
      /\ proc[p] \in Commands
      /\ proc[p].call \in Release!Calls
      /\ Fits(proc[p].pc, proc[p].verb, proc[p].call, Release!Doc(p), Release!Task(p),
         proc[p].previous)
  BY <1>1, AtWork
<1>3. Release!Doc(p).tasks \in [Release!Tasks -> Release!TaskRecord]
  BY <1>2 DEF Release!Document
<1>4. /\ TasksAgree(Release!Doc(p).tasks)
         /\ TasksSoFar(proc[p].pc, Release!Doc(p).tasks, Release!Task(p))
      /\ AttemptsWithin(Release!Doc(p), proc[p].call)
      /\ \A t \in Release!Tasks : proc[p].previous[t] <= proc[p].call - 1
  BY <1>2 DEF Fits, StageFits, Honest, Owned, Counted
<1>5. Release!Task(p) \in Nat \ {0}
      /\ proc[p].previous \in [Release!Tasks -> 0..ReleaseCalls] /\ ReleaseCalls \in Nat
  BY <1>2, ReleaseAssumption DEF Commands, Release!Task
<1> QED BY <1>1, <1>2, <1>3, <1>4, <1>5 DEF Release!Attempt, Release!Calls

LEMMA AdmittedRecord ==
  ASSUME ReleaseInv, NEW p \in ReleaseProcs, proc[p].pc \in TaskPcs,
         Release!Task(p) \in Release!Tasks,
         NEW state \in {"ADMITTED", "LIMITED"}, NEW r,
         r = [Release!Admitted(p) EXCEPT !.state = state]
  PROVE  /\ r \in Release!TaskRecord /\ r # Release!NoTask
            /\ r.outcome = "provider-unavailable"
         /\ r.proposal = 0 /\ r.attempt = Release!Attempt(p) /\ r.state = state
         /\ Release!Author(Release!Task(p)) # 0 => r.expects = Release!Doc(p).tasks[Release!Author(Release!Task(p))].proposal
<1>1. /\ Release!Attempt(p) \in 0..ReleaseCalls
      /\ proc[p].call \in 0..ReleaseCalls
      /\ 0 \in 0..ReleaseCalls
      /\ Release!Doc(p).tasks \in [Release!Tasks -> Release!TaskRecord]
  BY AtTask, ReleaseAssumption DEF Release!Calls
<1>2. Release!AuthorProposal(Release!Doc(p), Release!Task(p)) \in 0..ReleaseCalls
  BY <1>1, RolesFacts DEF Release!AuthorProposal, Release!TaskRecord
<1>3. /\ r = [state |-> state, attempt |-> Release!Attempt(p),
         outcome |-> "provider-unavailable",
              proposal |-> 0,
              expects |-> Release!AuthorProposal(Release!Doc(p), Release!Task(p)),
              call |-> proc[p].call]
  BY DEF Release!Admitted, Release!NoTask
<1>4. r \in Release!TaskRecord /\ r # Release!NoTask
  <2>1. \A x \in 0..ReleaseCalls : [state |-> state, attempt |-> Release!Attempt(p),
           outcome |-> "provider-unavailable", proposal |-> 0, expects |-> x,
           call |-> proc[p].call] \in Release!TaskRecord
    BY <1>1 DEF Release!TaskRecord, Release!Outcomes
  <2>2. r.state # Release!NoTask.state
    BY <1>3 DEF Release!NoTask
  <2> QED BY <1>2, <1>3, <2>1, <2>2
<1>5. Release!Author(Release!Task(p)) # 0 => r.expects = Release!Doc(p).tasks[Release!Author(Release!Task(p))].proposal
  BY <1>3 DEF Release!AuthorProposal
<1> QED BY <1>3, <1>4, <1>5

LEMMA PassOverInvariant ==
  ASSUME ReleaseInv, NEW p \in ReleaseProcs, Release!PassOver(p) PROVE ReleaseInv'
<1>1. proc[p].pc = "task" /\ proc[p].pc \in TaskPcs /\ Release!Task(p) \in Release!Tasks
  BY DEF Release!PassOver, Release!At, TaskPcs
<1>2. /\ Release!Doc(p) \in Release!Document
         /\ Release!Doc(p).tasks \in [Release!Tasks -> Release!TaskRecord]
      /\ TasksAgree(Release!Doc(p).tasks)
         /\ TasksSoFar("task", Release!Doc(p).tasks, Release!Task(p))
      /\ proc[p].call \in Release!Calls /\ AttemptsWithin(Release!Doc(p), proc[p].call)
         /\ Release!Task(p) \in Nat \ {0}
      /\ Release!Attempt(p) <= proc[p].call /\ proc[p] \in Commands
  BY <1>1, AtTask, AtWork
<1>3. CASE Release!Skipped(Release!Doc(p), Release!Task(p))
      /\ proc' = [proc EXCEPT ![p].task = @ + 1]
  <2>1. proc' = [proc EXCEPT ![p].doc = Release!Doc(p), ![p].pc = "task", ![p].task = @ + 1]
    BY <1>1, <1>2, <1>3 DEF ReleaseInv, ReleaseTyped, Commands, Release!Doc
  <2>2. TasksSoFar("task", Release!Doc(p).tasks, Release!Task(p) + 1)
    BY <1>1, <1>2, <1>3, RolesFacts DEF TasksSoFar, Release!Skipped, Release!AuthorProposal
  <2> QED BY <1>1, <1>2, <2>1, <2>2, ReleaseNextTaskInvariant DEF Release!PassOver
<1>4. CASE proc' = [proc EXCEPT ![p].task = @ + 1,
                 ![p].doc.tasks[Release!Task(p)] = [Release!Admitted(p) EXCEPT !.state = "LIMITED"]]
  <2>1. PICK r : r = [Release!Admitted(p) EXCEPT !.state = "LIMITED"]
    OBVIOUS
  <2>2. /\ r \in Release!TaskRecord
        /\ r # Release!NoTask
        /\ r.outcome = "provider-unavailable"
        /\ r.proposal = 0 /\ r.attempt = Release!Attempt(p) /\ r.state = "LIMITED"
    BY <1>1, <2>1, AdmittedRecord
  <2>3. PICK new : new = [Release!Doc(p).tasks EXCEPT ![Release!Task(p)] = r]
    OBVIOUS
  <2>4. /\ new \in [Release!Tasks -> Release!TaskRecord] /\ TasksAgree(new)
        /\ TasksSoFar("task", new, Release!Task(p) + 1)
    BY <1>1, <1>2, <2>2, <2>3, TaskUpdate
  <2>5. PICK d \in Release!Document : d = [Release!Doc(p) EXCEPT !.tasks = new]
    BY <1>2, <2>4 DEF Release!Document
  <2>6. /\ d.status = Release!Doc(p).status /\ d.stage = Release!Doc(p).stage
           /\ d.package = Release!Doc(p).package
        /\ d.passed = Release!Doc(p).passed /\ d.runtime = Release!Doc(p).runtime
           /\ d.tasks = new
    BY <1>2, <2>5 DEF Release!Document
  <2>7. AttemptsWithin(d, proc[p].call)
    BY <1>2, <2>2, <2>3, <2>6 DEF AttemptsWithin
  <2>8. proc' = [proc EXCEPT ![p].doc = d, ![p].pc = "task", ![p].task = @ + 1]
    <3>1. d = [proc[p].doc EXCEPT !.tasks[Release!Task(p)] = r]
      BY <2>3, <2>5 DEF Release!Doc
    <3>2. proc' = [proc EXCEPT ![p].task = @ + 1, ![p].doc = d]
      BY <1>4, <2>1, <3>1
    <3> QED BY <1>1, <1>2, <3>2 DEF ReleaseInv, ReleaseTyped, Commands
  <2> QED BY <1>1, <2>4, <2>6, <2>7, <2>8, ReleaseNextTaskInvariant DEF Release!PassOver
<1> QED BY <1>3, <1>4 DEF Release!PassOver

LEMMA AdmitTaskInvariant ==
  ASSUME ReleaseInv, NEW p \in ReleaseProcs, Release!AdmitTask(p) PROVE ReleaseInv'
<1>1. proc[p].pc = "task" /\ proc[p].pc \in TaskPcs /\ Release!Task(p) \in Release!Tasks
  BY DEF Release!AdmitTask, Release!At, TaskPcs
<1>2. /\ Release!Doc(p) \in Release!Document
         /\ Release!Doc(p).tasks \in [Release!Tasks -> Release!TaskRecord]
      /\ TasksAgree(Release!Doc(p).tasks)
         /\ TasksSoFar("task", Release!Doc(p).tasks, Release!Task(p))
      /\ proc[p].call \in Release!Calls /\ AttemptsWithin(Release!Doc(p), proc[p].call)
         /\ Release!Task(p) \in Nat \ {0}
      /\ Release!Attempt(p) <= proc[p].call /\ Release!Attempt(p) \in Release!Calls
         /\ ~ Release!At(p, "idle")
      /\ Fits("task", proc[p].verb, proc[p].call, Release!Doc(p), Release!Task(p),
         proc[p].previous)
  BY <1>1, AtTask, AtWork
<1>3. PICK r : r = Release!Admitted(p)
  OBVIOUS
<1>4. r = [Release!Admitted(p) EXCEPT !.state = "ADMITTED"]
  BY <1>3 DEF Release!Admitted, Release!NoTask
<1>5. /\ r \in Release!TaskRecord /\ r # Release!NoTask /\ r.outcome = "provider-unavailable"
      /\ r.proposal = 0 /\ r.attempt = Release!Attempt(p) /\ r.state = "ADMITTED"
      /\ Release!Author(Release!Task(p)) # 0 => r.expects = Release!Doc(p).tasks[Release!Author(Release!Task(p))].proposal
  BY <1>1, <1>4, AdmittedRecord
<1>6. PICK new : new = [Release!Doc(p).tasks EXCEPT ![Release!Task(p)] = r]
  OBVIOUS
<1>7. new \in [Release!Tasks -> Release!TaskRecord] /\ TasksAgree(new)
      /\ TasksSoFar("ask", new, Release!Task(p))
  BY <1>1, <1>2, <1>5, <1>6, TaskUpdate
<1>8. PICK jobs :
        jobs = {a \in Release!Doc(p).providerJobs : ~ Release!SameJob(a, Release!Job(p))}
        \cup {Release!Authority(Release!Job(p))}
  OBVIOUS
<1>9. PICK d \in Release!Document : d = [Release!Doc(p) EXCEPT !.tasks = new,
      !.providerJobs = jobs]
  <2>1. Release!Authority(Release!Job(p)) \in [job : [task : Release!Tasks,
        attempt : Release!Calls, nonce : Release!Calls],
                              cancelled : BOOLEAN]
    BY <1>1, <1>2 DEF Release!Authority, Release!Job
  <2>2. jobs \subseteq [job : [task : Release!Tasks, attempt : Release!Calls,
        nonce : Release!Calls],
                       cancelled : BOOLEAN]
    BY <1>2, <1>8, <2>1 DEF Release!Document
  <2> QED BY <1>2, <1>7, <2>2 DEF Release!Document
<1>10. /\ d.status = Release!Doc(p).status /\ d.stage = Release!Doc(p).stage
          /\ d.package = Release!Doc(p).package
       /\ d.passed = Release!Doc(p).passed /\ d.runtime = Release!Doc(p).runtime
          /\ d.tasks = new
  BY <1>2, <1>9 DEF Release!Document
<1>11. Release!Write(p, d, "ask")
  BY <1>2, <1>3, <1>6, <1>8, <1>9 DEF Release!AdmitTask, Release!Document
<1>12. Fits("ask", proc[p].verb, proc[p].call, d, Release!Task(p), proc[p].previous)
  <2>1. AttemptsWithin(d, proc[p].call)
    BY <1>2, <1>5, <1>6, <1>10 DEF AttemptsWithin
  <2> QED BY <1>2, <1>7, <1>10, <2>1 DEF Fits, Counted, StatusFits, StageFits, Honest, Owned,
      ReleaseEffectsFit,
     Moving, Early, TaskPcs, Release!Draft
<1>13. d.status # Release!Draft
  BY <1>2, <1>10 DEF Fits, StatusFits, Moving, TaskPcs, Release!Terminal, Release!Draft
<1> QED BY <1>2, <1>11, <1>12, <1>13, ReleaseWriteInvariant DEF ReleasePcs, Moving, TaskPcs

LEMMA CloseTaskInvariant ==
  ASSUME ReleaseInv, NEW p \in ReleaseProcs, proc[p].pc \in {"ask", "broker"},
         NEW outcome \in {"succeeded", "failed", "contract-invalid"},
         Release!CloseTask(p, outcome)
  PROVE  ReleaseInv'
<1>1. proc[p].pc \in TaskPcs
  BY DEF TaskPcs
<1>2. /\ Release!Doc(p) \in Release!Document
         /\ Release!Doc(p).tasks \in [Release!Tasks -> Release!TaskRecord]
      /\ TasksAgree(Release!Doc(p).tasks)
         /\ TasksSoFar(proc[p].pc, Release!Doc(p).tasks, Release!Task(p))
      /\ proc[p].call \in Release!Calls /\ AttemptsWithin(Release!Doc(p), proc[p].call)
         /\ Release!Task(p) \in Nat \ {0}
  BY <1>1, AtTask
<1>3. /\ Release!Task(p) \in Release!Tasks
      /\ Release!Author(Release!Task(p)) # 0 =>
            Release!Doc(p).tasks[Release!Task(p)].expects = Release!Doc(p).tasks[Release!Author(Release!Task(p))].proposal
  BY <1>2 DEF TasksSoFar
<1>4. PICK proposal \in 0..ReleaseCalls :
        /\ proposal = IF outcome = "succeeded" THEN proc[p].call ELSE 0
        /\ outcome = "succeeded" <=> proposal # 0
  BY <1>2, ReleaseAssumption DEF Release!Calls
<1>5. PICK r \in Release!TaskRecord : r = [Release!Doc(p).tasks[Release!Task(p)] EXCEPT
                !.state = "CLOSED", !.outcome = outcome, !.proposal = proposal]
  BY <1>2, <1>3 DEF Release!TaskRecord, Release!Outcomes
<1>6. /\ r.state = "CLOSED" /\ r.outcome = outcome /\ r.proposal = proposal
      /\ r.expects = Release!Doc(p).tasks[Release!Task(p)].expects
      /\ r.attempt = Release!Doc(p).tasks[Release!Task(p)].attempt
  BY <1>2, <1>3, <1>5 DEF Release!TaskRecord
<1>7. PICK new : new = [Release!Doc(p).tasks EXCEPT ![Release!Task(p)] = r]
  OBVIOUS
<1>8. r # Release!NoTask
  BY <1>6 DEF Release!NoTask
<1>9. new \in [Release!Tasks -> Release!TaskRecord] /\ TasksAgree(new)
      /\ TasksSoFar("task", new, Release!Task(p) + 1)
  BY <1>1, <1>2, <1>3, <1>4, <1>6, <1>7, <1>8, TaskUpdate
<1>10. PICK d \in Release!Document : d = [Release!Doc(p) EXCEPT !.by = proc[p].call,
       !.tasks = new]
  BY <1>2, <1>9 DEF Release!Document
<1>11. /\ d.status = Release!Doc(p).status /\ d.stage = Release!Doc(p).stage
          /\ d.package = Release!Doc(p).package
       /\ d.passed = Release!Doc(p).passed /\ d.runtime = Release!Doc(p).runtime
          /\ d.tasks = new
  BY <1>2, <1>10 DEF Release!Document
<1>12. AttemptsWithin(d, proc[p].call)
  BY <1>2, <1>3, <1>6, <1>7, <1>11 DEF AttemptsWithin
<1>13. d = [Release!Doc(p) EXCEPT !.by = proc[p].call, !.tasks[Release!Task(p)] =
              [@ EXCEPT !.state = "CLOSED", !.outcome = outcome, !.proposal = proposal]]
  BY <1>2, <1>5, <1>7, <1>10 DEF Release!Document
<1>14. /\ journal' = d
       /\ proc' = [proc EXCEPT ![p].doc = d, ![p].pc = "task", ![p].task = @ + 1]
       /\ UNCHANGED <<receipt, effects, asked, calls>>
  BY <1>4, <1>13 DEF Release!CloseTask
<1> QED BY <1>1, <1>9, <1>11, <1>12, <1>14, ReleaseNextTaskInvariant

LEMMA AskBrokerInvariant ==
  ASSUME ReleaseInv, NEW p \in ReleaseProcs, Release!AskBroker(p) PROVE ReleaseInv'
<1>1. proc[p].pc = "ask" /\ proc[p].pc \in TaskPcs
  BY DEF Release!AskBroker, Release!At, TaskPcs
<1>2. CASE Release!CloseTask(p, "failed")
  BY <1>1, <1>2, CloseTaskInvariant
<1>3. CASE /\ asked' = asked \cup {Release!Job(p)} /\ proc' = [proc EXCEPT ![p].pc = "broker"]
           /\ UNCHANGED <<journal, receipt, effects, calls, faults>>
  <2>1. /\ TasksSoFar("ask", Release!Doc(p).tasks, Release!Task(p))
           /\ Release!Doc(p) \in Release!Document
        /\ proc[p].call \in Release!Calls
        /\ proc[p] \in Commands
        /\ journal \in Release!Document
        /\ Release!Task(p) \in Release!Tasks => Release!Attempt(p) \in Release!Calls
        /\ Fits("ask", proc[p].verb, proc[p].call, Release!Doc(p), Release!Task(p),
           proc[p].previous)
        /\ JournalFits("ask", Release!Doc(p)) /\ JournalIsHonest
    BY <1>1, AtTask, AtWork
  <2>2. Release!Job(p) \in [task : Release!Tasks, attempt : Release!Calls,
        nonce : Release!Calls]
    BY <2>1 DEF TasksSoFar, Release!Job
  <2>3. PICK x \in Commands : x = [proc[p] EXCEPT !.pc = "broker"]
    BY <2>1 DEF Commands, ReleasePcs, Moving, TaskPcs
  <2>4. PICK d \in Release!Document : d = Release!Doc(p)
    BY <2>1
  <2>5. /\ x.pc = "broker" /\ x.doc = d /\ x.verb = proc[p].verb
        /\ x.call = proc[p].call /\ x.task = Release!Task(p) /\ x.previous = proc[p].previous
    BY <2>1, <2>3, <2>4 DEF Release!Task, Release!Doc, Commands
  <2>6. JournalIsHonest'
    BY <1>3, <2>1 DEF JournalIsHonest, Honest, Owned
  <2>7. (JournalFits(x.pc, d))' /\ (Fits(x.pc, x.verb, x.call, d, x.task, x.previous))'
    BY <1>3, <2>1, <2>4, <2>5 DEF JournalFits, Fits, Counted, StatusFits, StageFits, Honest, Owned,
       ReleaseEffectsFit, TasksSoFar, Moving, Early, TaskPcs
  <2> QED BY <1>3, <2>1, <2>2, <2>3, <2>5, <2>6, <2>7, AdvanceInvariant DEF ReleaseInv,
      ReleaseTyped
<1> QED BY <1>2, <1>3 DEF Release!AskBroker

LEMMA ReleaseAnswerInvariant ==
  ASSUME ReleaseInv, NEW p \in ReleaseProcs, Release!Answer(p) PROVE ReleaseInv'
<1>1. PICK outcome \in {"succeeded", "failed", "contract-invalid"} : Release!CloseTask(p,
      outcome)
  BY DEF Release!Answer
<1> QED BY <1>1, CloseTaskInvariant DEF Release!Answer, Release!At

\* Every task succeeded unless one did not, and a review is left out only after its author.
LEMMA AllSucceeded ==
  ASSUME NEW doc \in Release!Document, NEW task \in Nat \ {0}, task \notin Release!Tasks,
         TasksAgree(doc.tasks), TasksSoFar("task", doc.tasks, task),
         Release!EverySucceeded(doc)
  PROVE  \A t \in Release!Tasks : doc.tasks[t].outcome = "succeeded"
<1>1. \A t \in Release!Tasks : t < task
  BY RolesFacts
<1>2. \A t \in Release!Tasks : doc.tasks[t] = Release!NoTask =>
        Release!Author(t) \in Release!Tasks /\ doc.tasks[Release!Author(t)].proposal = 0
        /\ Release!Author(Release!Author(t)) = 0
  BY <1>1, RolesFacts DEF TasksSoFar
<1>3. \A t \in Release!Tasks : Release!Author(t) = 0 => doc.tasks[t] # Release!NoTask
  BY <1>1 DEF TasksSoFar
<1>4. \A t \in Release!Tasks : doc.tasks[t] # Release!NoTask => doc.tasks[t].proposal # 0
  BY DEF Release!EverySucceeded, TasksAgree
<1> QED BY <1>2, <1>3, <1>4 DEF Release!EverySucceeded

LEMMA EndTasksInvariant ==
  ASSUME ReleaseInv, NEW p \in ReleaseProcs, Release!EndTasks(p) PROVE ReleaseInv'
<1>1. proc[p].pc = "task" /\ proc[p].pc \in TaskPcs /\ Release!Task(p) \notin Release!Tasks
  BY DEF Release!EndTasks, Release!At, TaskPcs
<1>2. /\ Release!Doc(p) \in Release!Document /\ TasksAgree(Release!Doc(p).tasks)
         /\ Release!Task(p) \in Nat \ {0}
      /\ TasksSoFar("task", Release!Doc(p).tasks, Release!Task(p)) /\ ~ Release!At(p, "idle")
      /\ Fits("task", proc[p].verb, proc[p].call, Release!Doc(p), Release!Task(p),
         proc[p].previous)
      /\ JournalFits("task", Release!Doc(p))
  BY <1>1, AtTask, AtWork
<1>3. CASE Release!IntegrityStop(p, "FAILED_INTEGRITY")
  BY <1>2, <1>3, IntegrityStopInvariant DEF Release!IntegrityTerminal
<1>4. PICK passed \in {"PASSED", "LIMITED"} :
        /\ passed = IF Release!EverySucceeded(Release!Doc(p)) THEN "PASSED" ELSE "LIMITED"
        /\ (\A t \in Release!Tasks : Release!Doc(p).tasks[t].outcome = "succeeded")
           \/ passed = "LIMITED"
  BY <1>1, <1>2, AllSucceeded
<1>5. PICK d \in Release!Document : d = [Release!Doc(p) EXCEPT !.passed = passed]
  BY <1>2 DEF Release!Document
<1>6. /\ d.status = Release!Doc(p).status /\ d.tasks = Release!Doc(p).tasks
         /\ d.runtime = Release!Doc(p).runtime
      /\ d.package = Release!Doc(p).package /\ d.passed = passed
         /\ d.stage = Release!Doc(p).stage
  BY <1>2, <1>5 DEF Release!Document
<1>7. CASE Release!Keep(p, d, "finalize")
  <2>1. Fits("finalize", proc[p].verb, proc[p].call, d, Release!Task(p), proc[p].previous)
    BY <1>2, <1>4, <1>6 DEF Fits, Counted, AttemptsWithin, StatusFits, StageFits, Honest, Owned,
       ReleaseEffectsFit,
       Moving, Early, TaskPcs, Release!Draft
  <2>2. JournalFits("finalize", d)
    BY <1>2 DEF JournalFits, Moving, TaskPcs, Early
  <2> QED BY <1>2, <1>7, <2>1, <2>2, KeepInvariant DEF ReleasePcs
<1>8. CASE Release!Write(p, [d EXCEPT !.stage = "PACKAGE_VALIDATION"], "validate")
  <2>1. PICK e \in Release!Document : e = [d EXCEPT !.stage = "PACKAGE_VALIDATION"]
    BY DEF Release!Document, Release!ResumableStages
  <2>2. /\ e.status = d.status /\ e.tasks = d.tasks /\ e.runtime = d.runtime
        /\ e.package = d.package /\ e.passed = d.passed /\ e.stage = "PACKAGE_VALIDATION"
    BY <2>1 DEF Release!Document
  <2>3. Fits("validate", proc[p].verb, proc[p].call, e, Release!Task(p), proc[p].previous)
    BY <1>2, <1>4, <1>6, <2>2 DEF Fits, Counted, AttemptsWithin, StatusFits, StageFits,
       Honest, Owned,
       ReleaseEffectsFit, Moving, Early, TaskPcs, Release!Draft
  <2>4. e.status # Release!Draft
    BY <1>2, <1>6, <2>2 DEF Fits, StatusFits, Moving, TaskPcs, Release!Terminal, Release!Draft
  <2> QED BY <1>2, <1>8, <2>1, <2>3, <2>4, ReleaseWriteInvariant DEF ReleasePcs, Moving
<1>9. d = [Release!Doc(p) EXCEPT !.passed = IF Release!EverySucceeded(Release!Doc(p)) THEN "PASSED" ELSE "LIMITED"]
  BY <1>4, <1>5
<1> QED BY <1>3, <1>7, <1>8, <1>9 DEF Release!EndTasks

LEMMA ReleaseValidateInvariant ==
  ASSUME ReleaseInv, NEW p \in ReleaseProcs, Release!Validate(p) PROVE ReleaseInv'
<1>1. proc[p].pc = "validate" /\ ~ Release!At(p, "idle")
  BY DEF Release!Validate, Release!At
<1>2. /\ Release!Doc(p) \in Release!Document
      /\ Fits("validate", proc[p].verb, proc[p].call, Release!Doc(p), Release!Task(p),
         proc[p].previous)
  BY <1>1, AtWork
<1>3. CASE Release!Throw(p)
  BY <1>1, <1>3, ReleaseThrowInvariant DEF Release!Working
<1>4. CASE Release!IntegrityStop(p, "FAILED_INTEGRITY")
  BY <1>1, <1>4, IntegrityStopInvariant DEF Release!IntegrityTerminal
<1>5. ASSUME NEW package \in {"bound", "rebound", Release!Doc(p).package},
             Release!Write(p, [Release!Validated(Release!Doc(p)) EXCEPT !.package = package],
             "receipt")
      PROVE  ReleaseInv'
  <2>1. package \in {"none", "bound", "rebound"} /\ package # "none"
    BY <1>2 DEF Release!Document, Fits, StageFits, Honest, Owned
  <2>2. PICK d \in Release!Document : d = [Release!Validated(Release!Doc(p)) EXCEPT !.package = package]
    BY <1>2, <2>1 DEF Release!Document, Release!Validated, Release!Terminal, Release!Draft
  <2>3. /\ d.status = Release!Draft
        /\ d.stage = Release!Draft
        /\ d.tasks = Release!Doc(p).tasks
        /\ d.runtime = Release!Doc(p).runtime /\ d.passed = Release!Doc(p).passed
           /\ d.package = package
    BY <1>2, <2>2 DEF Release!Document, Release!Validated
  <2>4. Fits("receipt", proc[p].verb, proc[p].call, d, Release!Task(p), proc[p].previous)
    BY <1>2, <2>1, <2>3 DEF Fits, Counted, AttemptsWithin, StatusFits, StageFits, Honest, Owned,
       ReleaseEffectsFit,
       Moving, Early, TaskPcs, Release!Draft, Release!IntegrityTerminal
  <2> QED BY <1>1, <1>5, <2>2, <2>4, ReleaseWriteInvariant DEF ReleasePcs
<1>6. CASE Release!Write(p, Release!Validated(Release!Doc(p)), "receipt")
  <2>1. Release!Validated(Release!Doc(p)) = [Release!Validated(Release!Doc(p)) EXCEPT !.package = Release!Doc(p).package]
    BY <1>2 DEF Release!Validated, Release!Document
  <2> QED BY <1>5, <1>6, <2>1
<1>7. CASE Release!Write(p, [Release!Validated(Release!Doc(p)) EXCEPT !.package =
                 IF Release!Changed("package") THEN "rebound" ELSE @], "receipt")
  <2>1. PICK package \in {"rebound", Release!Doc(p).package} :
          package = IF Release!Changed("package") THEN "rebound" ELSE Release!Doc(p).package
    OBVIOUS
  <2>2. [Release!Validated(Release!Doc(p)) EXCEPT !.package = IF Release!Changed("package") THEN "rebound" ELSE @]
          = [Release!Validated(Release!Doc(p)) EXCEPT !.package = package]
    BY <1>2, <2>1 DEF Release!Validated, Release!Document
  <2> QED BY <1>5, <1>7, <2>1, <2>2
<1> QED BY <1>3, <1>4, <1>6, <1>7 DEF Release!Validate

LEMMA VerifyRunInvariant ==
  ASSUME ReleaseInv, NEW p \in ReleaseProcs, Release!VerifyRun(p) PROVE ReleaseInv'
<1>1. proc[p].pc = "receipt" /\ ~ Release!At(p, "idle")
  BY DEF Release!VerifyRun, Release!At
<1>2. CASE Release!Throw(p)
  <2>1. proc' = [proc EXCEPT ![p].pc = "finalize"]
    BY <1>1, <1>2, AtWork DEF Release!Throw, Release!Keep, Release!Doc, ReleaseInv,
       ReleaseTyped, Commands
  <2> QED BY <1>1, <1>2, <2>1, ReleaseFailInvariant DEF Release!Throw, Release!Keep
<1>3. CASE /\ receipt' = journal /\ proc' = [proc EXCEPT ![p] = Release!Idle]
           /\ UNCHANGED <<journal, effects, asked, calls, faults>>
  BY <1>1, <1>3, LeaveInvariant DEF ReleaseInv, ReleaseTyped
<1> QED BY <1>2, <1>3 DEF Release!VerifyRun

\* The fence changes nothing that the document claims.
LEMMA FencedIsHonest ==
  ASSUME NEW doc \in Release!Document, Honest(doc)
  PROVE  /\ Release!Fenced(doc) \in Release!Document /\ Honest(Release!Fenced(doc))
         /\ Release!Fenced(doc).status = doc.status /\ Release!Fenced(doc).stage = doc.stage
         /\ \A t \in Release!Tasks : Release!Fenced(doc).tasks[t].attempt = doc.tasks[t].attempt
<1>1. \A t \in Release!Tasks :
        /\ Release!Cancelled(doc.tasks[t]) \in Release!TaskRecord
        /\ Release!Cancelled(doc.tasks[t]).attempt = doc.tasks[t].attempt
        /\ Release!Cancelled(doc.tasks[t]).proposal = doc.tasks[t].proposal
        /\ Release!Cancelled(doc.tasks[t]).expects = doc.tasks[t].expects
        /\ Release!Cancelled(doc.tasks[t]).outcome = "succeeded" <=> doc.tasks[t].outcome = "succeeded"
        /\ Release!Cancelled(doc.tasks[t]).state # "ADMITTED"
  BY DEF Release!Document, Release!TaskRecord, Release!Outcomes, Release!Cancelled, Honest, Owned,
     TasksAgree
<1>2. PICK new \in [Release!Tasks -> Release!TaskRecord] : new = [t \in Release!Tasks |-> Release!Cancelled(doc.tasks[t])]
  BY <1>1
<1>3. \A t \in Release!Tasks : new[t] = Release!Cancelled(doc.tasks[t])
  BY <1>2
<1>4. \A a \in doc.providerJobs :
        [a EXCEPT !.cancelled = @ \/ /\ doc.tasks[a.job.task].state = "ADMITTED"
                                     /\ doc.tasks[a.job.task].attempt = a.job.attempt]
          \in [job : [task : Release!Tasks, attempt : Release!Calls, nonce : Release!Calls],
          cancelled : BOOLEAN]
  BY DEF Release!Document
<1>5. PICK jobs :
        jobs = {[a EXCEPT !.cancelled = @ \/ /\ doc.tasks[a.job.task].state = "ADMITTED"
                                             /\ doc.tasks[a.job.task].attempt = a.job.attempt] :
                a \in doc.providerJobs}
  OBVIOUS
<1>6. Release!Fenced(doc) = [doc EXCEPT !.tasks = new, !.providerJobs = jobs]
  BY <1>2, <1>5 DEF Release!Fenced
<1>7. PICK d \in Release!Document : d = Release!Fenced(doc)
  <2>1. jobs \subseteq [job : [task : Release!Tasks, attempt : Release!Calls,
        nonce : Release!Calls],
                       cancelled : BOOLEAN]
    BY <1>4, <1>5
  <2> QED BY <1>6, <2>1 DEF Release!Document
<1>8. /\ d.status = doc.status /\ d.tasks = new /\ d.runtime = doc.runtime
      /\ d.package = doc.package /\ d.passed = doc.passed /\ d.stage = doc.stage
  BY <1>6, <1>7 DEF Release!Document
<1>9. TasksAgree(new)
  BY <1>1, <1>3, RolesFacts DEF Honest, Owned, TasksAgree
<1> QED BY <1>1, <1>3, <1>7, <1>8, <1>9 DEF Honest, Owned

LEMMA FinalizeInvariant ==
  ASSUME ReleaseInv, NEW p \in ReleaseProcs, Release!Finalize(p) PROVE ReleaseInv'
<1>1. proc[p].pc = "finalize" /\ ~ Release!At(p, "idle")
  BY DEF Release!Finalize, Release!At
<1>2. /\ Release!Doc(p) \in Release!Document
      /\ Fits("finalize", proc[p].verb, proc[p].call, Release!Doc(p), Release!Task(p),
         proc[p].previous)
      /\ JournalFits("finalize", Release!Doc(p)) /\ JournalIsHonest
  BY <1>1, AtWork
<1>3. CASE /\ Release!Doc(p).status \in Release!IntegrityTerminal
      /\ proc' = [proc EXCEPT ![p] = Release!Idle]
           /\ UNCHANGED <<journal, receipt, effects, asked, calls, faults>>
  BY <1>1, <1>3, LeaveInvariant DEF ReleaseInv, ReleaseTyped
<1>4. CASE Release!Doc(p).status \notin Release!IntegrityTerminal
  <2>1. PICK d \in Release!Document : d = Release!Fenced(Release!Doc(p))
    BY <1>2, FencedIsHonest DEF Fits, StageFits
  <2>2. /\ Honest(d) /\ d.status = Release!Doc(p).status
        /\ \A t \in Release!Tasks : d.tasks[t].attempt = Release!Doc(p).tasks[t].attempt
    BY <1>2, <2>1, FencedIsHonest DEF Fits, StageFits
  <2>3. Fits("close", proc[p].verb, proc[p].call, d, Release!Task(p), proc[p].previous)
    BY <1>2, <1>4, <2>2 DEF Fits, Counted, AttemptsWithin, StatusFits, StageFits,
       ReleaseEffectsFit, Owned, Moving,
       Early, TaskPcs
  <2>4. JournalFits("close", d)
    BY <1>2, <1>4 DEF JournalFits, Moving, Early, TaskPcs
  <2>5. ASSUME Release!Keep(p, d, "close") PROVE ReleaseInv'
    BY <1>1, <2>3, <2>4, <2>5, KeepInvariant DEF ReleasePcs
  <2>6. ASSUME Release!Write(p, d, "close") PROVE ReleaseInv'
    BY <1>1, <2>3, <2>6, ReleaseWriteInvariant DEF ReleasePcs
  <2> QED BY <1>4, <2>1, <2>5, <2>6 DEF Release!Finalize
<1> QED BY <1>3, <1>4 DEF Release!Finalize

LEMMA ReleaseCloseInvariant ==
  ASSUME ReleaseInv, NEW p \in ReleaseProcs, Release!Close(p) PROVE ReleaseInv'
<1>1. proc[p].pc = "close" /\ ~ Release!At(p, "idle")
  BY DEF Release!Close, Release!At
<1>2. /\ Release!Doc(p) \in Release!Document
      /\ proc[p].call \in Release!Calls
      /\ proc[p].call <= calls
      /\ Fits("close", proc[p].verb, proc[p].call, Release!Doc(p), Release!Task(p),
         proc[p].previous)
      /\ JournalIsHonest /\ calls \in Nat
  BY <1>1, AtWork DEF Release!Calls, ReleaseInv, ReleaseTyped
<1>3. PICK residue \in BOOLEAN :
        journal' = [Release!Doc(p) EXCEPT
                !.status = IF proc[p].aborted THEN "CANCELLED" ELSE "RECOVERABLE_FAILURE",
                !.cleanup = IF residue THEN "residue"
                            ELSE IF proc[p].aborted THEN "cancelled-and-closed"
                            ELSE "failed-and-closed", !.by = proc[p].call]
  BY DEF Release!Close
<1>4. journal' \in Release!Document
  BY <1>2, <1>3 DEF Release!Document, Release!Terminal, Release!IntegrityTerminal
<1>5. /\ journal'.status \in {"CANCELLED", "RECOVERABLE_FAILURE"}
      /\ journal'.tasks = Release!Doc(p).tasks /\ journal'.runtime = Release!Doc(p).runtime
      /\ journal'.package = Release!Doc(p).package /\ journal'.passed = Release!Doc(p).passed
      /\ journal'.stage = Release!Doc(p).stage
  BY <1>2, <1>3 DEF Release!Document
<1>6. UNCHANGED <<receipt, effects, asked, calls>>
      /\ proc' = [proc EXCEPT ![p] = Release!Idle]
  BY DEF Release!Close
<1>7. (AttemptsWithin(journal, calls))'
  <2>1. \A t \in Release!Tasks : Release!Doc(p).tasks[t].attempt \in Nat
    BY <1>2, ReleaseAssumption DEF Release!Document, Release!TaskRecord
  <2> QED BY <1>2, <1>5, <1>6, <2>1 DEF Fits, Counted, AttemptsWithin, Release!Calls
<1>8. JournalIsHonest'
  BY <1>2, <1>4, <1>5, <1>6, <1>7, NoJournalIsNoDocument
     DEF JournalIsHonest, Honest, Owned, Fits, StageFits, Release!Draft
<1> QED BY <1>4, <1>6, <1>8, IdleIsCommand, AdvanceInvariant DEF ReleaseInv, ReleaseTyped

LEMMA ReleaseAbortInvariant ==
  ASSUME ReleaseInv, NEW p \in ReleaseProcs, Release!Abort(p) PROVE ReleaseInv'
<1>1. ~ Release!At(p, "idle")
  BY DEF Release!Abort
<1>2. /\ proc[p] \in Commands
      /\ Release!Doc(p) \in Release!Document
      /\ journal \in Release!Document
      /\ Fits(proc[p].pc, proc[p].verb, proc[p].call, Release!Doc(p), Release!Task(p),
         proc[p].previous)
      /\ JournalFits(proc[p].pc, Release!Doc(p)) /\ JournalIsHonest
  BY <1>1, AtWork
<1>3. PICK x \in Commands : x = [proc[p] EXCEPT !.aborted = TRUE]
  BY <1>2 DEF Commands
<1>4. PICK d \in Release!Document : d = Release!Doc(p)
  BY <1>2
<1>5. /\ x.pc = proc[p].pc /\ x.doc = d /\ x.verb = proc[p].verb
      /\ x.call = proc[p].call /\ x.task = Release!Task(p) /\ x.previous = proc[p].previous
  BY <1>2, <1>3, <1>4 DEF Release!Task, Release!Doc, Commands
<1>6. proc' = [proc EXCEPT ![p] = x] /\ UNCHANGED <<journal, receipt, effects, asked, calls>>
  BY <1>3 DEF Release!Abort
<1>7. JournalIsHonest'
  BY <1>2, <1>6 DEF JournalIsHonest, Honest, Owned
<1>8. (JournalFits(x.pc, d))' /\ (Fits(x.pc, x.verb, x.call, d, x.task, x.previous))'
  BY <1>2, <1>4, <1>5, <1>6 DEF JournalFits, Fits, Counted, StageFits, Honest, Owned,
     ReleaseEffectsFit
<1> QED BY <1>2, <1>3, <1>5, <1>6, <1>7, <1>8, AdvanceInvariant DEF ReleaseInv, ReleaseTyped

LEMMA ReleaseQuietInvariant ==
  ASSUME ReleaseInv, UNCHANGED <<journal, receipt, effects, proc, asked, calls>>
  PROVE  ReleaseInv'
<1>1. ReleaseTyped'
  BY DEF ReleaseInv, ReleaseTyped
<1>2. JournalIsHonest'
  BY DEF ReleaseInv, JournalIsHonest, Honest, Owned
<1>3. CommandsFit'
  <2> SUFFICES ASSUME NEW p \in ReleaseProcs, ~ Release!At(p, "idle")'
               PROVE  (/\ JournalFits(proc[p].pc, Release!Doc(p))
                       /\ Fits(proc[p].pc, proc[p].verb, proc[p].call, Release!Doc(p),
                          Release!Task(p),
                               proc[p].previous))'
    BY DEF CommandsFit
  <2>1. ~ Release!At(p, "idle")
    BY DEF Release!At
  <2>2. /\ JournalFits(proc[p].pc, Release!Doc(p))
        /\ Fits(proc[p].pc, proc[p].verb, proc[p].call, Release!Doc(p), Release!Task(p),
           proc[p].previous)
    BY <2>1 DEF ReleaseInv, CommandsFit
  <2> QED BY <2>2 DEF JournalFits, Fits, Counted, StageFits, Honest, Owned, ReleaseEffectsFit,
      Release!Doc, Release!Task
<1> QED BY <1>1, <1>2, <1>3 DEF ReleaseInv

LEMMA ReleaseStepInvariant == ASSUME ReleaseInv,
[Release!Next]_(Release!vars) PROVE ReleaseInv'
<1>1. ASSUME NEW p \in ReleaseProcs, Release!StartRun(p)
             \/ Release!StartResume(p) PROVE ReleaseInv'
  BY <1>1, StartRunInvariant, StartResumeInvariant
<1>2. ASSUME NEW p \in ReleaseProcs, Release!Step(p) PROVE ReleaseInv'
  BY <1>2, InitializeInvariant, RevalidateInvariant, NoRuntimeInvariant,
     RuntimeEffectsInvariant, RuntimeResultInvariant, RuntimeDoneInvariant,
     OfflineDraftInvariant, BeginTasksInvariant, PassOverInvariant, AdmitTaskInvariant,
     AskBrokerInvariant, ReleaseAnswerInvariant, EndTasksInvariant, ReleaseValidateInvariant,
     VerifyRunInvariant, FinalizeInvariant, ReleaseCloseInvariant DEF Release!Step
<1>3. ASSUME NEW p \in ReleaseProcs, Release!Error(p) PROVE ReleaseInv'
  <2>1. ~ Release!At(p, "idle")
    BY <1>3 DEF Release!Error, Release!Working, Release!At
  <2> QED BY <1>3, <2>1, ReleaseFailInvariant DEF Release!Error
<1>4. ASSUME NEW p \in ReleaseProcs, Release!Abort(p) PROVE ReleaseInv'
  BY <1>4, ReleaseAbortInvariant
<1>5. ASSUME NEW p \in ReleaseProcs, Release!Crash(p) PROVE ReleaseInv'
  BY <1>5, LeaveInvariant DEF Release!Crash, ReleaseInv, ReleaseTyped
<1>6. ASSUME NEW kind \in Release!Drifts, Release!Drift(kind) PROVE ReleaseInv'
  BY <1>6, ReleaseQuietInvariant DEF Release!Drift
<1>7. CASE UNCHANGED Release!vars
  BY <1>7, ReleaseQuietInvariant DEF Release!vars
<1> QED BY <1>1, <1>2, <1>3, <1>4, <1>5, <1>6, <1>7 DEF Release!Next

\* An integrity state is met by a command that leaves it alone.
LEMMA StepKeepsIntegrity ==
  ASSUME ReleaseInv, [Release!Next]_(Release!vars) PROVE Release!IntegrityKept
<1> SUFFICES ASSUME journal # Release!NoJournal, journal.status \in Release!IntegrityTerminal
             PROVE  journal' = journal
  BY DEF Release!IntegrityKept
<1>1. \A p \in ReleaseProcs : Release!At(p, "idle")
      \/ (Release!At(p, "finalize") /\ Release!Doc(p).status \in Release!IntegrityTerminal)
  BY DEF ReleaseInv, CommandsFit, JournalFits, Release!At
<1>2. ASSUME NEW p \in ReleaseProcs, Release!Step(p) PROVE UNCHANGED journal
  <2>1. CASE Release!Finalize(p)
    BY <1>1, <2>1 DEF Release!Finalize, Release!At
  <2> QED BY <1>1, <1>2, <2>1 DEF Release!Step, Release!At, Release!Initialize,
      Release!Revalidate, Release!NoRuntime, Release!RuntimeEffects,
     Release!RuntimeResult, Release!RuntimeDone, Release!OfflineDraft, Release!BeginTasks,
     Release!PassOver, Release!AdmitTask, Release!AskBroker,
     Release!Answer, Release!EndTasks, Release!Validate, Release!VerifyRun, Release!Close
<1> QED BY <1>2 DEF Release!Next, Release!StartRun, Release!StartResume, Release!Error,
    Release!Abort, Release!Crash, Release!Drift, Release!vars

(***************************************************************************)
(* The journal, its copies, the receipt and the jobs have their types; an  *)
(* attempt is never numbered beyond the commands that were started.        *)
(***************************************************************************)
THEOREM ReleaseTypes == OneCommand => (Release!Spec => []Release!TypeOK)
<1>1. OneCommand /\ Release!Init => ReleaseInv BY ReleaseInitInvariant
<1>2. ReleaseInv /\ [Release!Next]_(Release!vars) => ReleaseInv' BY ReleaseStepInvariant
<1>3. ReleaseInv => Release!TypeOK
  BY DEF ReleaseInv, ReleaseTyped, Journals, Release!TypeOK, CommandsFit, Fits, Counted
<1> QED BY <1>1, <1>2, <1>3, PTL DEF Release!Spec

(***************************************************************************)
(* A run that reached the validation of its package has a draft, says      *)
(* LIMITED unless every task succeeded, and reviews what its authors       *)
(* proposed; a validated draft owns to the effects it leaves open: for any *)
(* tasks, and however often one command at a time was crashed, aborted and *)
(* resumed.                                                                *)
(***************************************************************************)
THEOREM HonestDraft == OneCommand => (Release!Spec => []Release!DraftIsHonest)
<1>1. OneCommand /\ Release!Init => ReleaseInv BY ReleaseInitInvariant
<1>2. ReleaseInv /\ [Release!Next]_(Release!vars) => ReleaseInv' BY ReleaseStepInvariant
<1>3. ReleaseInv => Release!DraftIsHonest
  BY DEF ReleaseInv, JournalIsHonest, Honest, Owned, TasksAgree, Release!DraftIsHonest
<1> QED BY <1>1, <1>2, <1>3, PTL DEF Release!Spec

\* A step that changes no variable keeps the integrity of the journal as well.
LEMMA IntegrityKeptStutters ==
  ASSUME [Release!IntegrityKept]_(Release!vars) PROVE Release!IntegrityKept
  BY DEF Release!IntegrityKept, Release!vars

(***************************************************************************)
(* No command, finalizer or crash takes a journal out of an integrity      *)
(* state (finalizeReleaseFailure, assertResumable).                        *)
(***************************************************************************)
THEOREM FinalIntegrity == OneCommand => (Release!Spec => [][Release!IntegrityKept]_(Release!vars))
<1>1. OneCommand /\ Release!Init => ReleaseInv BY ReleaseInitInvariant
<1>2. ReleaseInv /\ [Release!Next]_(Release!vars) => ReleaseInv' BY ReleaseStepInvariant
<1>3. ReleaseInv
      /\ [Release!Next]_(Release!vars) => [Release!IntegrityKept]_(Release!vars) BY StepKeepsIntegrity
<1> QED BY <1>1, <1>2, <1>3, PTL DEF Release!Spec

-----------------------------------------------------------------------------
(***************************************************************************)
(* What the journal of a pair says is on disk, a certificate is earned and *)
(* one command at a time works on a pair, for any processes, reviews and   *)
(* tasks.                                                                  *)
(*                                                                         *)
(* The first two do not need the lock: two commands that both believe they *)
(* hold it overwrite each other's journal, but every copy of it says only  *)
(* what was on disk when it was read or written, and a file that has its   *)
(* content keeps it.                                                       *)
(***************************************************************************)

AskPcs == {"taskfile", "reread", "execute", "proposal", "complete"}
Active == Public!LockedPcs \cup {"index", "lock", "sign", "steal"}
Clerks ==
    [pc : Active \cup {"idle", "dead", "unlock"},
     verb : {"none", "pair", "review", "authorize", "release"}, kind : Kinds \cup {"none"},
     now : 0..PublicCalls, task : 0..(NTasks + 1), retry : BOOLEAN, filling : BOOLEAN,
     doc : Public!Document]
Faults == {"error", "crash", "age", "expiry", "drift"}

PublicTyped ==
    /\ pair \in Public!Document /\ files \in [Public!FileNames -> 0..(2 + PublicCalls)]
    /\ lock \in [by : PublicProcs \cup {0}, signed : BOOLEAN] /\ aged \in BOOLEAN
    /\ proc \in [PublicProcs -> Clerks] /\ calls \in 0..PublicCalls /\ faults \subseteq Faults

\* What a document says is on disk.
PublicRecorded(d) ==
    /\ \A k \in d.reviews : files[<<"review", k>>] = Public!Whole(0)
    /\ d.auth => files[<<"authorization">>] = Public!Whole(0)
    /\ d.state = "CUSTOMER_RELEASE_AUTHORIZED" => files[<<"release">>] > Public!Torn
    /\ d.cleanup = "verified" => d.zip = Public!Whole(1)
    /\ d.state = "PAIRING" => d.cleanup = "pending"
Answered(d, t) ==
    d.tasks[t].completed =>
        /\ d.tasks[t].nonce \in Public!Calls
        /\ files[<<"proposal", t, d.tasks[t].nonce>>] = Public!Whole(0)

Earned ==
    /\ files[<<"zip">>] = Public!Whole(1)
    /\ \A k \in Kinds : files[<<"review", k>>] = Public!Whole(0)
    /\ files[<<"authorization">>] = Public!Whole(0)

\* The file a process writes.
Signed(x) == IF x.verb = "review" THEN <<"review", x.kind>> ELSE <<"authorization">>
Named(x) ==
    CASE x.pc = "taskfile" -> <<"task", x.task, x.doc.tasks[x.task].nonce>>
      [] x.pc = "proposal" -> <<"proposal", x.task, x.doc.tasks[x.task].nonce>>
      [] x.pc = "sidecar" -> Signed(x)
      [] x.pc = "certificate" -> <<"release">>
      [] OTHER -> <<x.pc>>

\* What a process at a place has behind it.
Behind(x) ==
    /\ x.pc \in Active => x.now \in Public!Calls /\ x.task \in 1..(NTasks + 1)
    /\ x.verb = "review" => x.kind \in Kinds
    /\ x.verb = "pair" => x.doc.state = "PAIRING"
    /\ x.pc \in {"zip", "reconcile"} => x.verb = "pair"
    /\ x.pc \in {"prepare", "sidecar", "admit"} => x.verb \in {"review", "authorize"}
    /\ x.pc \in AskPcs => x.task \in Public!Tasks
       /\ x.doc.tasks[x.task].nonce \in Public!Calls
    /\ x.pc = "admit" => files[Signed(x)] = Public!Whole(0)
    /\ x.pc = "finish" => files[<<"release">>] > Public!Torn
    /\ x.pc \in {"publish", "certificate", "finish"} => Earned /\ x.verb = "release"
    /\ x.pc = "complete" =>
          files[<<"proposal", x.task, x.doc.tasks[x.task].nonce>>] = Public!Whole(0)
Copied(x) ==
    /\ PublicRecorded(x.doc)
    /\ \A t \in Public!Tasks : Answered(x.doc, t) \/ (x.pc = "proposal" /\ t = x.task)
Filling(x) == x.filling => x.pc \in Public!FilePcs /\ files[Named(x)] = Public!Torn

PublicInv ==
    /\ PublicTyped
    /\ PublicRecorded(pair) /\ \A t \in Public!Tasks : Answered(pair, t)
    /\ \A p \in PublicProcs : Behind(proc[p]) /\ Copied(proc[p]) /\ Filling(proc[p])
    /\ files[<<"release">>] > Public!Torn => Earned
    /\ \A p, q \in PublicProcs :
          proc[p].filling /\ proc[q].filling /\ p # q => Named(proc[p]) # Named(proc[q])

LEMMA TargetIsNamed == ASSUME NEW p \in PublicProcs PROVE Public!Target(p) = Named(proc[p])
  BY DEF Public!Target, Named, Public!Pc, Public!Doc, Signed

LEMMA PublicFreshIsDocument == Public!Fresh \in Public!Document
/\ PublicRecorded(Public!Fresh) /\ \A t \in Public!Tasks : Answered(Public!Fresh, t)
<1>1. 0 \in 0..PublicCalls
  BY PublicAssumption
<1> QED BY <1>1 DEF Public!Fresh, Public!Document, Public!PairStates, Public!Blockers,
    PublicRecorded, Answered, Public!Absent, Public!Whole

LEMMA IdleIsClerk ==
  /\ Public!Idle \in Clerks
  /\ Public!Idle.pc = "idle"
  /\ ~ Public!Idle.filling
  /\ Public!Idle.verb = "none"
  /\ Public!Idle.doc = Public!Fresh
<1>1. 0 \in 0..PublicCalls /\ 0 \in 0..(NTasks + 1)
  BY PublicAssumption
<1> QED BY <1>1, PublicFreshIsDocument DEF Public!Idle, Clerks

\* A process that rests.
LEMMA RestFits ==
  ASSUME NEW x, x.verb = "none", x.doc = Public!Fresh, x.pc \in {"idle", "dead", "unlock"}
  PROVE  Behind(x) /\ Copied(x)
  BY PublicFreshIsDocument DEF Behind, Copied, Active, Public!LockedPcs, AskPcs

LEMMA NamesAreFiles ==
  /\ {<<"index">>, <<"zip">>, <<"authorization">>, <<"release">>} \subseteq Public!FileNames
  /\ \A k \in Kinds : <<"review", k>> \in Public!FileNames
  /\ \A t \in Public!Tasks, n \in Public!Calls :
        <<"task", t, n>> \in Public!FileNames /\ <<"proposal", t, n>> \in Public!FileNames
  BY DEF Public!FileNames

LEMMA NamedIsFile ==
  ASSUME NEW x, Behind(x), x.pc \in Public!FilePcs
  PROVE  Named(x) \in Public!FileNames
  BY NamesAreFiles DEF Behind, Public!FilePcs, Named, Signed, AskPcs

\* Only a certificate is called release.
LEMMA ReleaseIsCertificate ==
  ASSUME NEW x, x.pc \in Public!FilePcs \ {"certificate"} PROVE Named(x) # <<"release">>
<1>1. CASE x.pc = "taskfile" \/ x.pc = "proposal"
  BY <1>1 DEF Named
<1>2. CASE x.pc = "sidecar"
  <2>1. <<"authorization">>[1] = "authorization" /\ <<"release">>[1] = "release" OBVIOUS
  <2> QED BY <1>2, <2>1 DEF Named, Signed
<1>3. CASE x.pc = "index" \/ x.pc = "zip"
  <2>1. Named(x) = <<x.pc>>
    BY <1>3 DEF Named
  <2>2. <<x.pc>>[1] = x.pc /\ <<"release">>[1] = "release" OBVIOUS
  <2> QED BY <1>3, <2>1, <2>2
<1> QED BY <1>1, <1>2, <1>3 DEF Public!FilePcs

LEMMA PublicInitInvariant == ASSUME Public!Init PROVE PublicInv
<1>0. 0 \in 0..PublicCalls /\ 0 \in 0..(2 + PublicCalls)
  BY PublicAssumption
<1>1. PublicTyped
  BY <1>0, PublicFreshIsDocument, IdleIsClerk DEF Public!Init, PublicTyped, Public!Absent,
     Public!NoLock
<1>2. files[<<"release">>] = Public!Absent
  BY NamesAreFiles DEF Public!Init
<1> QED BY <1>1, <1>2, PublicFreshIsDocument, IdleIsClerk, RestFits DEF Public!Init,
    PublicInv, Filling, Public!Absent, Public!Torn

\* What was filled stays, and so does what rests on it.
Kept == \A f \in Public!FileNames : files[f] > Public!Torn => files'[f] = files[f]

LEMMA WholeIsKept ==
  ASSUME Kept, files \in [Public!FileNames -> 0..(2 + PublicCalls)],
         NEW f \in Public!FileNames
  PROVE  /\ \A c \in {0, 1} : files[f] = Public!Whole(c) => files'[f] = Public!Whole(c)
         /\ files[f] > Public!Torn => files'[f] > Public!Torn
  BY DEF Kept, Public!Whole, Public!Torn

LEMMA RecordedStays ==
  ASSUME Kept, PublicTyped, NEW d \in Public!Document,
         PublicRecorded(d) PROVE PublicRecorded(d)'
<1>1. d.reviews \subseteq Kinds
  BY DEF Public!Document
<1> QED BY <1>1, NamesAreFiles, WholeIsKept DEF PublicTyped, PublicRecorded

LEMMA AnsweredStays ==
  ASSUME Kept, PublicTyped, NEW d, NEW t \in Public!Tasks,
         Answered(d, t) PROVE Answered(d, t)'
  BY NamesAreFiles, WholeIsKept DEF PublicTyped, Answered

LEMMA EarnedStays == ASSUME Kept, PublicTyped, Earned PROVE Earned'
  BY NamesAreFiles, WholeIsKept DEF PublicTyped, Earned

LEMMA BehindStays == ASSUME Kept, PublicTyped, NEW x, Behind(x) PROVE Behind(x)'
<1>1. x.pc = "admit" => Signed(x) \in Public!FileNames
  BY NamesAreFiles DEF Behind, Signed
<1>2. x.pc = "admit" => (files[Signed(x)] = Public!Whole(0))'
  BY <1>1, WholeIsKept DEF Behind, PublicTyped
<1>3. x.pc = "finish" => (files[<<"release">>] > Public!Torn)'
  BY NamesAreFiles, WholeIsKept DEF Behind, PublicTyped
<1>4. x.pc = "complete" =>
        (files[<<"proposal", x.task, x.doc.tasks[x.task].nonce>>] = Public!Whole(0))'
  <2>1. x.pc = "complete" => <<"proposal", x.task,
        x.doc.tasks[x.task].nonce>> \in Public!FileNames
    BY NamesAreFiles DEF Behind, AskPcs
  <2> QED BY <2>1, WholeIsKept DEF Behind, PublicTyped
<1> QED BY <1>2, <1>3, <1>4, EarnedStays DEF Behind

LEMMA CopiedStays == ASSUME Kept, PublicTyped, NEW x \in Clerks, Copied(x) PROVE Copied(x)'
<1>1. x.doc \in Public!Document
  BY DEF Clerks
<1> QED BY <1>1, RecordedStays, AnsweredStays DEF Copied

\* What changes beside the pair, its files and the processes.
Framed ==
    /\ lock' \in [by : PublicProcs \cup {0}, signed : BOOLEAN] /\ aged' \in BOOLEAN
    /\ calls' \in 0..PublicCalls /\ faults' \subseteq Faults

\* A step of one process that writes no file but the journal.
LEMMA PublicMoveInvariant ==
  ASSUME PublicInv, NEW p \in PublicProcs, NEW x \in Clerks, proc' = [proc EXCEPT ![p] = x],
         Behind(x), Copied(x), ~ x.filling, UNCHANGED files, Framed,
         NEW d \in Public!Document, pair' = d, PublicRecorded(d),
         \A t \in Public!Tasks : Answered(d, t)
  PROVE  PublicInv'
<1>1. Kept
  BY DEF Kept
<1>2. PublicTyped'
  BY DEF PublicInv, PublicTyped, Framed
<1>3. \A q \in PublicProcs : proc'[q] = IF q = p THEN x ELSE proc[q]
  BY DEF PublicInv, PublicTyped
<1>4. ASSUME NEW q \in PublicProcs PROVE (Behind(proc[q]) /\ Copied(proc[q])
             /\ Filling(proc[q]))'
  <2>1. PICK y \in Clerks : y = proc[q]
    BY DEF PublicInv, PublicTyped
  <2>2. CASE q = p
    <3>1. (Behind(x) /\ Copied(x))'
      BY <1>1, BehindStays, CopiedStays DEF PublicInv
    <3> QED BY <1>3, <2>2, <3>1 DEF Filling
  <2>3. CASE q # p
    <3>1. (Behind(y) /\ Copied(y))'
      BY <1>1, <2>1, BehindStays, CopiedStays DEF PublicInv
    <3>2. Filling(y)'
      BY <2>1 DEF PublicInv, Filling
    <3> QED BY <1>3, <2>1, <2>3, <3>1, <3>2
  <2> QED BY <2>2, <2>3
<1>5. (PublicRecorded(d) /\ \A t \in Public!Tasks : Answered(d, t))'
  BY <1>1, RecordedStays, AnsweredStays DEF PublicInv
<1>6. (files[<<"release">>] > Public!Torn => Earned)'
  BY DEF PublicInv, Earned
<1>7. ASSUME NEW q \in PublicProcs, NEW r \in PublicProcs,
             (proc[q].filling /\ proc[r].filling)', q # r
      PROVE  (Named(proc[q]) # Named(proc[r]))'
  <2>1. q # p /\ r # p
    BY <1>3, <1>7
  <2> QED BY <1>3, <1>7, <2>1 DEF PublicInv
<1> QED BY <1>2, <1>4, <1>5, <1>6, <1>7 DEF PublicInv

\* A step that moves no process and writes nothing.
LEMMA PublicWorldInvariant ==
  ASSUME PublicInv, UNCHANGED <<pair, files, proc>>, Framed PROVE PublicInv'
<1>1. PublicTyped'
  BY DEF PublicInv, PublicTyped, Framed
<1> QED BY <1>1 DEF PublicInv, PublicRecorded, Answered, Behind, Copied, Filling, Earned

\* A process goes to a place where it rests.
LEMMA RestInvariant ==
  ASSUME PublicInv, NEW p \in PublicProcs, NEW at \in {"idle", "dead", "unlock"},
         proc' = [proc EXCEPT ![p] = [Public!Idle EXCEPT !.pc = at]],
         UNCHANGED files, Framed, NEW d \in Public!Document, pair' = d, PublicRecorded(d),
         \A t \in Public!Tasks : Answered(d, t)
  PROVE  PublicInv'
<1>1. PICK x : x = [Public!Idle EXCEPT !.pc = at] OBVIOUS
<1>2. x \in Clerks /\ x.pc = at /\ ~ x.filling /\ x.verb = "none" /\ x.doc = Public!Fresh
  BY <1>1, IdleIsClerk DEF Clerks
<1>3. Behind(x) /\ Copied(x)
  BY <1>2, RestFits
<1> QED BY <1>1, <1>2, <1>3, PublicMoveInvariant

\* What a step of a process starts from.
LEMMA PublicAtPlace ==
  ASSUME PublicInv, NEW p \in PublicProcs
  PROVE  /\ proc[p] \in Clerks /\ Behind(proc[p]) /\ Copied(proc[p]) /\ Filling(proc[p])
         /\ proc[p].doc \in Public!Document /\ proc[p].doc = Public!Doc(p)
            /\ proc[p].pc = Public!Pc(p)
         /\ pair \in Public!Document /\ PublicRecorded(pair)
            /\ \A t \in Public!Tasks : Answered(pair, t)
         /\ Public!Pc(p) \notin Public!FilePcs => ~ proc[p].filling
  BY DEF PublicInv, PublicTyped, Clerks, Public!Doc, Public!Pc, Filling

\* A process goes to another place and keeps what it has.
LEMMA PublicGotoInvariant ==
  ASSUME PublicInv, NEW p \in PublicProcs, NEW x, x \in Clerks,
         x = [proc[p] EXCEPT !.pc = x.pc, !.retry = x.retry], proc' = [proc EXCEPT ![p] = x],
         ~ proc[p].filling, Behind(x), Public!Pc(p) # "proposal", x.pc # "proposal",
         UNCHANGED <<pair, files>>, Framed
  PROVE  PublicInv'
<1>1. ~ x.filling /\ x.doc = proc[p].doc /\ Copied(x)
  BY PublicAtPlace DEF Clerks, Copied, Public!Pc
<1> QED BY <1>1, PublicAtPlace, PublicMoveInvariant

LEMMA PublicStartInvariant == ASSUME PublicInv, NEW p \in PublicProcs,
Public!Start(p) PROVE PublicInv'
<1>1. ASSUME NEW verb \in {"pair", "review", "authorize", "release"},
             NEW kind \in Kinds \cup {"none"}, NEW doc \in Public!Document,
             NEW at \in {"index", "lock"},
             Public!Begun(p, verb, kind, doc, at), PublicRecorded(doc),
             \A t \in Public!Tasks : Answered(doc, t),
             verb = "review" => kind \in Kinds, verb = "pair" => doc.state = "PAIRING"
      PROVE  PublicInv'
  <2>1. PICK x : x = [Public!Idle EXCEPT !.verb = verb, !.kind = kind, !.doc = doc, !.pc = at,
                                  !.now = calls + 1, !.task = 1]
    OBVIOUS
  <2>2. /\ calls \in 0..PublicCalls /\ calls < PublicCalls
    BY <1>1 DEF Public!Begun, PublicInv, PublicTyped
  <2>3. calls + 1 \in Public!Calls /\ calls + 1 \in 0..PublicCalls
    BY <2>2, PublicAssumption DEF Public!Calls
  <2>4. 1 \in 0..(NTasks + 1) /\ 1 \in 1..(NTasks + 1)
    BY PublicAssumption
  <2>5. /\ x \in Clerks /\ x.pc = at /\ x.verb = verb /\ x.kind = kind /\ x.doc = doc
        /\ x.now = calls + 1 /\ x.task = 1 /\ ~ x.filling
    BY <2>1, <2>3, <2>4, IdleIsClerk DEF Clerks, Active
  <2>6. Behind(x) /\ Copied(x)
    BY <1>1, <2>3, <2>4, <2>5 DEF Behind, Copied, AskPcs, Public!LockedPcs
  <2>7. Framed
    BY <1>1, <2>3 DEF Framed, Public!Begun, Public!lockVars, PublicInv, PublicTyped
  <2> QED BY <1>1, <2>1, <2>5, <2>6, <2>7, PublicMoveInvariant DEF Public!Begun,
      Public!pairVars, PublicInv, PublicTyped
<1>2. CASE Public!StartPair(p)
  BY <1>1, <1>2, PublicFreshIsDocument DEF Public!StartPair, PublicInv, PublicTyped,
     Public!Fresh
<1>3. ASSUME NEW k \in Kinds, Public!StartOther(p, "review", k) PROVE PublicInv'
  BY <1>1, <1>3, PublicFreshIsDocument DEF Public!StartOther
<1>4. ASSUME NEW verb \in {"authorize", "release"},
             Public!StartOther(p, verb, "none") PROVE PublicInv'
  BY <1>1, <1>4, PublicFreshIsDocument DEF Public!StartOther
<1> QED BY <1>2, <1>3, <1>4 DEF Public!Start

\* A process goes from one place to another and keeps the rest.
LEMMA PublicPlaceInvariant ==
  ASSUME PublicInv, NEW p \in PublicProcs, NEW at \in Active \cup {"dead", "unlock"},
         Public!To(p, at),
         ~ proc[p].filling, Public!Pc(p) # "proposal", at # "proposal",
         Behind([proc[p] EXCEPT !.pc = at]), UNCHANGED <<pair, files>>, Framed
  PROVE  PublicInv'
<1>1. PICK x : x = [proc[p] EXCEPT !.pc = at] OBVIOUS
<1>2. /\ x \in Clerks /\ x.pc = at /\ proc' = [proc EXCEPT ![p] = x]
      /\ x = [proc[p] EXCEPT !.pc = x.pc, !.retry = x.retry]
  BY <1>1, PublicAtPlace DEF Clerks, Public!To, PublicInv, PublicTyped
<1> QED BY <1>1, <1>2, PublicGotoInvariant

LEMMA TakeLockInvariant == ASSUME PublicInv, NEW p \in PublicProcs,
Public!TakeLock(p) PROVE PublicInv'
<1>1. Behind([proc[p] EXCEPT !.pc = "sign"]) /\ ~ proc[p].filling
  BY PublicAtPlace DEF Public!TakeLock, Behind, Clerks, Active, Public!LockedPcs, AskPcs,
     Public!FilePcs, Public!Pc
<1> QED BY <1>1, PublicPlaceInvariant DEF Public!TakeLock, Public!pairVars, Public!worldVars,
    Framed, PublicInv, PublicTyped, Active

LEMMA SignLockInvariant == ASSUME PublicInv, NEW p \in PublicProcs,
Public!SignLock(p) PROVE PublicInv'
<1>1. Behind([proc[p] EXCEPT !.pc = "held"]) /\ ~ proc[p].filling
  BY PublicAtPlace DEF Public!SignLock, Behind, Clerks, Active, Public!LockedPcs, AskPcs,
     Public!FilePcs, Public!Pc
<1>2. lock' \in [by : PublicProcs \cup {0}, signed : BOOLEAN]
  BY DEF Public!SignLock, PublicInv, PublicTyped
<1> QED BY <1>1, <1>2, PublicPlaceInvariant
        DEF Public!SignLock, Public!pairVars, Public!worldVars, Framed, PublicInv,
            PublicTyped, Active, Public!LockedPcs

\* A command ends, or is about to give its lock back.
LEMMA EndInvariant ==
  ASSUME PublicInv, NEW p \in PublicProcs, Public!Ended(p) \/ Public!Finally(p),
         UNCHANGED files, Framed,
         NEW d \in Public!Document, pair' = d, PublicRecorded(d),
         \A t \in Public!Tasks : Answered(d, t)
  PROVE  PublicInv'
<1>1. CASE Public!Ended(p)
  <2>1. Public!Idle = [Public!Idle EXCEPT !.pc = "idle"]
    BY IdleIsClerk DEF Public!Idle
  <2> QED BY <1>1, <2>1, RestInvariant DEF Public!Ended
<1>2. CASE Public!Finally(p)
  BY <1>2, RestInvariant DEF Public!Finally
<1> QED BY <1>1, <1>2

LEMMA JudgeLockInvariant == ASSUME PublicInv, NEW p \in PublicProcs,
Public!JudgeLock(p) PROVE PublicInv'
<1>1. Framed /\ UNCHANGED <<pair, files>>
  BY DEF Public!JudgeLock, Public!pairVars, Public!lockVars, Public!worldVars, Framed,
     PublicInv, PublicTyped
<1>2. CASE Public!Ended(p)
  BY <1>1, <1>2, PublicAtPlace, EndInvariant
<1>3. CASE Public!To(p, "steal")
  <2>1. Behind([proc[p] EXCEPT !.pc = "steal"]) /\ ~ proc[p].filling
    BY PublicAtPlace DEF Public!JudgeLock, Behind, Clerks, Active, Public!LockedPcs, AskPcs,
       Public!FilePcs, Public!Pc
  <2> QED BY <1>1, <1>3, <2>1, PublicPlaceInvariant DEF Public!JudgeLock, Active
<1> QED BY <1>2, <1>3 DEF Public!JudgeLock

LEMMA StealLockInvariant == ASSUME PublicInv, NEW p \in PublicProcs,
Public!StealLock(p) PROVE PublicInv'
<1>1. Framed /\ UNCHANGED <<pair, files>>
  BY DEF Public!StealLock, Public!pairVars, Public!worldVars, Framed, PublicInv, PublicTyped,
     Public!NoLock
<1>2. CASE Public!Ended(p)
  BY <1>1, <1>2, PublicAtPlace, EndInvariant
<1>3. CASE proc' = [proc EXCEPT ![p].pc = "lock", ![p].retry = TRUE]
  <2>1. PICK x : x = [proc[p] EXCEPT !.pc = "lock", !.retry = TRUE] OBVIOUS
  <2>2. /\ x \in Clerks /\ x.pc = "lock" /\ proc' = [proc EXCEPT ![p] = x]
        /\ x = [proc[p] EXCEPT !.pc = x.pc, !.retry = x.retry]
    BY <1>3, <2>1, PublicAtPlace DEF Clerks, Active, PublicInv, PublicTyped
  <2>3. Behind(x) /\ ~ proc[p].filling
    BY <2>1, PublicAtPlace DEF Public!StealLock, Behind, Clerks, Active, Public!LockedPcs,
       AskPcs, Public!FilePcs, Public!Pc
  <2> QED BY <1>1, <2>2, <2>3, PublicGotoInvariant DEF Public!StealLock
<1> QED BY <1>2, <1>3 DEF Public!StealLock

LEMMA UnlockInvariant == ASSUME PublicInv, NEW p \in PublicProcs,
Public!Unlock(p) PROVE PublicInv'
  BY PublicAtPlace, EndInvariant DEF Public!Unlock, Public!pairVars, Public!worldVars, Framed,
     PublicInv, PublicTyped, Public!NoLock

\* A file is created: a name nobody has, not even one who is filling.
LEMMA PublicCreateInvariant == ASSUME PublicInv, NEW p \in PublicProcs,
Public!CreateFile(p) PROVE PublicInv'
<1>1. PICK f \in Public!FileNames : f = Named(proc[p])
  BY NamedIsFile, PublicAtPlace DEF Public!CreateFile, Public!Pc
<1>2. PICK x : x = [proc[p] EXCEPT !.filling = TRUE] OBVIOUS
<1>3. /\ files[f] = Public!Absent
      /\ files' = [files EXCEPT ![f] = Public!Torn]
      /\ Public!Torn \in 0..(2 + PublicCalls)
      /\ proc' = [proc EXCEPT ![p] = x]
  <2>1. Public!Torn \in 0..(2 + PublicCalls)
    BY PublicAssumption DEF Public!Torn
  <2>2. Public!Target(p) = f
    BY <1>1, TargetIsNamed
  <2> QED BY <1>2, <2>1, <2>2 DEF Public!CreateFile
<1>4. /\ x \in Clerks /\ x.filling /\ x.pc = proc[p].pc /\ x.verb = proc[p].verb
      /\ x.kind = proc[p].kind /\ x.now = proc[p].now /\ x.task = proc[p].task
      /\ x.doc = proc[p].doc
  BY <1>2, PublicAtPlace DEF Clerks
<1>5. Named(x) = f /\ Behind(x) /\ Copied(x) /\ x.pc \in Public!FilePcs
  BY <1>1, <1>4, PublicAtPlace DEF Named, Signed, Behind, Copied, Public!CreateFile, Public!Pc
<1>6. Kept
  BY <1>3 DEF Kept, Public!Absent, Public!Torn, PublicInv, PublicTyped
<1>7. PublicTyped'
  BY <1>3, <1>4 DEF Public!CreateFile, Public!lockVars, Public!worldVars, PublicInv,
     PublicTyped
<1>8. \A q \in PublicProcs : proc'[q] = IF q = p THEN x ELSE proc[q]
  BY <1>3 DEF PublicInv, PublicTyped
<1>9. ASSUME NEW q \in PublicProcs PROVE (Behind(proc[q]) /\ Copied(proc[q])
             /\ Filling(proc[q]))'
  <2>1. PICK y \in Clerks : y = proc[q]
    BY DEF PublicInv, PublicTyped
  <2>2. CASE q = p
    <3>1. (Behind(x) /\ Copied(x))'
      BY <1>4, <1>5, <1>6, BehindStays, CopiedStays DEF PublicInv
    <3>2. Filling(x)'
      BY <1>3, <1>5 DEF Filling, PublicInv, PublicTyped
    <3> QED BY <1>8, <2>2, <3>1, <3>2
  <2>3. CASE q # p
    <3>1. (Behind(y) /\ Copied(y))'
      BY <1>6, <2>1, BehindStays, CopiedStays DEF PublicInv
    <3>2. Filling(y)'
      BY <1>3, <2>1 DEF PublicInv, PublicTyped, Filling, Public!Absent, Public!Torn
    <3> QED BY <1>8, <2>1, <2>3, <3>1, <3>2
  <2> QED BY <2>2, <2>3
<1>10. (PublicRecorded(pair) /\ \A t \in Public!Tasks : Answered(pair, t))'
  <2>1. PICK d \in Public!Document : d = pair
    BY DEF PublicInv, PublicTyped
  <2>2. (PublicRecorded(d) /\ \A t \in Public!Tasks : Answered(d, t))'
    BY <1>6, <2>1, RecordedStays, AnsweredStays DEF PublicInv
  <2> QED BY <2>1, <2>2 DEF Public!CreateFile
<1>11. (files[<<"release">>] > Public!Torn => Earned)'
  <2>1. files'[<<"release">>] > Public!Torn => files[<<"release">>] > Public!Torn
    BY <1>3, NamesAreFiles DEF Public!Torn, PublicInv, PublicTyped
  <2> QED BY <1>6, <2>1, EarnedStays DEF PublicInv
<1>12. ASSUME NEW q \in PublicProcs, NEW r \in PublicProcs,
              (proc[q].filling /\ proc[r].filling)', q # r
       PROVE  (Named(proc[q]) # Named(proc[r]))'
  <2>1. \A o \in PublicProcs : proc[o].filling => files[Named(proc[o])] = Public!Torn
    BY DEF PublicInv, Filling
  <2>2. \A o \in PublicProcs : proc[o].filling => Named(proc[o]) # f
    BY <1>3, <2>1 DEF Public!Absent, Public!Torn
  <2> QED BY <1>5, <1>8, <1>12, <2>2 DEF PublicInv
<1> QED BY <1>7, <1>9, <1>10, <1>11, <1>12 DEF PublicInv

\* A file gets its content, and what its writer then has behind it is there.
LEMMA FillFacts ==
  ASSUME PublicInv, NEW p \in PublicProcs, Public!FillFile(p)
  PROVE  \E f \in Public!FileNames, v \in 0..(2 + PublicCalls), x \in Clerks :
            /\ f = Named(proc[p]) /\ files[f] = Public!Torn /\ v > Public!Torn
            /\ Public!Pc(p) \notin {"certificate", "zip"} => v = Public!Whole(0)
            /\ files' = [files EXCEPT ![f] = v]
            /\ x.pc = Public!After(p)
            /\ ~ x.filling
            /\ x.verb = proc[p].verb
            /\ x.kind = proc[p].kind
            /\ x.now = proc[p].now /\ x.task = proc[p].task /\ x.doc = proc[p].doc
            /\ proc' = [proc EXCEPT ![p] = x]
<1>1. PICK f \in Public!FileNames : f = Named(proc[p])
  BY NamedIsFile, PublicAtPlace DEF Public!FillFile, Public!Pc
<1>2. PICK x : x = [proc[p] EXCEPT !.filling = FALSE, !.pc = Public!After(p)] OBVIOUS
<1>3. Public!Target(p) = f /\ files[f] = Public!Torn
  BY <1>1, TargetIsNamed, PublicAtPlace DEF Public!FillFile, Filling
<1>4. PICK c \in Public!Contents(p) : files' = [files EXCEPT ![f] = Public!Whole(c)]
  BY <1>3 DEF Public!FillFile
<1>5. c \in 0..PublicCalls /\ (Public!Pc(p) \notin {"certificate", "zip"} => c = 0)
  <2>1. 0 \in 0..PublicCalls /\ 1 \in 0..PublicCalls
    <3>1. proc[p].pc \in Active /\ Behind(proc[p])
      BY PublicAtPlace DEF Public!FillFile, Active, Public!LockedPcs, Public!FilePcs,
         Public!Pc
    <3>2. proc[p].now \in 1..PublicCalls
      BY <3>1 DEF Behind, Public!Calls
    <3> QED BY <3>2, PublicAssumption
  <2>2. Public!Doc(p).issuedAt \in 0..PublicCalls
    BY PublicAtPlace DEF Public!Document
  <2> QED BY <2>1, <2>2 DEF Public!Contents
<1>6. Public!Whole(c) > Public!Torn /\ Public!Whole(c) \in 0..(2 + PublicCalls)
      /\ (c = 0 => Public!Whole(c) = Public!Whole(0))
  BY <1>5, PublicAssumption DEF Public!Whole, Public!Torn
<1>7. Public!After(p) \in Active
  BY DEF Public!FillFile, Public!FilePcs, Public!After, Active, Public!LockedPcs
<1>8. /\ x \in Clerks /\ x.pc = Public!After(p) /\ ~ x.filling /\ x.verb = proc[p].verb
      /\ x.kind = proc[p].kind /\ x.now = proc[p].now /\ x.task = proc[p].task
      /\ x.doc = proc[p].doc
  BY <1>2, <1>7, PublicAtPlace DEF Clerks
<1>9. proc' = [proc EXCEPT ![p] = x]
  BY <1>2 DEF Public!FillFile, PublicInv, PublicTyped
<1> QED BY <1>1, <1>3, <1>4, <1>5, <1>6, <1>8, <1>9

LEMMA FillInvariant == ASSUME PublicInv, NEW p \in PublicProcs,
Public!FillFile(p) PROVE PublicInv'
<1>1. PICK f \in Public!FileNames, v \in 0..(2 + PublicCalls), x \in Clerks :
            /\ f = Named(proc[p]) /\ files[f] = Public!Torn /\ v > Public!Torn
            /\ Public!Pc(p) \notin {"certificate", "zip"} => v = Public!Whole(0)
            /\ files' = [files EXCEPT ![f] = v]
            /\ x.pc = Public!After(p)
            /\ ~ x.filling
            /\ x.verb = proc[p].verb
            /\ x.kind = proc[p].kind
            /\ x.now = proc[p].now /\ x.task = proc[p].task /\ x.doc = proc[p].doc
            /\ proc' = [proc EXCEPT ![p] = x]
  BY FillFacts
<1>2. Kept
  BY <1>1 DEF Kept, Public!Torn, PublicInv, PublicTyped
<1>3. files'[f] = v /\ Public!Pc(p) \in Public!FilePcs
  BY <1>1 DEF Public!FillFile, PublicInv, PublicTyped
<1>5. PICK y \in Clerks : y = proc[p] /\ Behind(y) /\ Copied(y)
  BY PublicAtPlace
<1>6. Behind(y)' /\ PublicRecorded(y.doc)' /\ \A t \in Public!Tasks : Answered(y.doc, t)'
      \/ (y.pc = "proposal" /\ t = y.task)
  <2>1. Copied(y)'
    BY <1>2, <1>5, CopiedStays DEF PublicInv
  <2> QED BY <1>2, <1>5, <2>1, BehindStays DEF PublicInv, Copied
<1>7. (Behind(x) /\ Copied(x))'
  <2>1. CASE Public!Pc(p) \in {"index", "taskfile", "zip"}
    <3>1. x.pc \in {"lock", "reread", "execute", "reconcile"} /\ y.pc = Public!Pc(p)
          /\ y.pc # "proposal"
          /\ (y.pc # "taskfile" => x.pc \in {"lock", "reconcile"})
          /\ (y.pc = "zip" <=> x.pc = "reconcile")
      BY <1>1, <1>5, <2>1 DEF Public!After, Public!Pc
    <3>2. Behind(x)'
      BY <1>1, <1>5, <1>6, <3>1, <2>1 DEF Behind, Active, Public!LockedPcs, AskPcs
    <3> QED BY <1>1, <1>5, <1>6, <3>1, <3>2 DEF Copied
  <2>2. CASE Public!Pc(p) = "proposal"
    <3>1. x.pc = "complete" /\ y.pc = "proposal" /\ v = Public!Whole(0)
      BY <1>1, <1>5, <2>2 DEF Public!After, Public!Pc
    <3>2. f = <<"proposal", x.task, x.doc.tasks[x.task].nonce>>
      BY <1>1, <2>2 DEF Named, Public!Pc
    <3>3. Behind(x)'
      BY <1>1, <1>3, <1>5, <1>6, <3>1, <3>2 DEF Behind, Active, Public!LockedPcs, AskPcs
    <3>4. Answered(x.doc, x.task)'
      BY <1>1, <1>3, <1>5, <3>1, <3>2 DEF Answered, Behind, AskPcs
    <3> QED BY <1>1, <1>5, <1>6, <3>1, <3>3, <3>4 DEF Copied
  <2>3. CASE Public!Pc(p) = "sidecar"
    <3>1. x.pc = "admit" /\ y.pc = "sidecar" /\ v = Public!Whole(0) /\ f = Signed(x)
      BY <1>1, <1>5, <2>3 DEF Public!After, Public!Pc, Named, Signed
    <3>2. Behind(x)'
      BY <1>1, <1>3, <1>5, <1>6, <3>1 DEF Behind, Active, Public!LockedPcs, AskPcs
    <3> QED BY <1>1, <1>5, <1>6, <3>1, <3>2 DEF Copied
  <2>4. CASE Public!Pc(p) = "certificate"
    <3>1. x.pc = "finish" /\ y.pc = "certificate" /\ f = <<"release">>
      BY <1>1, <1>5, <2>4 DEF Public!After, Public!Pc, Named
    <3>2. Behind(x)'
      BY <1>1, <1>3, <1>5, <1>6, <3>1 DEF Behind, Active, Public!LockedPcs, AskPcs
    <3> QED BY <1>1, <1>5, <1>6, <3>1, <3>2 DEF Copied
  <2> QED BY <1>3, <2>1, <2>2, <2>3, <2>4 DEF Public!FilePcs
<1>8. \A q \in PublicProcs : proc'[q] = IF q = p THEN x ELSE proc[q]
  BY <1>1 DEF PublicInv, PublicTyped
<1>9. ASSUME NEW q \in PublicProcs PROVE (Behind(proc[q]) /\ Copied(proc[q])
             /\ Filling(proc[q]))'
  <2>1. PICK z \in Clerks : z = proc[q]
    BY DEF PublicInv, PublicTyped
  <2>2. CASE q = p
    BY <1>1, <1>7, <1>8, <2>2 DEF Filling
  <2>3. CASE q # p
    <3>1. (Behind(z) /\ Copied(z))'
      BY <1>2, <2>1, BehindStays, CopiedStays DEF PublicInv
    <3>2. z.filling => Named(z) # f
      BY <1>1, <2>1, <2>3 DEF Public!FillFile, PublicInv
    <3>3. Filling(z)'
      BY <1>1, <2>1, <3>2 DEF PublicInv, PublicTyped, Filling
    <3> QED BY <1>8, <2>1, <2>3, <3>1, <3>3
  <2> QED BY <2>2, <2>3
<1>10. pair' \in Public!Document
       /\ (PublicRecorded(pair) /\ \A t \in Public!Tasks : Answered(pair, t))'
  <2>1. PICK d \in Public!Document : d = pair /\ PublicRecorded(d)
        /\ \A t \in Public!Tasks : Answered(d, t)
    BY PublicAtPlace
  <2>2. (PublicRecorded(d) /\ \A t \in Public!Tasks : Answered(d, t))'
    BY <1>2, <2>1, RecordedStays, AnsweredStays DEF PublicInv
  <2>3. CASE Public!Pc(p) = "index"
    <3>1. pair' = y.doc /\ y.pc = "index" /\ y.doc \in Public!Document
      BY <1>5, <2>3 DEF Public!FillFile, Public!Doc, Public!Pc, Clerks
    <3> QED BY <1>6, <3>1
  <2>4. CASE Public!Pc(p) # "index"
    BY <2>1, <2>2, <2>4 DEF Public!FillFile
  <2> QED BY <2>3, <2>4
<1>11. PublicTyped'
  <2>1. files' \in [Public!FileNames -> 0..(2 + PublicCalls)]
        /\ proc' \in [PublicProcs -> Clerks]
    BY <1>1 DEF PublicInv, PublicTyped
  <2> QED BY <1>10, <2>1 DEF Public!FillFile, Public!lockVars, Public!worldVars, PublicInv,
      PublicTyped
<1>12. (files[<<"release">>] > Public!Torn => Earned)'
  <2>1. CASE Public!Pc(p) = "certificate"
    <3>1. Earned
      BY <2>1, PublicAtPlace DEF Behind
    <3> QED BY <1>2, <3>1, EarnedStays DEF PublicInv
  <2>2. CASE Public!Pc(p) # "certificate"
    <3>1. f # <<"release">>
      BY <1>1, <1>3, <2>2, ReleaseIsCertificate DEF Public!Pc
    <3>2. files'[<<"release">>] = files[<<"release">>]
      BY <1>1, <3>1, NamesAreFiles DEF PublicInv, PublicTyped
    <3> QED BY <1>2, <3>2, EarnedStays DEF PublicInv
  <2> QED BY <2>1, <2>2
<1>13. ASSUME NEW q \in PublicProcs, NEW r \in PublicProcs,
              (proc[q].filling /\ proc[r].filling)', q # r
       PROVE  (Named(proc[q]) # Named(proc[r]))'
  <2>1. q # p /\ r # p
    BY <1>1, <1>8, <1>13
  <2> QED BY <1>8, <1>13, <2>1 DEF PublicInv
<1> QED BY <1>9, <1>10, <1>11, <1>12, <1>13 DEF PublicInv

\* A file that is there with the content the command would write is as good as written.
LEMMA FoundInvariant == ASSUME PublicInv, NEW p \in PublicProcs,
Public!FoundFile(p) PROVE PublicInv'
<1>1. Framed /\ UNCHANGED <<pair, files>>
  BY DEF Public!FoundFile, Public!pairVars, Public!lockVars, Public!worldVars, Framed,
     PublicInv, PublicTyped
<1>2. CASE Public!Ended(p) \/ Public!Finally(p)
  BY <1>1, <1>2, PublicAtPlace, EndInvariant
<1>3. ASSUME Public!Pc(p) # "index", NEW c \in Public!Contents(p),
             files[Public!Target(p)] = Public!Whole(c), Public!To(p, Public!After(p))
      PROVE  PublicInv'
  <2>1. PICK f \in Public!FileNames : f = Named(proc[p]) /\ Public!Target(p) = f
    BY NamedIsFile, PublicAtPlace, TargetIsNamed DEF Public!FoundFile, Public!Pc
  <2>2. PICK x : x = [proc[p] EXCEPT !.pc = Public!After(p)] OBVIOUS
  <2>3. /\ Public!Pc(p) \notin {"certificate", "zip"} => files[f] = Public!Whole(0)
        /\ Public!Pc(p) = "certificate" => files[f] > Public!Torn
    <3>1. Public!Doc(p).issuedAt \in Nat
      BY PublicAtPlace, PublicAssumption DEF Public!Document
    <3> QED BY <1>3, <2>1, <3>1 DEF Public!Contents, Public!Whole, Public!Torn
  <2>4. Public!After(p) \in Active /\ Public!Pc(p) = proc[p].pc
    BY DEF Public!FoundFile, Public!FilePcs, Public!After, Active, Public!LockedPcs, Public!Pc
  <2>5. /\ x \in Clerks /\ x.pc = Public!After(p) /\ ~ x.filling /\ x.verb = proc[p].verb
        /\ x.kind = proc[p].kind /\ x.now = proc[p].now /\ x.task = proc[p].task
        /\ x.doc = proc[p].doc
    BY <2>2, <2>4, PublicAtPlace DEF Clerks, Public!FoundFile
  <2>6. Behind(x) /\ Copied(x)
    <3>1. CASE Public!Pc(p) \in {"taskfile", "zip"}
      <4>1. /\ Public!Pc(p) = "taskfile" => x.pc \in {"reread", "execute"}
            /\ Public!Pc(p) = "zip" => x.pc = "reconcile"
        BY <2>5 DEF Public!After
      <4>2. Behind(x)
        BY <2>4, <2>5, <3>1, <4>1, PublicAtPlace DEF Behind, Active, Public!LockedPcs, AskPcs
      <4> QED BY <2>4, <2>5, <3>1, <4>2, PublicAtPlace DEF Copied
    <3>2. CASE Public!Pc(p) = "proposal"
      <4>1. x.pc = "complete"
            /\ files[<<"proposal", x.task, x.doc.tasks[x.task].nonce>>] = Public!Whole(0)
        BY <2>1, <2>3, <2>5, <3>2 DEF Public!After, Named, Public!Pc
      <4>2. Behind(x)
        BY <2>4, <2>5, <3>2, <4>1, PublicAtPlace DEF Behind, Active, Public!LockedPcs, AskPcs
      <4>3. Answered(x.doc, x.task)
        BY <4>1, <4>2 DEF Answered, Behind, AskPcs
      <4> QED BY <2>4, <2>5, <3>2, <4>2, <4>3, PublicAtPlace DEF Copied
    <3>3. CASE Public!Pc(p) = "sidecar"
      <4>1. x.pc = "admit" /\ files[Signed(x)] = Public!Whole(0)
        BY <2>1, <2>3, <2>5, <3>3 DEF Public!After, Named, Public!Pc, Signed
      <4>2. Behind(x)
        BY <2>4, <2>5, <3>3, <4>1, PublicAtPlace DEF Behind, Active, Public!LockedPcs, AskPcs
      <4> QED BY <2>4, <2>5, <3>3, <4>2, PublicAtPlace DEF Copied
    <3>4. CASE Public!Pc(p) = "certificate"
      <4>1. x.pc = "finish" /\ files[<<"release">>] > Public!Torn
        BY <2>1, <2>3, <2>5, <3>4 DEF Public!After, Named, Public!Pc
      <4>2. Behind(x)
        BY <2>4, <2>5, <3>4, <4>1, PublicAtPlace DEF Behind, Active, Public!LockedPcs, AskPcs
      <4> QED BY <2>4, <2>5, <3>4, <4>2, PublicAtPlace DEF Copied
    <3> QED BY <1>3, <3>1, <3>2, <3>3, <3>4 DEF Public!FoundFile, Public!FilePcs
  <2>7. proc' = [proc EXCEPT ![p] = x]
    BY <1>3, <2>2 DEF Public!To
  <2> QED BY <1>1, <2>5, <2>6, <2>7, PublicAtPlace, PublicMoveInvariant
<1> QED BY <1>2, <1>3 DEF Public!FoundFile

\* The journal becomes what its writer has, or is left alone.
LEMMA PublicNextTaskInvariant == ASSUME PublicInv, NEW p \in PublicProcs,
Public!NextTask(p) PROVE PublicInv'
<1>0. PICK t : t = proc[p].task OBVIOUS
<1>1. PICK y \in Clerks : y = proc[p] /\ Behind(y) /\ Copied(y) /\ ~ y.filling /\ y.task = t
  BY <1>0, PublicAtPlace DEF Public!NextTask, Public!FilePcs
<1>2. /\ y.pc \in {"held", "task"} /\ y.verb = "pair" /\ t \in 1..(NTasks + 1)
      /\ y.now \in Public!Calls /\ y.doc \in Public!Document
  BY <1>1 DEF Public!NextTask, Public!Pc, Behind, Active, Public!LockedPcs, Clerks
<1>3. Framed /\ UNCHANGED files
  BY DEF Public!NextTask, Public!lockVars, Public!worldVars, Framed, PublicInv, PublicTyped
<1>4. CASE t > NTasks /\ Public!To(p, "zip") /\ UNCHANGED pair
  <2>1. Behind([proc[p] EXCEPT !.pc = "zip"])
    BY <1>1, <1>2 DEF Behind, Clerks, Active, Public!LockedPcs, AskPcs
  <2> QED BY <1>1, <1>2, <1>3, <1>4, <2>1, PublicPlaceInvariant DEF Active, Public!LockedPcs,
      Public!Pc
<1>5. CASE ~ (t > NTasks)
  <2>1. t \in Public!Tasks
    BY <1>2, <1>5, PublicAssumption DEF Public!Tasks
  <2>2. CASE y.doc.tasks[t].nonce # 0 /\ Public!To(p, "taskfile") /\ UNCHANGED pair
    <3>1. y.doc.tasks[t].nonce \in Public!Calls
      BY <1>2, <2>1, <2>2, PublicAssumption DEF Public!Document, Public!Calls
    <3>2. Behind([proc[p] EXCEPT !.pc = "taskfile"])
      BY <1>1, <1>2, <2>1, <3>1 DEF Behind, Clerks, Active, Public!LockedPcs, AskPcs
    <3> QED BY <1>1, <1>2, <1>3, <2>2, <3>2, PublicPlaceInvariant DEF Active,
        Public!LockedPcs, Public!Pc
  <2>3. CASE y.doc.tasks[t].nonce = 0
        /\ Public!Save(p, [y.doc EXCEPT !.tasks[t].nonce = y.now], "taskfile")
    <3>1. PICK d : d = [y.doc EXCEPT !.tasks[t].nonce = y.now] OBVIOUS
    <3>2. PICK x : x = [proc[p] EXCEPT !.pc = "taskfile", !.doc = d] OBVIOUS
    <3>3. y.doc.tasks \in [Public!Tasks -> [nonce : 0..PublicCalls, completed : BOOLEAN]]
      BY <1>2 DEF Public!Document
    <3>4. d \in Public!Document
      BY <1>2, <3>1, <3>3 DEF Public!Document, Public!Calls
    <3>5. /\ d.reviews = y.doc.reviews /\ d.auth = y.doc.auth /\ d.state = y.doc.state
          /\ d.cleanup = y.doc.cleanup /\ d.zip = y.doc.zip
      BY <1>2, <3>1 DEF Public!Document
    <3>6. /\ d.tasks[t].nonce = y.now /\ d.tasks[t].completed = y.doc.tasks[t].completed
          /\ \A u \in Public!Tasks \ {t} : d.tasks[u] = y.doc.tasks[u]
      BY <1>2, <2>1, <3>1, <3>3 DEF Public!Document
    <3>7. ~ y.doc.tasks[t].completed
      <4>1. Answered(y.doc, t)
        BY <1>1, <1>2, <2>1 DEF Copied
      <4>2. 0 \notin Public!Calls
        BY PublicAssumption DEF Public!Calls
      <4> QED BY <2>3, <4>1, <4>2 DEF Answered
    <3>8. PublicRecorded(d) /\ \A u \in Public!Tasks : Answered(d, u)
      <4>1. PublicRecorded(d)
        BY <1>1, <3>5 DEF Copied, PublicRecorded
      <4>2. ASSUME NEW u \in Public!Tasks PROVE Answered(d, u)
        <5>1. CASE u = t
          BY <3>6, <3>7, <5>1 DEF Answered
        <5>2. CASE u # t
          <6>1. Answered(y.doc, u)
            BY <1>1, <1>2 DEF Copied
          <6> QED BY <3>6, <5>2, <6>1 DEF Answered
        <5> QED BY <5>1, <5>2
      <4> QED BY <4>1, <4>2
    <3>9. /\ x \in Clerks /\ x.pc = "taskfile" /\ x.doc = d /\ ~ x.filling /\ x.verb = y.verb
          /\ x.kind = y.kind /\ x.now = y.now /\ x.task = y.task
      BY <1>1, <3>2, <3>4 DEF Clerks, Active, Public!LockedPcs
    <3>10. Behind(x) /\ Copied(x)
      BY <1>1, <1>2, <2>1, <3>5, <3>6, <3>8, <3>9
         DEF Behind, Copied, Active, Public!LockedPcs, AskPcs
    <3>11. pair' = d /\ proc' = [proc EXCEPT ![p] = x]
      BY <2>3, <3>1, <3>2 DEF Public!Save, PublicInv, PublicTyped
    <3> QED BY <1>3, <3>4, <3>8, <3>9, <3>10, <3>11, PublicMoveInvariant
  <2> QED BY <1>0, <1>1, <1>5, <2>2, <2>3 DEF Public!NextTask, Public!Doc
<1> QED BY <1>0, <1>1, <1>4, <1>5 DEF Public!NextTask, Public!Doc

LEMMA RereadInvariant == ASSUME PublicInv, NEW p \in PublicProcs,
Public!RereadReview(p) PROVE PublicInv'
<1>1. Framed /\ UNCHANGED <<pair, files>>
  BY DEF Public!RereadReview, Public!pairVars, Public!lockVars, Public!worldVars, Framed,
     PublicInv, PublicTyped
<1>2. CASE Public!Finally(p)
  BY <1>1, <1>2, PublicAtPlace, EndInvariant
<1>3. CASE proc' = [proc EXCEPT ![p].pc = "task", ![p].task = @ + 1]
  <2>1. PICK x : x = [proc[p] EXCEPT !.pc = "task", !.task = proc[p].task + 1] OBVIOUS
  <2>2. proc[p].pc = "reread" /\ proc[p].task \in Public!Tasks
    BY PublicAtPlace DEF Public!RereadReview, Public!Pc, Behind, AskPcs
  <2>3. proc[p].task + 1 \in 1..(NTasks + 1) /\ proc[p].task + 1 \in 0..(NTasks + 1)
    BY <2>2, PublicAssumption DEF Public!Tasks
  <2>4. /\ x \in Clerks /\ x.pc = "task" /\ x.task = proc[p].task + 1 /\ x.doc = proc[p].doc
        /\ x.verb = proc[p].verb /\ x.kind = proc[p].kind /\ x.now = proc[p].now
        /\ x.filling = proc[p].filling
    <3>1. proc[p] \in Clerks
      BY PublicAtPlace
    <3> QED BY <2>1, <2>3, <3>1 DEF Clerks, Active, Public!LockedPcs
  <2>6. ~ x.filling
    BY <2>2, <2>4, PublicAtPlace DEF Public!FilePcs, Public!Pc
  <2>5. Behind(x) /\ Copied(x)
    BY <2>2, <2>3, <2>4, PublicAtPlace DEF Behind, Copied, Active, Public!LockedPcs, AskPcs
  <2> QED BY <1>1, <1>3, <2>1, <2>4, <2>5, <2>6, PublicAtPlace, PublicMoveInvariant
      DEF PublicInv, PublicTyped
<1> QED BY <1>2, <1>3 DEF Public!RereadReview

LEMMA RunReviewInvariant == ASSUME PublicInv, NEW p \in PublicProcs,
Public!RunReview(p) PROVE PublicInv'
<1>1. Framed /\ UNCHANGED <<pair, files>>
  BY DEF Public!RunReview, Public!pairVars, Public!lockVars, Public!worldVars, Framed,
     PublicInv, PublicTyped
<1>2. PICK y \in Clerks : y = proc[p] /\ Behind(y) /\ Copied(y) /\ ~ y.filling
  BY PublicAtPlace DEF Public!RunReview, Public!FilePcs
<1>3. /\ y.pc = "execute"
      /\ y.task \in Public!Tasks
      /\ y.doc.tasks[y.task].nonce \in Public!Calls
      /\ y.doc \in Public!Document
  <2>1. y.pc = "execute" /\ y.doc \in Public!Document
    BY <1>2 DEF Public!RunReview, Public!Pc, Clerks
  <2>2. y.task \in Public!Tasks /\ y.doc.tasks[y.task].nonce \in Public!Calls
    BY <1>2, <2>1 DEF Behind, AskPcs
  <2> QED BY <2>1, <2>2
<1>4. y.doc.tasks \in [Public!Tasks -> [nonce : 0..PublicCalls, completed : BOOLEAN]]
  BY <1>3 DEF Public!Document
<1>5. PICK ts : ts = [y.doc.tasks EXCEPT ![y.task].completed = TRUE] OBVIOUS
<1>6. PICK d : d = [y.doc EXCEPT !.tasks = ts] OBVIOUS
<1>8. PICK x : x = [y EXCEPT !.pc = "proposal", !.doc = d] OBVIOUS
<1>7. /\ ts \in [Public!Tasks -> [nonce : 0..PublicCalls, completed : BOOLEAN]]
       /\ ts[y.task].nonce = y.doc.tasks[y.task].nonce
       /\ \A t \in Public!Tasks \ {y.task} : ts[t] = y.doc.tasks[t]
  BY <1>3, <1>4, <1>5
<1>9. /\ d \in Public!Document
      /\ d.reviews = y.doc.reviews
      /\ d.auth = y.doc.auth
      /\ d.tasks = ts
      /\ d.state = y.doc.state /\ d.cleanup = y.doc.cleanup /\ d.zip = y.doc.zip
  BY <1>3, <1>6, <1>7 DEF Public!Document
<1>10. /\ d.tasks[y.task].nonce = y.doc.tasks[y.task].nonce
      /\ \A t \in Public!Tasks \ {y.task} : d.tasks[t] = y.doc.tasks[t]
  BY <1>7, <1>9
<1>11. /\ x \in Clerks /\ x.pc = "proposal" /\ x.doc = d /\ ~ x.filling /\ x.verb = y.verb
      /\ x.kind = y.kind /\ x.now = y.now /\ x.task = y.task
  BY <1>2, <1>8, <1>9 DEF Clerks, Active, Public!LockedPcs
<1>12. Behind(x)
  BY <1>2, <1>3, <1>9, <1>10, <1>11 DEF Behind, Active, Public!LockedPcs, AskPcs
<1>13. Copied(x)
  <2>1. PublicRecorded(d)
    BY <1>2, <1>9 DEF Copied, PublicRecorded
  <2>2. ASSUME NEW t \in Public!Tasks, t # y.task PROVE Answered(d, t)
    BY <1>2, <1>3, <1>10, <2>2 DEF Copied, Answered
  <2> QED BY <1>11, <2>1, <2>2 DEF Copied
<1>14. proc' = [proc EXCEPT ![p] = x]
  BY <1>2, <1>5, <1>6, <1>8 DEF Public!RunReview, PublicInv, PublicTyped
<1> QED BY <1>1, <1>11, <1>12, <1>13, <1>14, PublicAtPlace, PublicMoveInvariant

LEMMA CompleteInvariant == ASSUME PublicInv, NEW p \in PublicProcs,
Public!CompleteReview(p) PROVE PublicInv'
<1>1. Framed /\ UNCHANGED files
  BY DEF Public!CompleteReview, Public!lockVars, Public!worldVars, Framed, PublicInv,
     PublicTyped
<1>2. PICK y \in Clerks : y = proc[p] /\ Behind(y) /\ Copied(y) /\ ~ y.filling
  BY PublicAtPlace DEF Public!CompleteReview, Public!FilePcs
<1>3. y.pc = "complete" /\ y.task \in Public!Tasks /\ y.doc \in Public!Document
      /\ pair' = y.doc
  <2>1. y.pc = "complete" /\ y.doc \in Public!Document /\ pair' = y.doc
    BY <1>2 DEF Public!CompleteReview, Public!Pc, Public!Doc, Clerks
  <2>2. y.task \in Public!Tasks
    BY <1>2, <2>1 DEF Behind, AskPcs
  <2> QED BY <2>1, <2>2
<1>4. PICK x : x = [y EXCEPT !.pc = "task", !.task = y.task + 1] OBVIOUS
<1>5. y.task + 1 \in 1..(NTasks + 1) /\ y.task + 1 \in 0..(NTasks + 1)
  BY <1>3, PublicAssumption DEF Public!Tasks
<1>6. /\ x \in Clerks /\ x.pc = "task" /\ x.task = y.task + 1 /\ x.doc = y.doc
      /\ x.verb = y.verb /\ x.kind = y.kind /\ x.now = y.now /\ ~ x.filling
  BY <1>2, <1>4, <1>5 DEF Clerks, Active, Public!LockedPcs
<1>7. Behind(x) /\ Copied(x)
  BY <1>2, <1>3, <1>5, <1>6 DEF Behind, Copied, Active, Public!LockedPcs, AskPcs
<1>8. proc' = [proc EXCEPT ![p] = x]
  BY <1>2, <1>4 DEF Public!CompleteReview, PublicInv, PublicTyped
<1>9. PublicRecorded(y.doc) /\ \A t \in Public!Tasks : Answered(y.doc, t)
  BY <1>2, <1>3 DEF Copied
<1> QED BY <1>1, <1>3, <1>6, <1>7, <1>8, <1>9, PublicMoveInvariant

LEMMA ReconcileInvariant == ASSUME PublicInv, NEW p \in PublicProcs,
Public!Reconcile(p) PROVE PublicInv'
<1>1. Framed /\ UNCHANGED files
  BY DEF Public!Reconcile, Public!lockVars, Public!worldVars, Framed, PublicInv, PublicTyped
<1>2. PICK y \in Clerks : y = proc[p] /\ Behind(y) /\ Copied(y)
  BY PublicAtPlace
<1>3. /\ y.pc = "reconcile"
      /\ y.doc = Public!Doc(p)
      /\ y.doc \in Public!Document
      /\ y.doc.state = "PAIRING"
      /\ y.doc.cleanup = "pending"
  <2>1. y.pc = "reconcile" /\ y.doc = Public!Doc(p) /\ y.doc \in Public!Document
    BY <1>2 DEF Public!Reconcile, Public!Pc, Public!Doc, Clerks
  <2>2. y.doc.state = "PAIRING"
    BY <1>2, <2>1 DEF Behind
  <2>3. y.doc.cleanup = "pending"
    BY <1>2, <2>2 DEF Copied, PublicRecorded
  <2> QED BY <2>1, <2>2, <2>3
<1>4. PICK d \in {Public!Reconciled(y.doc), Public!Mismatched(y.doc)} : Public!SaveLast(p, d)
  BY <1>3 DEF Public!Reconcile
<1>5. /\ d \in Public!Document /\ d.reviews = y.doc.reviews /\ d.auth = y.doc.auth
      /\ d.state = "DRAFT_VALIDATED_RELEASE_BLOCKED" /\ d.tasks = y.doc.tasks
      /\ d.cleanup = "verified" => d.zip = Public!Whole(1)
  <2>1. /\ "DRAFT_VALIDATED_RELEASE_BLOCKED" \in Public!PairStates
        /\ Kinds \in SUBSET Public!Blockers
        /\ {"CROSS_PROVIDER_OUTCOME_MISMATCH"} \in SUBSET Public!Blockers
    BY DEF Public!PairStates, Public!Blockers
  <2>2. CASE d = Public!Reconciled(y.doc)
    BY <1>3, <2>1, <2>2 DEF Public!Reconciled, Public!Document
  <2>3. CASE d = Public!Mismatched(y.doc)
    BY <1>3, <2>1, <2>3 DEF Public!Mismatched, Public!Document
  <2> QED BY <1>4, <2>2, <2>3
<1>6. PublicRecorded(d) /\ \A t \in Public!Tasks : Answered(d, t)
  BY <1>2, <1>3, <1>5 DEF Copied, PublicRecorded, Answered
<1> QED BY <1>1, <1>4, <1>5, <1>6, EndInvariant DEF Public!SaveLast

\* The journal is read again under the lock.
LEMMA PublicReadInvariant ==
  ASSUME PublicInv, NEW p \in PublicProcs,
         NEW at \in {"prepare", "sidecar", "publish", "certificate"},
         Public!Read(p, at), Public!Pc(p) = "held", proc[p].verb # "pair",
         at \in {"prepare", "sidecar"} => proc[p].verb \in {"review", "authorize"},
         at \in {"publish", "certificate"} => Earned /\ proc[p].verb = "release",
         UNCHANGED <<pair, files>>, Framed
  PROVE  PublicInv'
<1>1. PICK d \in Public!Document : d = pair /\ PublicRecorded(d)
      /\ \A t \in Public!Tasks : Answered(d, t)
  BY PublicAtPlace
<1>2. PICK y \in Clerks : y = proc[p] /\ Behind(y) /\ y.pc = "held" /\ ~ y.filling
  BY PublicAtPlace DEF Public!FilePcs, Public!Pc
<1>3. PICK x : x = [y EXCEPT !.pc = at, !.doc = d] OBVIOUS
<1>4. /\ x \in Clerks /\ x.pc = at /\ x.doc = d /\ ~ x.filling /\ x.verb = y.verb
      /\ x.kind = y.kind /\ x.now = y.now /\ x.task = y.task
  BY <1>2, <1>3 DEF Clerks, Active, Public!LockedPcs
<1>5. Behind(x)
  BY <1>2, <1>4 DEF Behind, Active, Public!LockedPcs, AskPcs
<1>6. Copied(x)
  BY <1>1, <1>4 DEF Copied
<1>7. proc' = [proc EXCEPT ![p] = x]
  BY <1>1, <1>2, <1>3 DEF Public!Read, PublicInv, PublicTyped
<1> QED BY <1>1, <1>4, <1>5, <1>6, <1>7, PublicMoveInvariant

LEMMA PublicLoadRecordInvariant == ASSUME PublicInv, NEW p \in PublicProcs,
Public!LoadRecord(p) PROVE PublicInv'
<1>1. Framed /\ UNCHANGED <<pair, files>>
  BY DEF Public!LoadRecord, Public!pairVars, Public!lockVars, Public!worldVars, Framed,
     PublicInv, PublicTyped
<1>2. Public!Read(p, "prepare") \/ Public!Read(p, "sidecar") \/ Public!Finally(p)
  BY DEF Public!LoadRecord
<1>3. CASE Public!Read(p, "prepare") \/ Public!Read(p, "sidecar")
  BY <1>1, <1>3, PublicReadInvariant DEF Public!LoadRecord
<1>4. CASE Public!Finally(p)
  BY <1>1, <1>4, PublicAtPlace, EndInvariant
<1> QED BY <1>2, <1>3, <1>4

LEMMA MayReleaseEarned == ASSUME PublicInv, Public!MayRelease(pair) PROVE Earned
  BY PublicAtPlace DEF PublicInv, Public!MayRelease, Public!AllReviewed, Earned,
     PublicRecorded

LEMMA LoadReleaseInvariant == ASSUME PublicInv, NEW p \in PublicProcs,
Public!LoadRelease(p) PROVE PublicInv'
<1>1. Framed /\ UNCHANGED <<pair, files>>
  BY DEF Public!LoadRelease, Public!pairVars, Public!lockVars, Public!worldVars, Framed,
     PublicInv, PublicTyped
<1>2. (Public!MayRelease(pair) /\ (Public!Read(p, "publish") \/ Public!Read(p,
      "certificate"))) \/ Public!Finally(p)
  BY DEF Public!LoadRelease
<1>3. CASE Public!MayRelease(pair)
      /\ (Public!Read(p, "publish") \/ Public!Read(p, "certificate"))
  BY <1>1, <1>3, MayReleaseEarned, PublicReadInvariant DEF Public!LoadRelease
<1>4. CASE Public!Finally(p)
  BY <1>1, <1>4, PublicAtPlace, EndInvariant
<1> QED BY <1>2, <1>3, <1>4

\* The copy is written with something added, and the command goes on.
LEMMA SaveInvariant ==
  ASSUME PublicInv, NEW p \in PublicProcs, NEW at \in {"sidecar", "certificate"},
         NEW d \in Public!Document,
         Public!Save(p, d, at), PublicRecorded(d), d.tasks = proc[p].doc.tasks,
         Public!Pc(p) \in {"prepare", "publish"},
         at = "sidecar" <=> Public!Pc(p) = "prepare", proc[p].verb # "pair",
         UNCHANGED files, Framed
  PROVE  PublicInv'
<1>2. PICK y \in Clerks :
        y = proc[p] /\ Behind(y) /\ Copied(y) /\ y.pc = Public!Pc(p) /\ ~ y.filling
  BY PublicAtPlace DEF Public!FilePcs, Public!Pc
<1>3. PICK x : x = [y EXCEPT !.pc = at, !.doc = d] OBVIOUS
<1>4. /\ x \in Clerks /\ x.pc = at /\ x.doc = d /\ ~ x.filling /\ x.verb = y.verb
      /\ x.kind = y.kind /\ x.now = y.now /\ x.task = y.task
  BY <1>2, <1>3 DEF Clerks, Active, Public!LockedPcs
<1>5. Behind(x)
  BY <1>2, <1>4 DEF Behind, Active, Public!LockedPcs, AskPcs
<1>6. \A t \in Public!Tasks : Answered(d, t)
  BY <1>2 DEF Copied, Answered
<1>7. Copied(x)
  BY <1>4, <1>6 DEF Copied
<1>8. proc' = [proc EXCEPT ![p] = x] /\ pair' = d
  BY <1>2, <1>3 DEF Public!Save, PublicInv, PublicTyped
<1> QED BY <1>4, <1>5, <1>6, <1>7, <1>8, PublicMoveInvariant

LEMMA PrepareRecordInvariant == ASSUME PublicInv, NEW p \in PublicProcs,
Public!PrepareRecord(p) PROVE PublicInv'
<1>1. Framed /\ UNCHANGED files
  BY DEF Public!PrepareRecord, Public!lockVars, Public!worldVars, Framed, PublicInv,
     PublicTyped
<1>2. PICK y \in Clerks : y = proc[p] /\ Behind(y) /\ Copied(y) /\ y.pc = "prepare"
  BY PublicAtPlace DEF Public!PrepareRecord, Public!Pc
<1>3. /\ y.doc \in Public!Document
      /\ y.doc = Public!Doc(p)
      /\ y.verb \in {"review", "authorize"}
      /\ Public!Subject(p) \in Kinds \cup {"none", "authorization"}
  BY <1>2 DEF Behind, Clerks, Public!Doc, Public!Subject
<1>4. PICK d : d = [y.doc EXCEPT !.pending = Public!Subject(p)] OBVIOUS
<1>5. /\ d \in Public!Document /\ d.reviews = y.doc.reviews /\ d.auth = y.doc.auth
      /\ d.state = y.doc.state /\ d.tasks = y.doc.tasks /\ d.cleanup = y.doc.cleanup
      /\ d.zip = y.doc.zip
  BY <1>3, <1>4 DEF Public!Document
<1>6. PublicRecorded(d)
  BY <1>2, <1>5 DEF Copied, PublicRecorded
<1> QED BY <1>1, <1>2, <1>3, <1>4, <1>5, <1>6, SaveInvariant DEF Public!PrepareRecord,
    Public!Pc

LEMMA PrepareReleaseInvariant == ASSUME PublicInv, NEW p \in PublicProcs,
Public!PrepareRelease(p) PROVE PublicInv'
<1>1. Framed /\ UNCHANGED files
  BY DEF Public!PrepareRelease, Public!lockVars, Public!worldVars, Framed, PublicInv,
     PublicTyped
<1>2. PICK y \in Clerks : y = proc[p] /\ Behind(y) /\ Copied(y) /\ y.pc = "publish"
  BY PublicAtPlace DEF Public!PrepareRelease, Public!Pc
<1>3. y.doc \in Public!Document /\ y.doc = Public!Doc(p) /\ y.now \in 0..PublicCalls
  BY <1>2 DEF Clerks, Public!Doc
<1>4. PICK d : d = [y.doc EXCEPT !.state = "CUSTOMER_RELEASE_PREPARED", !.blockers = {},
                                 !.issuedAt = y.now]
  OBVIOUS
<1>5. /\ d \in Public!Document /\ d.reviews = y.doc.reviews /\ d.auth = y.doc.auth
      /\ d.state = "CUSTOMER_RELEASE_PREPARED" /\ d.tasks = y.doc.tasks
      /\ d.cleanup = y.doc.cleanup /\ d.zip = y.doc.zip
  BY <1>3, <1>4 DEF Public!Document, Public!PairStates
<1>6. PublicRecorded(d)
  BY <1>2, <1>5 DEF Copied, PublicRecorded
<1>7. y.verb = "release"
  BY <1>2 DEF Behind
<1> QED BY <1>1, <1>2, <1>3, <1>4, <1>5, <1>6, <1>7, SaveInvariant DEF Public!PrepareRelease,
    Public!Pc

\* The copy is written for the last time.
LEMMA PublicAdmitInvariant == ASSUME PublicInv, NEW p \in PublicProcs,
Public!AdmitRecord(p) PROVE PublicInv'
<1>1. Framed /\ UNCHANGED files
  BY DEF Public!AdmitRecord, Public!lockVars, Public!worldVars, Framed, PublicInv, PublicTyped
<1>2. PICK y \in Clerks : y = proc[p] /\ Behind(y) /\ Copied(y) /\ y.pc = "admit"
  BY PublicAtPlace DEF Public!AdmitRecord, Public!Pc
<1>3. y.doc \in Public!Document /\ y.doc = Public!Doc(p) /\ files[Signed(y)] = Public!Whole(0)
  BY <1>2 DEF Clerks, Public!Doc, Behind
<1>4. ASSUME NEW d \in Public!Document, Public!SaveLast(p, d), PublicRecorded(d),
             d.tasks = y.doc.tasks PROVE PublicInv'
  <2>1. \A t \in Public!Tasks : Answered(d, t)
    BY <1>2, <1>4 DEF Copied, Answered
  <2> QED BY <1>1, <1>4, <2>1, EndInvariant DEF Public!SaveLast
<1>5. CASE y.verb = "review"
  <2>1. PICK d : d = Public!WithReview(y.doc, y.kind) OBVIOUS
  <2>2. y.kind \in Kinds /\ files[<<"review", y.kind>>] = Public!Whole(0)
    BY <1>2, <1>3, <1>5 DEF Behind, Signed
  <2>3. PICK b \in SUBSET Public!Blockers :
          d = [y.doc EXCEPT !.reviews = y.doc.reviews \cup {y.kind}, !.pending = "none",
                            !.blockers = b]
    BY <2>1 DEF Public!WithReview, Public!Blockers
  <2>4. /\ d \in Public!Document
        /\ d.reviews = y.doc.reviews \cup {y.kind}
        /\ d.auth = y.doc.auth
        /\ d.state = y.doc.state /\ d.tasks = y.doc.tasks
        /\ d.cleanup = y.doc.cleanup /\ d.zip = y.doc.zip
    BY <1>3, <2>2, <2>3 DEF Public!Document
  <2>5. PublicRecorded(d)
    BY <1>2, <2>2, <2>4 DEF Copied, PublicRecorded
  <2> QED BY <1>2, <1>3, <1>4, <1>5, <2>1, <2>4, <2>5 DEF Public!AdmitRecord
<1>6. CASE y.verb # "review"
  <2>1. PICK d : d = Public!WithAuthorization(y.doc) OBVIOUS
  <2>2. files[<<"authorization">>] = Public!Whole(0)
    BY <1>3, <1>6 DEF Signed
  <2>3. {"CUSTOMER_RELEASE_REVALIDATION_REQUIRED"} \in SUBSET Public!Blockers
    BY DEF Public!Blockers
  <2>4. /\ d \in Public!Document /\ d.reviews = y.doc.reviews /\ d.auth
        /\ d.state = y.doc.state /\ d.tasks = y.doc.tasks
        /\ d.cleanup = y.doc.cleanup /\ d.zip = y.doc.zip
    BY <1>3, <2>1, <2>3 DEF Public!Document, Public!WithAuthorization
  <2>5. PublicRecorded(d)
    BY <1>2, <2>2, <2>4 DEF Copied, PublicRecorded
  <2> QED BY <1>2, <1>3, <1>4, <1>6, <2>1, <2>4, <2>5 DEF Public!AdmitRecord
<1> QED BY <1>5, <1>6

LEMMA FinishInvariant == ASSUME PublicInv, NEW p \in PublicProcs,
Public!FinishRelease(p) PROVE PublicInv'
<1>1. Framed /\ UNCHANGED files
  BY DEF Public!FinishRelease, Public!lockVars, Public!worldVars, Framed, PublicInv,
     PublicTyped
<1>2. PICK y \in Clerks : y = proc[p] /\ Behind(y) /\ Copied(y) /\ y.pc = "finish"
  BY PublicAtPlace DEF Public!FinishRelease, Public!Pc
<1>3. y.doc \in Public!Document /\ y.doc = Public!Doc(p) /\ files[<<"release">>] > Public!Torn
  BY <1>2 DEF Clerks, Public!Doc, Behind
<1>4. PICK d : d = [y.doc EXCEPT !.state = "CUSTOMER_RELEASE_AUTHORIZED", !.blockers = {},
                                 !.issuedAt = 0]
  OBVIOUS
<1>5. 0 \in 0..PublicCalls /\ "CUSTOMER_RELEASE_AUTHORIZED" \in Public!PairStates
  BY PublicAssumption DEF Public!PairStates
<1>6. /\ d \in Public!Document /\ d.reviews = y.doc.reviews /\ d.auth = y.doc.auth
      /\ d.state = "CUSTOMER_RELEASE_AUTHORIZED" /\ d.tasks = y.doc.tasks
      /\ d.cleanup = y.doc.cleanup /\ d.zip = y.doc.zip
  BY <1>3, <1>4, <1>5 DEF Public!Document
<1>7. PublicRecorded(d) /\ \A t \in Public!Tasks : Answered(d, t)
  BY <1>2, <1>3, <1>6 DEF Copied, PublicRecorded, Answered
<1> QED BY <1>1, <1>3, <1>4, <1>6, <1>7, EndInvariant DEF Public!FinishRelease,
    Public!SaveLast

LEMMA FaultFrame ==
  ASSUME PublicInv, NEW f \in Faults, Public!Fault(f), aged' \in BOOLEAN
  PROVE  Framed /\ UNCHANGED <<pair, files, lock>> /\ faults' = faults \cup {f}
  BY DEF Public!Fault, Public!pairVars, Framed, PublicInv, PublicTyped

LEMMA PublicStepInvariant == ASSUME PublicInv, [Public!Next]_(Public!vars) PROVE PublicInv'
<1>1. ASSUME NEW p \in PublicProcs,
             \/ Public!Start(p) \/ Public!TakeLock(p) \/ Public!SignLock(p)
                \/ Public!JudgeLock(p) \/ Public!StealLock(p) \/ Public!Unlock(p)
             \/ Public!CreateFile(p) \/ Public!FillFile(p) \/ Public!FoundFile(p)
             \/ Public!NextTask(p) \/ Public!RereadReview(p) \/ Public!RunReview(p)
                \/ Public!CompleteReview(p)
             \/ Public!Reconcile(p) \/ Public!LoadRecord(p) \/ Public!PrepareRecord(p)
                \/ Public!AdmitRecord(p)
             \/ Public!LoadRelease(p) \/ Public!PrepareRelease(p) \/ Public!FinishRelease(p)
      PROVE  PublicInv'
  BY <1>1, PublicStartInvariant, TakeLockInvariant, SignLockInvariant, JudgeLockInvariant,
     StealLockInvariant, UnlockInvariant, PublicCreateInvariant, FillInvariant,
     FoundInvariant,
     PublicNextTaskInvariant, RereadInvariant, RunReviewInvariant, CompleteInvariant,
     ReconcileInvariant, PublicLoadRecordInvariant, PrepareRecordInvariant,
     PublicAdmitInvariant,
     LoadReleaseInvariant, PrepareReleaseInvariant, FinishInvariant
<1>2. ASSUME NEW p \in PublicProcs, Public!Throw(p) \/ Public!Crash(p) PROVE PublicInv'
  <2>1. Framed /\ UNCHANGED <<pair, files>>
    BY <1>2, FaultFrame DEF Public!Throw, Public!Crash, Faults, PublicInv, PublicTyped
  <2> QED BY <1>2, <2>1, PublicAtPlace, RestInvariant DEF Public!Throw, Public!Crash
<1>3. CASE Public!AgeLock \/ Public!Expire \/ Public!Drift
  <2>1. Framed /\ UNCHANGED <<pair, files, proc>>
    BY <1>3, FaultFrame DEF Public!AgeLock, Public!Expire, Public!Drift, Faults, PublicInv,
       PublicTyped
  <2> QED BY <2>1, PublicWorldInvariant
<1>4. CASE UNCHANGED Public!vars
  BY <1>4, PublicWorldInvariant DEF Public!vars, Framed, PublicInv, PublicTyped
<1> QED BY <1>1, <1>2, <1>3, <1>4 DEF Public!Next

\* The journal, the files and the processes keep their shape.
THEOREM PublicTypes == Public!Spec => []Public!TypeOK
<1>1. Public!Init => PublicInv BY PublicInitInvariant
<1>2. PublicInv /\ [Public!Next]_(Public!vars) => PublicInv' BY PublicStepInvariant
<1>3. PublicInv => Public!TypeOK
  BY DEF PublicInv, PublicTyped, Public!TypeOK, Clerks, Active, Faults, Public!Doc, Public!Pc
<1> QED BY <1>1, <1>2, <1>3, PTL DEF Public!Spec

(***************************************************************************)
(* A customer release certificate exists only for an equivalent pair with  *)
(* every review and the authorization on disk (releaseCustomerPackage),    *)
(* for any processes and faults, also when two commands work on the pair.  *)
(***************************************************************************)
THEOREM EarnedCertificate == Public!Spec => []Public!CertificateIsEarned
<1>1. Public!Init => PublicInv BY PublicInitInvariant
<1>2. PublicInv /\ [Public!Next]_(Public!vars) => PublicInv' BY PublicStepInvariant
<1>3. PublicInv => Public!CertificateIsEarned
  BY DEF PublicInv, Earned, Public!CertificateIsEarned
<1> QED BY <1>1, <1>2, <1>3, PTL DEF Public!Spec

\* What the journal calls admitted or published is on disk, whole, whichever process died
\* where and whoever else wrote the journal (atomicPairWrite, exclusiveFsyncWrite).
THEOREM WrittenAdmission == Public!Spec => []Public!AdmittedIsWritten
<1>1. Public!Init => PublicInv BY PublicInitInvariant
<1>2. PublicInv /\ [Public!Next]_(Public!vars) => PublicInv' BY PublicStepInvariant
<1>3. PublicInv => Public!AdmittedIsWritten
  BY DEF PublicInv, PublicRecorded, Answered, Public!AdmittedIsWritten
<1> QED BY <1>1, <1>2, <1>3, PTL DEF Public!Spec
-----------------------------------------------------------------------------
(* The lock: without a death and without a slow writer it is never stolen.   *)

Holding == Public!LockedPcs \cup {"sign", "unlock"}
Steady == faults \cap {"crash", "age"} = {}
Exclusive ==
    Steady =>
        /\ ~ aged /\ (lock.by = 0 => lock = Public!NoLock)
        /\ \A p \in PublicProcs :
              proc[p].pc \notin {"dead", "steal"} /\ (proc[p].pc \in Holding => lock.by = p)

LEMMA InitExclusive == ASSUME Public!Init PROVE Exclusive
  BY IdleIsClerk DEF Public!Init, Exclusive, Holding, Public!LockedPcs, Public!NoLock

\* A process moves, and the others stay.
Moved(p, at) == proc'[p].pc \in at /\ \A q \in PublicProcs : q # p => proc'[q] = proc[q]

\* A process that holds the lock goes on or gives it back; one that does not, does not get it.
LEMMA StayExclusive ==
  ASSUME PublicInv, Exclusive, NEW p \in PublicProcs, NEW at, Moved(p, at), "dead" \notin at,
         "steal" \notin at, at \cap Holding # {} => Public!Pc(p) \in Holding,
         UNCHANGED <<lock, aged>>, Steady' => Steady
  PROVE  Exclusive'
  BY DEF Exclusive, Moved, Public!Pc

LEMMA RestMoves ==
  ASSUME PublicInv, NEW p \in PublicProcs
  PROVE  /\ Public!Ended(p) => Moved(p, {"idle"})
         /\ Public!Finally(p) => Moved(p, {"unlock"})
         /\ \A at : Public!To(p, at) => Moved(p, {at})
         /\ \A at : Public!Read(p, at) => Moved(p, {at})
         /\ \A d, at : Public!Save(p, d, at) => Moved(p, {at})
<1>1. proc \in [PublicProcs -> Clerks] /\ proc[p] \in Clerks
  BY DEF PublicInv, PublicTyped
<1>2. Public!Ended(p) => Moved(p, {"idle"})
  BY <1>1, IdleIsClerk DEF Public!Ended, Moved
<1>3. Public!Finally(p) => Moved(p, {"unlock"})
  BY <1>1, IdleIsClerk DEF Public!Finally, Moved, Clerks
<1>4. ASSUME NEW at, Public!To(p, at) PROVE Moved(p, {at})
  BY <1>1, <1>4 DEF Public!To, Moved, Clerks
<1>5. ASSUME NEW at, Public!Read(p, at) PROVE Moved(p, {at})
  BY <1>1, <1>5 DEF Public!Read, Moved, Clerks
<1>6. ASSUME NEW d, NEW at, Public!Save(p, d, at) PROVE Moved(p, {at})
  BY <1>1, <1>6 DEF Public!Save, Moved, Clerks
<1> QED BY <1>2, <1>3, <1>4, <1>5, <1>6

LEMMA WorkExclusive ==
  ASSUME PublicInv, Exclusive, NEW p \in PublicProcs,
         \/ Public!CreateFile(p) \/ Public!FillFile(p) \/ Public!FoundFile(p)
         \/ Public!NextTask(p) \/ Public!RereadReview(p) \/ Public!RunReview(p)
            \/ Public!CompleteReview(p)
         \/ Public!Reconcile(p) \/ Public!LoadRecord(p) \/ Public!PrepareRecord(p)
            \/ Public!AdmitRecord(p)
         \/ Public!LoadRelease(p) \/ Public!PrepareRelease(p) \/ Public!FinishRelease(p)
  PROVE  Exclusive'
<1>1. /\ UNCHANGED <<lock, aged, faults>> /\ Steady' = Steady
  BY DEF Public!CreateFile, Public!FillFile, Public!FoundFile, Public!NextTask,
     Public!RereadReview, Public!RunReview, Public!CompleteReview,
         Public!Reconcile, Public!LoadRecord, Public!PrepareRecord, Public!AdmitRecord,
         Public!LoadRelease, Public!PrepareRelease,
         Public!FinishRelease, Public!pairVars, Public!lockVars, Public!worldVars, Steady
<1>2. proc \in [PublicProcs -> Clerks] /\ proc[p] \in Clerks
  BY DEF PublicInv, PublicTyped
<1>3. CASE Public!CreateFile(p)
  <2>1. Moved(p, {proc[p].pc})
    BY <1>2, <1>3 DEF Public!CreateFile, Moved, Clerks
  <2>2. proc[p].pc \notin {"dead", "steal"} /\ Public!Pc(p) = proc[p].pc
    BY <1>3 DEF Public!CreateFile, Public!FilePcs, Public!Pc
  <2> QED BY <1>1, <2>1, <2>2, StayExclusive
<1>4. CASE Public!FillFile(p) \/ Public!FoundFile(p)
  <2>1. /\ Public!After(p) \in Public!LockedPcs \cup {"lock"}
           /\ (Public!Pc(p) = "index" => Public!After(p) = "lock")
        /\ Public!Pc(p) # "index" => Public!Pc(p) \in Public!LockedPcs
    BY <1>4 DEF Public!FillFile, Public!FoundFile, Public!FilePcs, Public!After,
       Public!LockedPcs
  <2>2. Moved(p, {Public!After(p)}) \/ Moved(p, {"idle"})
        \/ (Public!Pc(p) # "index" /\ Moved(p, {"unlock"}))
    <3>1. CASE Public!FillFile(p)
      BY <1>2, <3>1 DEF Public!FillFile, Moved, Clerks
    <3>2. CASE Public!FoundFile(p)
      BY <3>2, RestMoves DEF Public!FoundFile
    <3> QED BY <1>4, <3>1, <3>2
  <2>3. CASE Moved(p, {Public!After(p)})
    BY <1>1, <2>1, <2>3, StayExclusive DEF Holding, Public!LockedPcs
  <2>4. CASE Moved(p, {"idle"})
    BY <1>1, <2>4, StayExclusive DEF Holding, Public!LockedPcs
  <2>5. CASE Public!Pc(p) # "index" /\ Moved(p, {"unlock"})
    BY <1>1, <2>1, <2>5, StayExclusive DEF Holding
  <2> QED BY <2>2, <2>3, <2>4, <2>5
<1>5. ASSUME Public!Pc(p) \in Public!LockedPcs, Moved(p, Public!LockedPcs)
             \/ Moved(p, {"unlock"}) PROVE Exclusive'
  <2>1. Public!Pc(p) \in Holding /\ Public!LockedPcs \cap {"dead", "steal"} = {}
    BY <1>5 DEF Holding, Public!LockedPcs
  <2> QED BY <1>1, <1>5, <2>1, StayExclusive
<1>6. CASE Public!NextTask(p) \/ Public!PrepareRecord(p) \/ Public!PrepareRelease(p)
      \/ Public!LoadRecord(p) \/ Public!LoadRelease(p)
  <2>1. Public!Pc(p) \in Public!LockedPcs
    BY <1>6 DEF Public!NextTask, Public!PrepareRecord, Public!PrepareRelease,
       Public!LoadRecord, Public!LoadRelease, Public!LockedPcs
  <2>2. \E at \in Public!LockedPcs \cup {"unlock"} : Moved(p, {at})
    <3>1. CASE Public!NextTask(p)
      BY <3>1, RestMoves DEF Public!NextTask, Public!LockedPcs
    <3>2. CASE Public!PrepareRecord(p) \/ Public!PrepareRelease(p)
      BY <3>2, RestMoves DEF Public!PrepareRecord, Public!PrepareRelease, Public!LockedPcs
    <3>3. CASE Public!LoadRecord(p) \/ Public!LoadRelease(p)
      BY <3>3, RestMoves DEF Public!LoadRecord, Public!LoadRelease, Public!LockedPcs
    <3> QED BY <1>6, <3>1, <3>2, <3>3
  <2> QED BY <1>5, <2>1, <2>2 DEF Moved
<1>7. CASE Public!AdmitRecord(p) \/ Public!FinishRelease(p) \/ Public!Reconcile(p)
  <2>1. Public!Pc(p) \in Public!LockedPcs /\ Public!Finally(p)
    BY <1>7 DEF Public!AdmitRecord, Public!FinishRelease, Public!Reconcile, Public!SaveLast,
       Public!LockedPcs
  <2> QED BY <1>5, <2>1, RestMoves
<1>8. CASE Public!RereadReview(p)
  <2>1. Moved(p, {"task"}) \/ Moved(p, {"unlock"})
    BY <1>2, <1>8, RestMoves DEF Public!RereadReview, Moved, Clerks
  <2> QED BY <1>5, <1>8, <2>1 DEF Public!RereadReview, Moved, Public!LockedPcs
<1>9. CASE Public!RunReview(p) \/ Public!CompleteReview(p)
  <2>1. Moved(p, {"task", "proposal"})
    BY <1>2, <1>9 DEF Public!RunReview, Public!CompleteReview, Moved, Clerks
  <2> QED BY <1>5, <1>9, <2>1 DEF Public!RunReview, Public!CompleteReview, Moved,
      Public!LockedPcs
<1> QED BY <1>3, <1>4, <1>6, <1>7, <1>8, <1>9

LEMMA LockExclusive ==
  ASSUME PublicInv, Exclusive, NEW p \in PublicProcs,
         Public!TakeLock(p) \/ Public!SignLock(p) \/ Public!JudgeLock(p)
         \/ Public!StealLock(p) \/ Public!Unlock(p)
  PROVE  Exclusive'
<1>1. Steady' = Steady
  BY DEF Public!TakeLock, Public!SignLock, Public!JudgeLock, Public!StealLock, Public!Unlock,
     Public!pairVars, Public!lockVars, Public!worldVars, Steady
<1>2. CASE ~ Steady
  BY <1>1, <1>2 DEF Exclusive
<1>3. CASE Steady /\ Public!TakeLock(p)
  <2>1. Moved(p, {"sign"}) /\ lock' = [by |-> p, signed |-> FALSE] /\ ~ aged' /\ p # 0
    BY <1>3, RestMoves, PublicAssumption DEF Public!TakeLock, ProcsArePositive
  <2>2. \A q \in PublicProcs : proc[q].pc \notin {"dead", "steal"}
        /\ proc[q].pc \notin Holding
    BY <1>3, PublicAssumption DEF Public!TakeLock, Public!NoLock, Exclusive, ProcsArePositive
  <2> QED BY <2>1, <2>2 DEF Exclusive, Moved
<1>4. CASE Steady /\ Public!SignLock(p)
  <2>1. lock.by = p /\ p # 0
    BY <1>4, PublicAssumption DEF Public!SignLock, Exclusive, Holding, Public!Pc,
       ProcsArePositive
  <2>2. Moved(p, {"held"}) /\ lock'.by = p /\ ~ aged'
    BY <1>4, <2>1, RestMoves DEF Public!SignLock, PublicInv, PublicTyped
  <2> QED BY <1>4, <2>1, <2>2 DEF Exclusive, Moved
<1>5. CASE Steady /\ Public!JudgeLock(p)
  <2>1. Public!Ended(p) /\ UNCHANGED <<lock, aged>>
    <3>1. lock.signed => lock.by \in PublicProcs
      BY <1>5 DEF Exclusive, Public!NoLock, PublicInv, PublicTyped
    <3>2. Public!OwnerAlive
      BY <1>5, <3>1 DEF Public!OwnerAlive, Public!Alive, Exclusive, Public!Pc
    <3> QED BY <1>5, <3>2 DEF Public!JudgeLock, Public!lockVars
  <2> QED BY <1>1, <2>1, RestMoves, StayExclusive DEF Holding, Public!LockedPcs
<1>6. CASE Steady /\ Public!StealLock(p)
  BY <1>6 DEF Public!StealLock, Exclusive, Public!Pc
<1>7. CASE Steady /\ Public!Unlock(p)
  <2>1. Moved(p, {"idle"}) /\ lock' = Public!NoLock /\ ~ aged'
    BY <1>7, RestMoves DEF Public!Unlock
  <2>2. \A q \in PublicProcs : q # p => proc[q].pc \notin Holding
    BY <1>7 DEF Public!Unlock, Exclusive, Holding, Public!Pc
  <2> QED BY <1>7, <2>1, <2>2 DEF Exclusive, Moved, Holding, Public!LockedPcs
<1> QED BY <1>2, <1>3, <1>4, <1>5, <1>6, <1>7

LEMMA StepExclusive == ASSUME PublicInv, Exclusive,
[Public!Next]_(Public!vars) PROVE Exclusive'
<1>1. ASSUME NEW p \in PublicProcs, Public!Start(p) PROVE Exclusive'
  <2>1. proc \in [PublicProcs -> Clerks]
    BY DEF PublicInv, PublicTyped
  <2>2. ASSUME NEW verb, NEW kind, NEW doc, NEW at \in {"index", "lock"},
               Public!Begun(p, verb, kind, doc, at)
        PROVE  Exclusive'
    <3>1. Moved(p, {at})
      BY <2>1, <2>2, IdleIsClerk DEF Public!Begun, Moved, Clerks
    <3> QED BY <2>2, <3>1, StayExclusive DEF Public!Begun, Public!lockVars, Holding,
        Public!LockedPcs, Steady
  <2> QED BY <1>1, <2>2 DEF Public!Start, Public!StartPair, Public!StartOther
<1>2. ASSUME NEW p \in PublicProcs, Public!Throw(p) PROVE Exclusive'
  <2>1. Public!Finally(p) /\ UNCHANGED <<lock, aged>> /\ (Steady' => Steady)
        /\ Public!Pc(p) \in Holding
    BY <1>2 DEF Public!Throw, Public!Finally, Public!Fault, Steady, Holding
  <2> QED BY <2>1, RestMoves, StayExclusive
<1>3. ASSUME NEW p \in PublicProcs, Public!Crash(p) PROVE Exclusive'
  BY <1>3 DEF Public!Crash, Public!Fault, Steady, Exclusive
<1>4. CASE Public!AgeLock
  BY <1>4 DEF Public!AgeLock, Public!Fault, Steady, Exclusive
<1>5. CASE Public!Expire \/ Public!Drift \/ UNCHANGED Public!vars
  BY <1>5 DEF Public!Expire, Public!Drift, Public!vars, Public!Fault, Steady, Exclusive
<1> QED BY <1>1, <1>2, <1>3, <1>4, <1>5, WorkExclusive, LockExclusive DEF Public!Next

\* While no process has died and none was slow to sign its lock, one command at a time works
\* on a pair (withPairLock), for any number of processes.
THEOREM LoneHolder == Public!Spec => []Public!OneHolder
<1>1. Public!Init => PublicInv /\ Exclusive BY PublicInitInvariant, InitExclusive
<1>2. PublicInv /\ Exclusive /\ [Public!Next]_(Public!vars) => PublicInv'
      /\ Exclusive' BY PublicStepInvariant, StepExclusive
<1>3. Exclusive => Public!OneHolder
  BY DEF Exclusive, Public!OneHolder, Public!Holders, Holding, Steady, Public!Pc
<1> QED BY <1>1, <1>2, <1>3, PTL DEF Public!Spec

-----------------------------------------------------------------------------
(***************************************************************************)
(* A sealed package is what was certified, for any artifacts, paths and    *)
(* packaging processes, and any edits, damage and deaths.                  *)
(*                                                                         *)
(* A name is taken once, so what a process has written under it stays its  *)
(* own; the archive alone may be damaged, and is read back before the      *)
(* digest seals it.  The invariant says, of every place of a process, what *)
(* of its payload is on disk.                                              *)
(***************************************************************************)

Sealing == {"sum", "encrypt", "age", "ageSum", "return"}
Accepted == Sealing \cup {"zip", "fresh"}
PackagePlaces == Accepted \cup {"idle", "read"}
Holdings == UNION {[some -> Artifacts] : some \in SUBSET Paths}
Packagers ==
    [pc : PackagePlaces, payload : Holdings,
     encryption : {"not-requested", "unavailable", "created"}]

PackageTyped ==
    /\ staging \in [Paths -> Artifacts]
    /\ files \in [Package!Names -> Holdings \cup {Package!Damaged}]
    /\ proc \in [PackageProcs -> Packagers]

\* What was certified by the panel and may leave.
Releasable(s) == Paths # {} /\ DOMAIN s = Paths /\ Package!Bound(s) /\ Package!Packageable(s)

\* What of a payload is on disk at a place.
OnDisk(at, s, encryption) ==
    /\ at = "read" => DOMAIN s # {}
    /\ at \in Accepted => Releasable(s)
    /\ at \notin {"age", "ageSum", "return"} => encryption = "not-requested"
    /\ at = "sum" => files["zip"] \in {s, Package!Damaged}
    /\ at \in Sealing \ {"sum"} => files["sum"] = s
    /\ at = "ageSum" \/ (at = "return" /\ encryption = "created") => files["age"] = s
    /\ at = "return" /\ encryption = "created" => files["ageSum"] = s

SealIsGood ==
    files["sum"] # Package!None => files["zip"] \in {files["sum"], Package!Damaged}
    /\ Releasable(files["sum"])

ResultIsGood(r) ==
    /\ DOMAIN r.payload # {} /\ files["sum"] = r.payload
    /\ r.encryption = "created" => files["age"] = r.payload /\ files["ageSum"] = r.payload

PackageInv ==
    /\ PackageTyped /\ SealIsGood
    /\ \A p \in PackageProcs : OnDisk(proc[p].pc, proc[p].payload, proc[p].encryption)
    /\ \A r \in results : ResultIsGood(r)

LEMMA NoneIsPayload == Package!None \in Holdings
<1>1. Package!None \in [{} -> Artifacts] BY DEF Package!None
<1> QED BY <1>1 DEF Holdings

LEMMA EmptyDomains == DOMAIN Package!None = {} /\ DOMAIN Package!Damaged = Paths
  BY DEF Package!None, Package!Damaged

LEMMA IdleIsPackager == Package!Idle \in Packagers /\ Package!Idle.pc = "idle"
  BY NoneIsPayload DEF Package!Idle, Packagers, PackagePlaces

LEMMA PackageInitInvariant == ASSUME Package!Init PROVE PackageInv
<1>1. PackageTyped
  BY NoneIsPayload, IdleIsPackager DEF Package!Init, PackageTyped
<1>2. ASSUME NEW p \in PackageProcs PROVE OnDisk(proc[p].pc, proc[p].payload,
             proc[p].encryption)
  BY DEF Package!Init, Package!Idle, OnDisk, Accepted, Sealing
<1> QED BY <1>1, <1>2 DEF Package!Init, PackageInv, SealIsGood, Package!Names

\* What is on disk stays what it is, but for damage of the archive.
Keeps ==
    /\ certified \subseteq certified'
    /\ \A f \in Package!Names : files[f] # Package!None =>
          files'[f] = files[f] \/ (f = "zip" /\ files'[f] = Package!Damaged)

LEMMA PayloadsAreKept ==
  ASSUME Keeps, NEW at, NEW s, NEW encryption, OnDisk(at, s, encryption)
  PROVE  OnDisk(at, s, encryption)'
<1>1. Releasable(s) => Releasable(s)'
  BY DEF Keeps, Releasable, Package!Bound
<1>2. at \in Accepted => s # Package!None /\ DOMAIN s = Paths
      /\ Package!Damaged # Package!None
  BY EmptyDomains DEF OnDisk, Releasable
<1> QED BY <1>1, <1>2 DEF Keeps, OnDisk, Accepted, Sealing, Package!Names

\* A step of one process, which goes to a place whose claims are on disk.
LEMMA PackageMoveInvariant ==
  ASSUME PackageInv, Keeps, NEW p \in PackageProcs, NEW x \in Packagers,
         proc' = [proc EXCEPT ![p] = x],
         (OnDisk(x.pc, x.payload, x.encryption))', staging' \in [Paths -> Artifacts],
         files' \in [Package!Names -> Holdings \cup {Package!Damaged}], SealIsGood',
         \A r \in results' : r \in results \/ ResultIsGood(r)'
  PROVE  PackageInv'
<1>1. PackageTyped'
  BY DEF PackageInv, PackageTyped
<1>2. ASSUME NEW q \in PackageProcs
      PROVE  (OnDisk(proc[q].pc, proc[q].payload, proc[q].encryption))'
  <2>1. CASE q = p
    BY <2>1 DEF PackageInv, PackageTyped
  <2>2. CASE q # p
    <3>1. proc'[q] = proc[q] BY <2>2 DEF PackageInv, PackageTyped
    <3>2. OnDisk(proc[q].pc, proc[q].payload, proc[q].encryption) BY DEF PackageInv
    <3> QED BY <3>1, <3>2, PayloadsAreKept
  <2> QED BY <2>1, <2>2
<1>3. ASSUME NEW r \in results, ResultIsGood(r) PROVE ResultIsGood(r)'
  BY <1>3, EmptyDomains DEF Keeps, ResultIsGood, Package!Names
<1> QED BY <1>1, <1>2, <1>3 DEF PackageInv

\* A step of nobody: an edit, a certificate, damage.
LEMMA PackageQuietInvariant ==
  ASSUME PackageInv, Keeps, UNCHANGED <<proc, results>>, staging' \in [Paths -> Artifacts],
         files' \in [Package!Names -> Holdings \cup {Package!Damaged}], SealIsGood'
  PROVE  PackageInv'
<1>1. ASSUME NEW q \in PackageProcs
      PROVE  (OnDisk(proc[q].pc, proc[q].payload, proc[q].encryption))'
  <2>1. OnDisk(proc[q].pc, proc[q].payload, proc[q].encryption) BY DEF PackageInv
  <2> QED BY <2>1, PayloadsAreKept
<1>2. ASSUME NEW r \in results PROVE ResultIsGood(r)'
  BY <1>2, EmptyDomains DEF PackageInv, Keeps, ResultIsGood, Package!Names
<1> QED BY <1>1, <1>2 DEF PackageInv, PackageTyped

\* Steps that leave the directory and the certificates as they are.
LEMMA NothingWritten ==
  ASSUME PackageInv, UNCHANGED <<certified, files>>
  PROVE  Keeps /\ SealIsGood' /\ files' \in [Package!Names -> Holdings \cup {Package!Damaged}]
  BY DEF PackageInv, PackageTyped, Keeps, SealIsGood, Releasable, Package!Bound

LEMMA PackageThrowInvariant ==
  ASSUME PackageInv, NEW p \in PackageProcs, Package!Throw(p),
         UNCHANGED <<staging, certified, files, results>>
  PROVE  PackageInv'
<1>1. (OnDisk(Package!Idle.pc, Package!Idle.payload, Package!Idle.encryption))'
  BY DEF Package!Idle, OnDisk, Accepted, Sealing
<1> QED BY <1>1, IdleIsPackager, NothingWritten, PackageMoveInvariant DEF Package!Throw,
    PackageInv, PackageTyped

LEMMA CollectInvariant == ASSUME PackageInv, NEW p \in PackageProcs,
Package!Collect(p) PROVE PackageInv'
<1>1. PICK path \in Paths \ DOMAIN proc[p].payload :
          proc' = [proc EXCEPT ![p].pc = "read",
                               ![p].payload = [y \in DOMAIN @ \cup {path} |->
                                                   IF y = path THEN staging[path] ELSE @[y]]]
  BY DEF Package!Collect
<1> DEFINE held == proc[p].payload
           more == [y \in DOMAIN held
           \cup {path} |-> IF y = path THEN staging[path] ELSE held[y]]
<1>2. proc[p] \in Packagers /\ staging[path] \in Artifacts /\ held \in Holdings
  BY DEF PackageInv, PackageTyped, Packagers
<1>3. PICK some \in SUBSET Paths : held \in [some -> Artifacts]
  BY <1>2 DEF Holdings
<1>4. more \in [some \cup {path} -> Artifacts] /\ some \cup {path} \in SUBSET Paths
  BY <1>2, <1>3
<1>5. more \in Holdings
  BY <1>4 DEF Holdings
<1>6. PICK x : x = [proc[p] EXCEPT !.pc = "read", !.payload = more]
      /\ proc' = [proc EXCEPT ![p] = x]
  BY <1>1 DEF PackageInv, PackageTyped
<1>10. DOMAIN more # {}
  BY <1>4
<1> HIDE DEF more
<1>7. x \in Packagers /\ x.pc = "read" /\ x.payload = more
      /\ x.encryption = proc[p].encryption
  BY <1>2, <1>5, <1>6 DEF Packagers, PackagePlaces
<1>9. proc[p].encryption = "not-requested"
  <2>1. proc[p].pc \in {"idle", "read"} BY DEF Package!Collect, Package!Idle
  <2> QED BY <2>1 DEF PackageInv, OnDisk
<1>8. (OnDisk(x.pc, x.payload, x.encryption))'
  <2>1. x.encryption = "not-requested"
    BY <1>7, <1>9
  <2> QED BY <1>7, <1>10, <2>1 DEF OnDisk, Accepted, Sealing
<1> QED BY <1>6, <1>7, <1>8, NothingWritten, PackageMoveInvariant DEF Package!Collect,
    PackageInv, PackageTyped

LEMMA PackageCreateInvariant == ASSUME PackageInv, NEW p \in PackageProcs,
Package!Create(p) PROVE PackageInv'
<1>1. CASE Package!Throw(p) BY <1>1, PackageThrowInvariant DEF Package!Create
<1>2. CASE Package!Goto(p, "zip") /\ Package!Bound(proc[p].payload)
      /\ Package!Packageable(proc[p].payload)
  <2>1. PICK x : x = [proc[p] EXCEPT !.pc = "zip"] /\ proc[p] \in Packagers
        /\ proc' = [proc EXCEPT ![p] = x]
    BY <1>2 DEF PackageInv, PackageTyped, Package!Goto
  <2>2. /\ x \in Packagers /\ x.pc = "zip" /\ x.payload = proc[p].payload
        /\ x.encryption = proc[p].encryption
    BY <2>1 DEF Packagers, PackagePlaces, Accepted
  <2>3. OnDisk("read", x.payload, x.encryption) /\ DOMAIN x.payload = Paths
    BY <2>2 DEF Package!Create, PackageInv, Package!Complete
  <2>4. Releasable(x.payload) /\ x.encryption = "not-requested"
    BY <1>2, <2>2, <2>3 DEF OnDisk, Releasable
  <2>5. (OnDisk(x.pc, x.payload, x.encryption))'
    BY <2>2, <2>4 DEF Package!Create, OnDisk, Sealing, Releasable, Package!Bound
  <2> QED BY <2>1, <2>2, <2>5, NothingWritten, PackageMoveInvariant DEF Package!Create,
      PackageInv, PackageTyped
<1> QED BY <1>1, <1>2 DEF Package!Create

\* Fresh and Encrypt move to a place that the directory already bears out.
LEMMA PackagePlaceInvariant ==
  ASSUME PackageInv, NEW p \in PackageProcs, NEW at \in PackagePlaces, NEW choice,
         choice \in {"not-requested", "unavailable", "created"},
         proc' = [proc EXCEPT ![p].pc = at, ![p].encryption = choice],
         UNCHANGED <<staging, certified, files, results>>, OnDisk(at, proc[p].payload, choice)
  PROVE  PackageInv'
<1>1. PICK x : x = [proc[p] EXCEPT !.pc = at, !.encryption = choice] /\ proc[p] \in Packagers
      /\ proc' = [proc EXCEPT ![p] = x]
  BY DEF PackageInv, PackageTyped
<1>2. x \in Packagers /\ x.pc = at /\ x.payload = proc[p].payload /\ x.encryption = choice
  BY <1>1 DEF Packagers
<1>4. OnDisk(x.pc, x.payload, x.encryption)
  BY <1>2
<1>3. (OnDisk(x.pc, x.payload, x.encryption))'
  BY <1>4, PayloadsAreKept, NothingWritten
<1> QED BY <1>1, <1>2, <1>3, NothingWritten, PackageMoveInvariant DEF PackageInv, PackageTyped

\* What a process at a place knows.
LEMMA PackageAtPlace ==
  ASSUME PackageInv, NEW p \in PackageProcs
  PROVE  /\ proc[p] \in Packagers
         /\ OnDisk(proc[p].pc, proc[p].payload, proc[p].encryption)
  BY DEF PackageInv, PackageTyped

LEMMA FreshInvariant == ASSUME PackageInv, NEW p \in PackageProcs,
Package!Fresh(p) PROVE PackageInv'
<1>1. CASE Package!Throw(p) BY <1>1, PackageThrowInvariant DEF Package!Fresh
<1>2. CASE Package!Goto(p, "sum") /\ files["zip"] = Package!Archive(proc[p].payload)
  <2>0. PICK e : e = proc[p].encryption OBVIOUS
  <2>1. OnDisk("sum", proc[p].payload, e)
    BY <1>2, <2>0, PackageAtPlace DEF Package!Fresh, OnDisk, Package!Archive, Accepted,
       Sealing
  <2>2. proc' = [proc EXCEPT ![p].pc = "sum", ![p].encryption = e]
    BY <1>2, <2>0, PackageAtPlace DEF Package!Goto, Packagers, PackageInv, PackageTyped
  <2>3. e \in {"not-requested", "unavailable", "created"}
    BY <2>0, PackageAtPlace DEF Packagers
  <2> QED BY <2>1, <2>2, <2>3, PackagePlaceInvariant DEF Package!Fresh, PackagePlaces,
      Accepted, Sealing
<1> QED BY <1>1, <1>2 DEF Package!Fresh

LEMMA EncryptInvariant == ASSUME PackageInv, NEW p \in PackageProcs,
Package!Encrypt(p) PROVE PackageInv'
<1>1. CASE Package!Throw(p) BY <1>1, PackageThrowInvariant DEF Package!Encrypt
<1>2. ASSUME NEW e \in {"not-requested", "unavailable"},
             proc' = [proc EXCEPT ![p].pc = "return", ![p].encryption = e]
      PROVE  PackageInv'
  <2>1. OnDisk("return", proc[p].payload, e)
    BY <1>2, PackageAtPlace DEF Package!Encrypt, OnDisk, Accepted, Sealing
  <2> QED BY <1>2, <2>1, PackagePlaceInvariant DEF Package!Encrypt, PackagePlaces, Accepted,
      Sealing
<1>3. CASE proc' = [proc EXCEPT ![p].pc = "age", ![p].encryption = "created"]
  <2>1. OnDisk("age", proc[p].payload, "created")
    BY <1>3, PackageAtPlace DEF Package!Encrypt, OnDisk, Accepted, Sealing
  <2> QED BY <1>3, <2>1, PackagePlaceInvariant DEF Package!Encrypt, PackagePlaces, Accepted,
      Sealing
<1> QED BY <1>1, <1>2, <1>3 DEF Package!Encrypt

LEMMA PackageReturnInvariant == ASSUME PackageInv, NEW p \in PackageProcs,
Package!Return(p) PROVE PackageInv'
<1>1. (OnDisk(Package!Idle.pc, Package!Idle.payload, Package!Idle.encryption))'
  BY DEF Package!Idle, OnDisk, Accepted, Sealing
<1>0. PICK x : x = [payload |-> proc[p].payload, encryption |-> proc[p].encryption] OBVIOUS
<1>2. ResultIsGood(x)'
  BY <1>0, PackageAtPlace DEF Package!Return, OnDisk, ResultIsGood, Releasable, Accepted,
     Sealing
<1>3. \A r \in results' : r \in results \/ ResultIsGood(r)'
  BY <1>0, <1>2 DEF Package!Return
<1> QED BY <1>1, <1>3, IdleIsPackager, NothingWritten, PackageMoveInvariant
    DEF Package!Return, Package!Throw, PackageInv, PackageTyped

\* A name that was free is taken, and the process goes on with it.
LEMMA PackageWriteInvariant ==
  ASSUME PackageInv, NEW p \in PackageProcs, NEW at \in Accepted, NEW f \in Package!Names,
         NEW next \in Accepted,
         Package!Write(p, at, f, next),
         << at, f, next >> \in {<<"zip", "zip", "fresh">>, <<"sum", "sum", "encrypt">>,
                               <<"age", "age", "ageSum">>, <<"ageSum", "ageSum", "return">>}
  PROVE  PackageInv'
<1>1. CASE Package!Throw(p) /\ UNCHANGED files BY <1>1, PackageThrowInvariant
      DEF Package!Write
<1>2. CASE Package!MayLink(f) /\ files' = [files EXCEPT ![f] = proc[p].payload]
      /\ Package!Goto(p, next)
  <2>0. PICK s, x : s = proc[p].payload /\ x = [proc[p] EXCEPT !.pc = next] OBVIOUS
  <2>1. /\ proc[p] \in Packagers /\ proc[p].pc = at /\ s \in Holdings
        /\ OnDisk(at, s, proc[p].encryption) /\ Releasable(s)
    BY <2>0, PackageAtPlace DEF Package!Write, OnDisk, Packagers
  <2>2. files' \in [Package!Names -> Holdings \cup {Package!Damaged}] /\ Keeps
    BY <1>2, <2>0, <2>1 DEF PackageInv, PackageTyped, Keeps, Package!MayLink, Package!Write
  <2>3. proc' = [proc EXCEPT ![p] = x]
    BY <1>2, <2>0 DEF Package!Goto, PackageInv, PackageTyped
  <2>4. x \in Packagers /\ x.pc = next /\ x.payload = s /\ x.encryption = proc[p].encryption
    BY <2>0, <2>1 DEF Packagers, PackagePlaces
  <2>5. files'[f] = s /\ \A g \in Package!Names : g # f => files'[g] = files[g]
    BY <1>2, <2>0 DEF PackageInv, PackageTyped
  <2>6. /\ SealIsGood /\ Releasable(s)'
        /\ \A z : Releasable(z) => Releasable(z)'
    BY <2>1 DEF PackageInv, Package!Write, Releasable, Package!Bound
  <2>7. SealIsGood'
    <3>1. CASE f = "sum"
      BY <2>1, <2>5, <2>6, <3>1 DEF SealIsGood, OnDisk, Package!Names
    <3>2. CASE f = "zip"
      BY <1>2, <2>1, <2>5, <2>6, <3>2, EmptyDomains DEF SealIsGood, Package!Names,
         Package!MayLink, Releasable
    <3>3. CASE f \in {"age", "ageSum"}
      BY <2>5, <2>6, <3>3 DEF SealIsGood, Package!Names
    <3> QED BY <3>1, <3>2, <3>3
  <2>8. (OnDisk(x.pc, x.payload, x.encryption))'
    BY <2>1, <2>4, <2>5, <2>6 DEF OnDisk, Accepted, Sealing, Package!Names
  <2> QED BY <2>2, <2>3, <2>4, <2>7, <2>8, PackageMoveInvariant DEF Package!Write, PackageInv,
      PackageTyped
<1> QED BY <1>1, <1>2 DEF Package!Write, Package!Archive

LEMMA DamageInvariant == ASSUME PackageInv, Package!Damage PROVE PackageInv'
<1>1. files' \in [Package!Names -> Holdings \cup {Package!Damaged}]
  BY DEF Package!Damage, PackageInv, PackageTyped
<1>2. Keeps /\ SealIsGood'
  BY DEF Package!Damage, PackageInv, PackageTyped, Keeps, SealIsGood, Package!Names,
     Releasable, Package!Bound
<1> QED BY <1>1, <1>2, PackageQuietInvariant DEF Package!Damage, PackageInv, PackageTyped

LEMMA CertifyInvariant == ASSUME PackageInv, Package!Certify PROVE PackageInv'
<1>1. certified \subseteq certified' /\ UNCHANGED files
  BY DEF Package!Certify
<1>2. Keeps /\ SealIsGood'
  BY <1>1 DEF PackageInv, Keeps, SealIsGood, Releasable, Package!Bound
<1> QED BY <1>2, PackageQuietInvariant DEF Package!Certify, PackageInv, PackageTyped

LEMMA EditInvariant == ASSUME PackageInv, Package!Edit PROVE PackageInv'
<1>1. staging' \in [Paths -> Artifacts]
  BY DEF Package!Edit, PackageInv, PackageTyped
<1> QED BY <1>1, NothingWritten, PackageQuietInvariant DEF Package!Edit

LEMMA PackageStepInvariant == ASSUME PackageInv,
[Package!Next]_(Package!vars) PROVE PackageInv'
<1> USE DEF Accepted, Sealing, Package!Names
<1>1. ASSUME NEW p \in PackageProcs, Package!WriteZip(p) \/ Package!WriteSum(p)
             \/ Package!WriteAge(p) \/ Package!WriteAgeSum(p)
      PROVE  PackageInv'
  BY <1>1, PackageWriteInvariant DEF Package!WriteZip, Package!WriteSum, Package!WriteAge,
     Package!WriteAgeSum
<1>2. ASSUME NEW p \in PackageProcs,
             Package!Collect(p) \/ Package!Create(p) \/ Package!Fresh(p)
             \/ Package!Encrypt(p) \/ Package!Return(p) \/ Package!Crash(p)
      PROVE  PackageInv'
  BY <1>2, CollectInvariant, PackageCreateInvariant, FreshInvariant, EncryptInvariant,
     PackageReturnInvariant,
     PackageThrowInvariant DEF Package!Crash
<1>3. CASE Package!Edit \/ Package!Certify \/ Package!Damage
  BY <1>3, EditInvariant, CertifyInvariant, DamageInvariant
<1>4. CASE UNCHANGED Package!vars
  BY <1>4, NothingWritten, PackageQuietInvariant DEF Package!vars, PackageInv, PackageTyped
<1> QED BY <1>1, <1>2, <1>3, <1>4 DEF Package!Next

\* The processes are where the code can be, and the output has its four names.
THEOREM PackageTypes == Package!Spec => []Package!TypeOK
<1>1. Package!Init => PackageInv BY PackageInitInvariant
<1>2. PackageInv /\ [Package!Next]_(Package!vars) => PackageInv' BY PackageStepInvariant
<1>3. PackageInv => Package!TypeOK
  BY DEF PackageInv, PackageTyped, Package!TypeOK, Packagers, PackagePlaces, Accepted, Sealing
<1> QED BY <1>1, <1>2, <1>3, PTL DEF Package!Spec

(***************************************************************************)
(* A detached digest is of a certified archive beside it that holds        *)
(* nothing which may not leave, and a returned package is the one on disk  *)
(* (createCustomerPackage): whatever is edited, damaged or cut short, and  *)
(* however many processes package at one name.                             *)
(***************************************************************************)
THEOREM SealedPackage == Package!Spec => []Package!PackageIsSealed
<1>1. Package!Init => PackageInv BY PackageInitInvariant
<1>2. PackageInv /\ [Package!Next]_(Package!vars) => PackageInv' BY PackageStepInvariant
<1>3. PackageInv => Package!PackageIsSealed
  BY DEF PackageInv, SealIsGood, Releasable, ResultIsGood, Package!PackageIsSealed
<1> QED BY <1>1, <1>2, <1>3, PTL DEF Package!Spec
=============================================================================
