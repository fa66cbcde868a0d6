------------------------------ MODULE PublicRelease ------------------------------
(***************************************************************************)
(* scripts/public-release-transition.mjs: from two terminal provider runs  *)
(* to a customer release.  A command is one process:                       *)
(*                                                                         *)
(*   pair        admits the cross-provider reviews, runs them, builds the  *)
(*               successor package and reconciles it;                      *)
(*   review k    admits one signed human review;                           *)
(*   authorize   admits the signed final authorization;                    *)
(*   release     publishes the customer release certificate.               *)
(*                                                                         *)
(* The pair journal is replaced by one rename.  Every other file is        *)
(* created exclusively and then filled, so a process that dies in between  *)
(* leaves it torn.  The commands of a pair exclude each other through      *)
(* .transition.lock; pair reads the journal before it takes the lock, the  *)
(* others after it.                                                        *)
(*                                                                         *)
(* A refused command changes nothing: a check that fails disables the      *)
(* action before the lock, or gives the lock back after it.  Records and   *)
(* certificates are authentic and bound to the pair; what changes is       *)
(* whether their time windows are open.                                    *)
(***************************************************************************)
EXTENDS Integers, Sequences, FiniteSets

CONSTANTS
    Procs,       \* process identifiers, positive numbers
    Kinds,       \* HUMAN_REVIEW_KINDS
    NTasks,      \* cross-reviews of a pair
    MaxCalls,    \* bound: commands started
    MaxFaults    \* bound: kinds of fault in a behaviour, each at most once

Tasks == 1..NTasks
Calls == 1..MaxCalls

\* Content of a file: absent, created and not filled, or filled with c.
Absent == 0
Torn == 1
Whole(c) == 2 + c

FileNames ==
    {<<"index">>, <<"zip">>, <<"authorization">>, <<"release">>}
        \cup ({"review"} \X Kinds) \cup ({"task", "proposal"} \X Tasks \X Calls)

VARIABLES
    pair,     \* provider-pair-state.json of the pair the index names
    files,    \* the other files of the pair, by name
    lock,     \* .transition.lock: who created it, is its pid written
    aged,     \* is the lock older than five seconds (told for unsigned ones)
    proc,     \* the processes: program counter, command, copy of the journal
    calls,    \* commands started
    faults    \* the faults that have happened

vars == <<pair, files, lock, aged, proc, calls, faults>>

NoLock == [by |-> 0, signed |-> FALSE]
PairStates == {"PAIRING", "DRAFT_VALIDATED_RELEASE_BLOCKED",
               "CUSTOMER_RELEASE_PREPARED", "CUSTOMER_RELEASE_AUTHORIZED"}
Blockers == Kinds \cup {"CROSS_PROVIDER_REVIEW_REQUIRED",
                        "CROSS_PROVIDER_OUTCOME_MISMATCH",
                        "FINAL_AUTHORIZATION_REQUIRED",
                        "CUSTOMER_RELEASE_REVALIDATION_REQUIRED"}

\* The journal of a new pair.
Fresh ==
    [state    |-> "PAIRING",
     tasks    |-> [t \in Tasks |-> [nonce |-> 0, completed |-> FALSE]],
     zip      |-> Absent,
     reviews  |-> {},
     auth     |-> FALSE,
     pending  |-> "none",
     issuedAt |-> 0,
     cleanup  |-> "pending",
     blockers |-> {"CROSS_PROVIDER_REVIEW_REQUIRED"}]

Idle == [pc |-> "idle", verb |-> "none", kind |-> "none", now |-> 0, task |-> 0,
         retry |-> FALSE, filling |-> FALSE, doc |-> Fresh]

Pc(p) == proc[p].pc
Doc(p) == proc[p].doc
Alive(p) == Pc(p) # "dead"
To(p, pc) == proc' = [proc EXCEPT ![p].pc = pc]
Ended(p) == proc' = [proc EXCEPT ![p] = Idle]

Finally(p) == proc' = [proc EXCEPT ![p] = [Idle EXCEPT !.pc = "unlock"]]

\* atomicPairWrite: the journal becomes the copy, and the process goes on.
Save(p, doc, pc) ==
    /\ pair' = doc
    /\ proc' = [proc EXCEPT ![p].pc = pc, ![p].doc = doc]
SaveLast(p, doc) == pair' = doc /\ Finally(p)

pairVars == <<pair, files>>
lockVars == <<lock, aged>>
worldVars == <<calls, faults>>
-----------------------------------------------------------------------------
(* Starting a command. *)

\* Both runs are terminal, receipted drafts that have not drifted.
Eligible == "drift" \notin faults

Begun(p, verb, kind, doc, pc) ==
    /\ Pc(p) = "idle" /\ calls < MaxCalls
    /\ calls' = calls + 1
    /\ proc' = [proc EXCEPT ![p] =
            [Idle EXCEPT !.verb = verb, !.kind = kind, !.doc = doc, !.pc = pc,
                         !.now = calls + 1, !.task = 1]]
    /\ UNCHANGED <<pairVars, lockVars, faults>>

\* A new pair, or one that was left while PAIRING.  The journal is read here.
StartPair(p) ==
    /\ Eligible
    /\ \/ files[<<"index">>] = Absent /\ Begun(p, "pair", "none", Fresh, "index")
       \/ /\ files[<<"index">>] = Whole(0)
          /\ pair.state = "PAIRING"
          /\ Begun(p, "pair", "none", pair, "lock")

StartOther(p, verb, kind) ==
    /\ files[<<"index">>] = Whole(0)
    /\ Begun(p, verb, kind, Fresh, "lock")

Start(p) ==
    \/ StartPair(p)
    \/ \E k \in Kinds : StartOther(p, "review", k)
    \/ \E verb \in {"authorize", "release"} : StartOther(p, verb, "none")
-----------------------------------------------------------------------------
(* withPairLock. *)

TakeLock(p) ==
    /\ Pc(p) = "lock" /\ lock = NoLock
    /\ lock' = [by |-> p, signed |-> FALSE] /\ aged' = FALSE
    /\ To(p, "sign")
    /\ UNCHANGED <<pairVars, worldVars>>

\* The pid goes into the file the process created, which may be gone.
SignLock(p) ==
    /\ Pc(p) = "sign"
    /\ IF lock.by = p THEN lock' = [lock EXCEPT !.signed = TRUE] ELSE UNCHANGED lock
    /\ aged' = FALSE
    /\ To(p, "held")
    /\ UNCHANGED <<pairVars, worldVars>>

OwnerAliveWithoutGrace == lock.signed /\ Alive(lock.by)
OwnerAlive == IF lock.signed THEN Alive(lock.by) ELSE ~aged

\* The lock exists: a live owner, or a second attempt, ends the command.
JudgeLock(p) ==
    /\ Pc(p) = "lock" /\ lock # NoLock
    /\ IF OwnerAlive \/ proc[p].retry THEN Ended(p) ELSE To(p, "steal")
    /\ UNCHANGED <<pairVars, lockVars, worldVars>>

\* unlink by name, of whatever is there by now.
StealLock(p) ==
    /\ Pc(p) = "steal"
    /\ IF lock = NoLock
       THEN Ended(p)
       ELSE proc' = [proc EXCEPT ![p].pc = "lock", ![p].retry = TRUE]
    /\ lock' = NoLock /\ aged' = FALSE
    /\ UNCHANGED <<pairVars, worldVars>>

\* The finally block, reached on success and on every error under the lock.
Unlock(p) ==
    /\ Pc(p) = "unlock"
    /\ lock' = NoLock /\ aged' = FALSE
    /\ Ended(p)
    /\ UNCHANGED <<pairVars, worldVars>>
-----------------------------------------------------------------------------
(* Files created exclusively: exclusiveFsyncWrite, atomicExclusiveWrite.     *)

FilePcs == {"index", "taskfile", "proposal", "zip", "sidecar", "certificate"}

Target(p) ==
    LET d == Doc(p)  t == proc[p].task IN
    CASE Pc(p) = "taskfile" -> <<"task", t, d.tasks[t].nonce>>
      [] Pc(p) = "proposal" -> <<"proposal", t, d.tasks[t].nonce>>
      [] Pc(p) = "sidecar" ->
            IF proc[p].verb = "review" THEN <<"review", proc[p].kind>> ELSE <<"authorization">>
      [] Pc(p) = "certificate" -> <<"release">>
      [] OTHER -> <<Pc(p)>>

\* What it is filled with: the certificate carries its issue time, the package
\* the outcome of the reconciliation (1 when the providers are equivalent).
Contents(p) ==
    CASE Pc(p) = "certificate" -> {Doc(p).issuedAt}
      [] Pc(p) = "zip" -> {0, 1}
      [] OTHER -> {0}

After(p) ==
    CASE Pc(p) = "index" -> "lock"
      [] Pc(p) = "taskfile" -> IF Doc(p).tasks[proc[p].task].completed THEN "reread" ELSE "execute"
      [] Pc(p) = "proposal" -> "complete"
      [] Pc(p) = "zip" -> "reconcile"
      [] Pc(p) = "sidecar" -> "admit"
      [] Pc(p) = "certificate" -> "finish"

CreateFile(p) ==
    /\ Pc(p) \in FilePcs /\ ~proc[p].filling /\ files[Target(p)] = Absent
    /\ files' = [files EXCEPT ![Target(p)] = Torn]
    /\ proc' = [proc EXCEPT ![p].filling = TRUE]
    /\ UNCHANGED <<pair, lockVars, worldVars>>

\* Filling the index makes the journal its creator wrote the pair's.
FillFile(p) ==
    /\ Pc(p) \in FilePcs /\ proc[p].filling
    /\ \E c \in Contents(p) : files' = [files EXCEPT ![Target(p)] = Whole(c)]
    /\ pair' = IF Pc(p) = "index" THEN Doc(p) ELSE pair
    /\ proc' = [proc EXCEPT ![p].filling = FALSE, ![p].pc = After(p)]
    /\ UNCHANGED <<lockVars, worldVars>>

\* The file is there: its content must be what this command would write.
FoundFile(p) ==
    /\ Pc(p) \in FilePcs /\ ~proc[p].filling /\ files[Target(p)] # Absent
    /\ IF Pc(p) # "index" /\ \E c \in Contents(p) : files[Target(p)] = Whole(c)
       THEN To(p, After(p))
       ELSE IF Pc(p) = "index" THEN Ended(p) ELSE Finally(p)
    /\ UNCHANGED <<pairVars, lockVars, worldVars>>
-----------------------------------------------------------------------------
(* pair, under the lock, with the copy of the journal it started from.       *)

\* createCrossReviews: the next task, admitted under this command's nonce when
\* the copy has no entry for it.
NextTask(p) ==
    /\ Pc(p) \in {"held", "task"} /\ proc[p].verb = "pair"
    /\ LET t == proc[p].task  d == Doc(p) IN
       IF t > NTasks THEN To(p, "zip") /\ UNCHANGED pair
       ELSE IF d.tasks[t].nonce # 0 THEN To(p, "taskfile") /\ UNCHANGED pair
       ELSE Save(p, [d EXCEPT !.tasks[t].nonce = proc[p].now], "taskfile")
    /\ UNCHANGED <<files, lockVars, worldVars>>

\* A completed task is read back.
RereadReview(p) ==
    /\ Pc(p) = "reread"
    /\ IF files[<<"proposal", proc[p].task, Doc(p).tasks[proc[p].task].nonce>>] = Whole(0)
       THEN proc' = [proc EXCEPT ![p].pc = "task", ![p].task = @ + 1]
       ELSE Finally(p)
    /\ UNCHANGED <<pairVars, lockVars, worldVars>>

\* runReview returned a bound proposal; the entry is COMPLETED in memory only.
RunReview(p) ==
    /\ Pc(p) = "execute"
    /\ proc' = [proc EXCEPT ![p].pc = "proposal",
                            ![p].doc.tasks[proc[p].task].completed = TRUE]
    /\ UNCHANGED <<pairVars, lockVars, worldVars>>

CompleteReview(p) ==
    /\ Pc(p) = "complete"
    /\ pair' = Doc(p)
    /\ proc' = [proc EXCEPT ![p].pc = "task", ![p].task = @ + 1]
    /\ UNCHANGED <<files, lockVars, worldVars>>

\* The providers disagree: blocked for good, cleanup stays pending.
Mismatched(doc) ==
    [doc EXCEPT !.state = "DRAFT_VALIDATED_RELEASE_BLOCKED",
                !.blockers = {"CROSS_PROVIDER_OUTCOME_MISMATCH"}, !.zip = Whole(0)]

Reconciled(doc) ==
    [doc EXCEPT !.state = "DRAFT_VALIDATED_RELEASE_BLOCKED", !.blockers = Kinds,
                !.cleanup = "verified", !.zip = Whole(1)]

Reconcile(p) ==
    /\ Pc(p) = "reconcile"
    /\ SaveLast(p, IF files[<<"zip">>] = Whole(1) THEN Reconciled(Doc(p)) ELSE Mismatched(Doc(p)))
    /\ UNCHANGED <<files, lockVars, worldVars>>
-----------------------------------------------------------------------------
(* review, authorize and release read the journal again under the lock.      *)

\* The time windows of the signed records are over.
Expired == "expiry" \in faults

\* Signed reviews are current and bind the pair's successor.
ReviewsValid(doc) == ~Expired /\ doc.zip # Absent

\* The certificate set is bound to the configured subjects and to the two
\* cleanup receipts, which exist once cleanup is verified.
CertificatesBind(doc) == ~Expired /\ doc.cleanup = "verified"

SubjectVerb(p) == IF proc[p].verb = "review" THEN proc[p].kind ELSE "authorize"
Subject(p) == IF proc[p].verb = "review" THEN proc[p].kind ELSE "authorization"

MayReview(doc, k) ==
    /\ doc.state = "DRAFT_VALIDATED_RELEASE_BLOCKED" /\ ~doc.auth
    /\ ReviewsValid(doc) /\ k \notin doc.reviews

AuthorizationValid(doc) == ReviewsValid(doc) /\ CertificatesBind(doc)

\* Mutant: the reviews there are are validated, whichever are there.
ReviewedSoFar(doc) == \A k \in doc.reviews : files[<<"review", k>>] = Whole(0)

AllReviewed(doc) ==
    doc.reviews = Kinds /\ \A k \in Kinds : files[<<"review", k>>] = Whole(0)

MayAuthorize(doc) ==
    ~doc.auth /\ AllReviewed(doc) /\ AuthorizationValid(doc)

\* Fresh validation of everything the release rests on.
MayRelease(doc) ==
    /\ doc.state # "CUSTOMER_RELEASE_AUTHORIZED" /\ doc.auth
    /\ Eligible /\ AllReviewed(doc)
    /\ files[<<"authorization">>] = Whole(0) /\ AuthorizationValid(doc)
    /\ files[<<"zip">>] = doc.zip /\ doc.cleanup = "verified"
    /\ \/ doc.blockers \subseteq {"CUSTOMER_RELEASE_REVALIDATION_REQUIRED"}
       \/ doc.state = "CUSTOMER_RELEASE_PREPARED"

Read(p, pc) == proc' = [proc EXCEPT ![p].pc = pc, ![p].doc = pair]

LoadRecordTrusting(p) ==
    /\ Pc(p) = "held" /\ proc[p].verb \in {"review", "authorize"}
    /\ LET may == IF proc[p].verb = "review" THEN MayReview(pair, proc[p].kind)
                                             ELSE MayAuthorize(pair) IN
       CASE may /\ pair.pending = "none" -> Read(p, "prepare")
         [] may /\ pair.pending = Subject(p) -> Read(p, "admit")
         [] OTHER -> Finally(p)
    /\ UNCHANGED <<pairVars, lockVars, worldVars>>

\* A record whose admission is prepared goes on; a different one is refused.
LoadRecord(p) ==
    /\ Pc(p) = "held" /\ proc[p].verb \in {"review", "authorize"}
    /\ LET may == IF proc[p].verb = "review" THEN MayReview(pair, proc[p].kind)
                                             ELSE MayAuthorize(pair) IN
       CASE may /\ pair.pending = "none" -> Read(p, "prepare")
         [] may /\ pair.pending = Subject(p) -> Read(p, "sidecar")
         [] OTHER -> Finally(p)
    /\ UNCHANGED <<pairVars, lockVars, worldVars>>

PrepareRecord(p) ==
    /\ Pc(p) = "prepare"
    /\ Save(p, [Doc(p) EXCEPT !.pending = Subject(p)], "sidecar")
    /\ UNCHANGED <<files, lockVars, worldVars>>

WithReview(doc, k) ==
    LET left == Kinds \ (doc.reviews \cup {k}) IN
    [doc EXCEPT !.reviews = @ \cup {k}, !.pending = "none",
                !.blockers = IF left = {} THEN {"FINAL_AUTHORIZATION_REQUIRED"} ELSE left]

WithAuthorization(doc) ==
    [doc EXCEPT !.auth = TRUE, !.pending = "none",
                !.blockers = {"CUSTOMER_RELEASE_REVALIDATION_REQUIRED"}]

AdmitRecord(p) ==
    /\ Pc(p) = "admit"
    /\ SaveLast(p, IF proc[p].verb = "review" THEN WithReview(Doc(p), proc[p].kind)
                                          ELSE WithAuthorization(Doc(p)))
    /\ UNCHANGED <<files, lockVars, worldVars>>

\* A prepared release keeps its issue time and so its certificate.
LoadRelease(p) ==
    /\ Pc(p) = "held" /\ proc[p].verb = "release"
    /\ CASE MayRelease(pair) /\ pair.state # "CUSTOMER_RELEASE_PREPARED" -> Read(p, "publish")
         [] MayRelease(pair) /\ pair.state = "CUSTOMER_RELEASE_PREPARED" -> Read(p, "certificate")
         [] OTHER -> Finally(p)
    /\ UNCHANGED <<pairVars, lockVars, worldVars>>

PrepareRelease(p) ==
    /\ Pc(p) = "publish"
    /\ Save(p, [Doc(p) EXCEPT !.state = "CUSTOMER_RELEASE_PREPARED", !.blockers = {},
                              !.issuedAt = proc[p].now], "certificate")
    /\ UNCHANGED <<files, lockVars, worldVars>>

FinishRelease(p) ==
    /\ Pc(p) = "finish"
    /\ SaveLast(p, [Doc(p) EXCEPT !.state = "CUSTOMER_RELEASE_AUTHORIZED", !.blockers = {},
                              !.issuedAt = 0])
    /\ UNCHANGED <<files, lockVars, worldVars>>
-----------------------------------------------------------------------------
(* Faults and the passage of time. *)

LockedPcs == {"held", "task", "taskfile", "reread", "execute", "proposal", "complete", "zip",
              "reconcile", "prepare", "sidecar", "admit", "publish", "certificate", "finish"}

Fault(f) ==
    /\ f \notin faults /\ Cardinality(faults) < MaxFaults
    /\ faults' = faults \cup {f}
    /\ UNCHANGED <<pairVars, lock, calls>>

\* An error under the lock; an unfilled file stays torn.
Throw(p) ==
    /\ Pc(p) \in LockedPcs /\ Fault("error")
    /\ proc' = [proc EXCEPT ![p] = [Idle EXCEPT !.pc = "unlock"]]
    /\ UNCHANGED aged

Crash(p) ==
    /\ Pc(p) \notin {"idle", "dead"} /\ Fault("crash")
    /\ proc' = [proc EXCEPT ![p] = [Idle EXCEPT !.pc = "dead"]]
    /\ UNCHANGED aged

\* Five seconds pass before the pid is in the lock.
AgeLock ==
    /\ lock # NoLock /\ ~lock.signed /\ Fault("age")
    /\ aged' = TRUE
    /\ UNCHANGED proc

\* A signed record expires, a verified file of a run changes.
Expire == Fault("expiry") /\ UNCHANGED <<aged, proc>>
Drift == Fault("drift") /\ UNCHANGED <<aged, proc>>
-----------------------------------------------------------------------------
Init ==
    /\ pair = Fresh
    /\ files = [f \in FileNames |-> Absent]
    /\ lock = NoLock /\ aged = FALSE
    /\ proc = [p \in Procs |-> Idle]
    /\ calls = 0 /\ faults = {}

Next ==
    \/ \E p \in Procs :
        \/ Start(p) \/ TakeLock(p) \/ SignLock(p) \/ JudgeLock(p) \/ StealLock(p) \/ Unlock(p)
        \/ CreateFile(p) \/ FillFile(p) \/ FoundFile(p)
        \/ NextTask(p) \/ RereadReview(p) \/ RunReview(p) \/ CompleteReview(p) \/ Reconcile(p)
        \/ LoadRecord(p) \/ PrepareRecord(p) \/ AdmitRecord(p)
        \/ LoadRelease(p) \/ PrepareRelease(p) \/ FinishRelease(p)
        \/ Throw(p) \/ Crash(p)
    \/ AgeLock \/ Expire \/ Drift

Spec == Init /\ [][Next]_vars
-----------------------------------------------------------------------------
(* Properties. *)

Document ==
    [state : PairStates, tasks : [Tasks -> [nonce : 0..MaxCalls, completed : BOOLEAN]],
     zip : {Absent, Whole(0), Whole(1)}, reviews : SUBSET Kinds, auth : BOOLEAN,
     pending : Kinds \cup {"none", "authorization"}, issuedAt : 0..MaxCalls,
     cleanup : {"pending", "verified"}, blockers : SUBSET Blockers]

\* The journal, the files and the processes keep their shape.
TypeOK ==
    /\ pair \in Document
    /\ files \in [FileNames -> 0..(2 + MaxCalls)]
    /\ lock \in [by : Procs \cup {0}, signed : BOOLEAN]
    /\ aged \in BOOLEAN /\ faults \subseteq {"error", "crash", "age", "expiry", "drift"}
    /\ \A p \in Procs : /\ Doc(p) \in Document
                        /\ Pc(p) \in LockedPcs \cup {"idle", "dead", "index", "lock", "sign",
                                                     "steal", "unlock"}
                        /\ proc[p].now \in 0..MaxCalls /\ proc[p].task \in 0..(NTasks + 1)
    /\ calls \in 0..MaxCalls

\* A customer release certificate exists only for a package whose providers
\* were found equivalent, with every review and the authorization on disk:
\* also when a mismatched pair went through review, whose blockers it lost.
CertificateIsEarned ==
    files[<<"release">>] > Torn =>
        /\ files[<<"zip">>] = Whole(1)
        /\ \A k \in Kinds : files[<<"review", k>>] = Whole(0)
        /\ files[<<"authorization">>] = Whole(0)

\* What the journal calls admitted or published is on disk, whole, whichever
\* process died where.
AdmittedIsWritten ==
    /\ \A k \in pair.reviews : files[<<"review", k>>] = Whole(0)
    /\ pair.auth => files[<<"authorization">>] = Whole(0)
    /\ pair.state = "CUSTOMER_RELEASE_AUTHORIZED" => files[<<"release">>] > Torn
    /\ \A t \in Tasks : pair.tasks[t].completed =>
            files[<<"proposal", t, pair.tasks[t].nonce>>] = Whole(0)

\* While no process has died and none was slow to sign its lock, one command
\* at a time works on the pair.
Holders == {p \in Procs : Pc(p) \in LockedPcs /\ Pc(p) # "index"}
OneHolder == faults \cap {"crash", "age"} = {} => \A p, q \in Holders : p = q

\* A published release is final: the transition is one-use.
ReleaseIsFinal ==
    [][pair.state = "CUSTOMER_RELEASE_AUTHORIZED"
        => pair'.state = "CUSTOMER_RELEASE_AUTHORIZED"]_vars
=============================================================================
