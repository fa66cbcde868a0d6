---------------------------- MODULE CustomerPackage ----------------------------
(***************************************************************************)
(* packages/packaging: from staged artifacts to a customer package on disk.*)
(*                                                                         *)
(* The artifacts are read from the staging tree, certificates are issued   *)
(* for exactly these artifacts, and createCustomerPackage checks both      *)
(* before it writes the archive, has another process read it back, and     *)
(* seals it with a detached digest; an encrypted copy comes last.  The     *)
(* staging tree may be edited, another packaging process may be at the     *)
(* same name, a file may be damaged, and a process may end at any point.   *)
(***************************************************************************)
EXTENDS Naturals, FiniteSets

CONSTANTS
    Artifacts,  \* [content, kind, says, proof, reviewed, parent, indexed, clean]
    Paths, Procs,
    MaxEdits, MaxFaults, MaxCalls   \* bounds: edits, damage and crashes, packaging calls

VARIABLES
    staging,    \* path -> artifact
    certified,  \* the artifact sets with a certificate chain, and whether the panel issued it
    files,      \* the output directory
    proc,       \* the packaging processes
    results,    \* what they returned
    edits, faults, calls

vars == <<staging, certified, files, proc, results, edits, faults, calls>>

None == [path \in {} |-> 0]
Damaged == [path \in Paths |-> [content |-> "damaged"]]
Idle == [pc |-> "idle", payload |-> None, encryption |-> "not-requested"]
Names == {"zip", "sum", "age", "ageSum"}

(***************************************************************************)
(* What may enter a package.  The class of an artifact follows from the    *)
(* activity that made it, and what its evidence says of itself (marker,    *)
(* type, sensitivity, redaction) must be of that class.                    *)
(***************************************************************************)
Class ==
    [uncredentialed |-> "O0", secret |-> "O1", tainted |-> "O2", derivation |-> "O3",
     summary |-> "O4"]
Consistent(a) == a.says = Class[a.kind]

\* An O3 derivative: validated and reviewed as the bytes it is.
Derivative(a) == a.proof = a.content /\ a.reviewed

\* An O4 summary: reviewed, and of an O3 parent that was.
Summary(a) == a.reviewed /\ a.parent = "O3"

Unelevated(a) == a.proof = "none" /\ ~a.reviewed /\ a.parent = "none"

Eligible(a) ==
    /\ Consistent(a)
    /\ \/ Class[a.kind] = "O0" /\ Unelevated(a)
       \/ Class[a.kind] = "O3" /\ Derivative(a)
       \/ Class[a.kind] = "O4" /\ Summary(a)

\* The occurrences and reviews it names are those of the packaged index.
Indexed(s) == \A path \in Paths : s[path].indexed

\* No secret, host path, placeholder or claim of compliance in the bytes.
Clean(s) == \A path \in Paths : s[path].clean

Packageable(s) == (\A path \in Paths : Eligible(s[path])) /\ Indexed(s) /\ Clean(s)

TypeOK ==
    /\ staging \in [Paths -> Artifacts] /\ DOMAIN files = Names
    /\ \A p \in Procs : proc[p].pc \in {"idle", "read", "zip", "fresh", "sum", "encrypt", "age",
                                        "ageSum", "return"}

Init ==
    /\ staging \in [Paths -> {a \in Artifacts : Class[a.kind] = "O0"}] /\ certified = {}
    /\ files = [f \in Names |-> None] /\ proc = [p \in Procs |-> Idle] /\ results = {}
    /\ edits = 0 /\ faults = 0 /\ calls = 0

Goto(p, pc) == proc' = [proc EXCEPT ![p].pc = pc]
Throw(p) == proc' = [proc EXCEPT ![p] = Idle]

Edit ==
    /\ edits < MaxEdits /\ edits' = edits + 1
    /\ \E path \in Paths, a \in Artifacts : staging' = [staging EXCEPT ![path] = a]
    /\ UNCHANGED <<certified, files, proc, results, faults, calls>>

(***************************************************************************)
(* buildPackageReleasePrerequisites: the chain binds the digest of the     *)
(* artifacts, each found eligible; its third certificate may lack the      *)
(* review panel.                                                           *)
(***************************************************************************)
Certify ==
    /\ \A path \in Paths : Eligible(staging[path])
    /\ \E panel \in BOOLEAN : certified' = certified \cup {[of |-> staging, panel |-> panel]}
    /\ UNCHANGED <<staging, files, proc, results, edits, faults, calls>>

(***************************************************************************)
(* collectStagingArtifacts: file by file; the tree may be edited between   *)
(* two of them.                                                            *)
(***************************************************************************)
Collect(p) ==
    /\ \/ proc[p] = Idle /\ calls < MaxCalls /\ calls' = calls + 1
       \/ proc[p].pc = "read" /\ UNCHANGED calls
    /\ \E path \in Paths \ DOMAIN proc[p].payload :
          proc' = [proc EXCEPT ![p].pc = "read",
                               ![p].payload = [x \in DOMAIN @ \cup {path} |->
                                                   IF x = path THEN staging[path] ELSE @[x]]]
    /\ UNCHANGED <<staging, certified, files, results, edits, faults>>

(***************************************************************************)
(* createCustomerPackage up to the archive in memory, which is reopened    *)
(* and validated once more.  The certificates bind these artifacts, and    *)
(* the third was issued by the panel.                                      *)
(***************************************************************************)
Bound(s) == [of |-> s, panel |-> TRUE] \in certified

\* The frozen inventory: nothing missing, nothing else.
Complete(s) == DOMAIN s = Paths

Create(p) ==
    /\ proc[p].pc = "read" /\ Complete(proc[p].payload)
    /\ IF Bound(proc[p].payload) /\ Packageable(proc[p].payload) THEN Goto(p, "zip") ELSE Throw(p)
    /\ UNCHANGED <<staging, certified, files, results, edits, faults, calls>>

\* Mutant: the temporary file is renamed onto the name.
MayLinkOver(f) == TRUE

\* atomicWrite: the temporary file is linked to a name that must be free.
MayLink(f) == files[f] = None

\* An archive is a function of what it holds; so is its manifest.
Archive(s) == s

Write(p, pc, f, next) ==
    /\ proc[p].pc = pc
    /\ IF MayLink(f) THEN files' = [files EXCEPT ![f] = Archive(proc[p].payload)] /\ Goto(p, next)
       ELSE Throw(p) /\ UNCHANGED files
    /\ UNCHANGED <<staging, certified, results, edits, faults, calls>>

WriteZip(p) == Write(p, "zip", "zip", "fresh")
WriteSum(p) == Write(p, "sum", "sum", "encrypt")
WriteAge(p) == Write(p, "age", "age", "ageSum")
WriteAgeSum(p) == Write(p, "ageSum", "ageSum", "return")

\* A reopened archive has its manifest and checksums and what they list, and is content-checked.
Reopens(f) == files[f] # Damaged

\* The archive on disk is validated by a process of its own, and must be the one created.
Fresh(p) ==
    /\ proc[p].pc = "fresh"
    /\ \E inTime \in BOOLEAN :
          IF inTime /\ Reopens("zip") /\ files["zip"] = Archive(proc[p].payload) THEN Goto(p, "sum") ELSE Throw(p)
    /\ UNCHANGED <<staging, certified, files, results, edits, faults, calls>>

(***************************************************************************)
(* The encryption, when it is asked for.  Without a trusted provider the   *)
(* package goes without; a provider that fails, or recovers other bytes,   *)
(* ends the call with the sealed archive in place.                         *)
(***************************************************************************)
Encrypt(p) ==
    /\ proc[p].pc = "encrypt"
    /\ \/ \E e \in {"not-requested", "unavailable"} :
             proc' = [proc EXCEPT ![p].pc = "return", ![p].encryption = e]
       \/ proc' = [proc EXCEPT ![p].pc = "age", ![p].encryption = "created"]
       \/ Throw(p)
    /\ UNCHANGED <<staging, certified, files, results, edits, faults, calls>>

Return(p) ==
    /\ proc[p].pc = "return"
    /\ results' = results \cup {[payload |-> proc[p].payload, encryption |-> proc[p].encryption]}
    /\ Throw(p)
    /\ UNCHANGED <<staging, certified, files, edits, faults, calls>>

Crash(p) ==
    /\ proc[p] # Idle /\ faults < MaxFaults /\ faults' = faults + 1
    /\ Throw(p) /\ UNCHANGED <<staging, certified, files, results, edits, calls>>

Damage ==
    /\ files["zip"] # None /\ faults < MaxFaults /\ faults' = faults + 1
    /\ files' = [files EXCEPT !["zip"] = Damaged]
    /\ UNCHANGED <<staging, certified, proc, results, edits, calls>>

Next ==
    \/ Edit \/ Certify \/ Damage
    \/ \E p \in Procs : Collect(p) \/ Create(p) \/ WriteZip(p) \/ Fresh(p) \/ WriteSum(p)
                        \/ Encrypt(p) \/ WriteAge(p) \/ WriteAgeSum(p) \/ Return(p) \/ Crash(p)

Spec == Init /\ [][Next]_vars

(***************************************************************************)
(* A detached digest is of the archive beside it, unless that was damaged; *)
(* what it seals was certified with the panel's reviews and holds nothing  *)
(* that may not leave.  A returned package is the one on disk, and its     *)
(* encrypted copy recovers it.                                             *)
(***************************************************************************)
PackageIsSealed ==
    /\ files["sum"] # None =>
          /\ files["zip"] \in {files["sum"], Damaged}
          /\ Bound(files["sum"]) /\ Packageable(files["sum"])
    /\ \A r \in results :
          /\ files["sum"] = r.payload
          /\ r.encryption = "created" => files["age"] = r.payload /\ files["ageSum"] = r.payload
=============================================================================
