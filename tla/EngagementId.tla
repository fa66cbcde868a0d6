------------------------------ MODULE EngagementId ------------------------------
(***************************************************************************)
(* scripts/engagement-id.mjs: the launchers of both providers name their   *)
(* volumes after the id in .rak_id, which the first of them creates.       *)
(* Several may be started at once, and one may die between the creation of *)
(* the file and the writing of the id.                                     *)
(***************************************************************************)
EXTENDS Naturals

CONSTANTS
    Launches,   \* launchers; each may generate an id, named after it
    IdAttempts  \* how often an id is looked for (3)

VARIABLES
    file,       \* .rak_id: who created it and what it says
    launch,     \* launcher -> [pc, attempt]
    used,       \* history: the ids that volumes were named after
    removed     \* history: has the operator removed the file

vars == <<file, launch, used, removed>>

Absent == [by |-> "none", text |-> "absent"]

TypeOK ==
    /\ file.text \in {"absent", "empty"} \cup Launches /\ used \subseteq Launches \cup {"null"}
    /\ \A l \in Launches : launch[l].attempt \in 0..IdAttempts

Init ==
    /\ file = Absent /\ used = {} /\ removed = FALSE
    /\ launch = [l \in Launches |-> [pc |-> "idle", attempt |-> 0]]

At(l, pc) == launch[l].pc = pc
Goto(l, pc) == launch' = [launch EXCEPT ![l].pc = pc]

\* A launcher is started; RAK_ENGAGEMENT_ID, if it is set, replaces all of this.
Launch(l) == At(l, "idle") /\ Goto(l, "look") /\ UNCHANGED <<file, used, removed>>

\* readExisting, first lstat: an empty file is refused at once.
Look(l) ==
    /\ At(l, "look")
    /\ Goto(l, IF file = Absent THEN "create" ELSE IF file.text = "empty" THEN "failed"
               ELSE "read")
    /\ UNCHANGED <<file, used, removed>>

\* Then the text, unless the file has gone.
Read(l) ==
    /\ At(l, "read")
    /\ IF file.text \in Launches
         THEN used' = used \cup {file.text} /\ Goto(l, "done")
         ELSE Goto(l, "failed") /\ UNCHANGED used
    /\ UNCHANGED <<file, removed>>

\* Mutant of MayCreate: the file is opened with "w".
MayOverwrite == TRUE

\* The file is opened with "wx".
MayCreate == file = Absent

Create(l) ==
    /\ At(l, "create")
    /\ IF MayCreate
         THEN file' = [by |-> l, text |-> "empty"] /\ Goto(l, "write")
         ELSE /\ launch' = [launch EXCEPT ![l].attempt = @ + 1,
                     ![l].pc = IF launch[l].attempt + 1 < IdAttempts THEN "look" ELSE "failed"]
              /\ UNCHANGED file
    /\ UNCHANGED <<used, removed>>

\* The id goes to the file that was opened, whatever the name means by now.
WriteId(l) ==
    /\ At(l, "write") /\ Goto(l, "check")
    /\ file' = IF file.by = l THEN [file EXCEPT !.text = l] ELSE file
    /\ UNCHANGED <<used, removed>>

\* What was written is read back; a file that has gone by then makes the id "null".
Check(l) ==
    /\ At(l, "check")
    /\ IF file = Absent THEN used' = used \cup {"null"} /\ Goto(l, "done")
       ELSE UNCHANGED used /\ Goto(l, IF file.text = "empty" THEN "failed" ELSE "read")
    /\ UNCHANGED <<file, removed>>

Die(l) ==
    /\ ~ At(l, "idle") /\ ~ At(l, "done") /\ Goto(l, "failed")
    /\ UNCHANGED <<file, used, removed>>

\* A launcher that failed or ended is started again.
Again(l) ==
    /\ launch[l].pc \in {"failed", "done"}
    /\ launch' = [launch EXCEPT ![l] = [pc |-> "look", attempt |-> 0]]
    /\ UNCHANGED <<file, used, removed>>

\* The operator removes the file, the only way out when it was left empty.
Remove ==
    /\ file # Absent /\ ~ removed
    /\ file' = Absent /\ removed' = TRUE /\ UNCHANGED <<launch, used>>

Next ==
    \/ \E l \in Launches :
        \/ Launch(l) \/ Look(l) \/ Read(l) \/ Create(l) \/ WriteId(l) \/ Check(l) \/ Die(l)
        \/ Again(l)
    \/ Remove

Spec == Init /\ [][Next]_vars

\* Unless the operator removes the file, every launcher that gets an id gets the same one,
\* whoever created it and whoever died, and it is the one in the file (resolveEngagementId).
EngagementIsOne == ~ removed => used \subseteq {file.text}
=============================================================================
