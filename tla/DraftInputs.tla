------------------------------ MODULE DraftInputs ------------------------------
(***************************************************************************)
(* apps/server: the approvals, capabilities and secrets of one run, and    *)
(* the session that may change them.  Handles, approvals and capabilities  *)
(* are rows of the database; sessions, upload tokens, the values of the    *)
(* secrets and the timers that erase them are memory, and a restart loses  *)
(* them.  An upload is authorised by its token alone, whatever became of   *)
(* the run since the token was given out.                                  *)
(***************************************************************************)
EXTENDS Naturals

CONSTANTS
    Handles, Choices,        \* ids of secrets; approvals [capability, approved, expires]
    Capabilities, Attested,  \* the run's capabilities, and those whose attestation passed
    TokenLife, TimerMaximum, \* of an upload token (5 minutes), of a timer (2^31 - 1 ms)
    MaxTime, MaxRow, MaxRestarts     \* bounds: the clock, accepted requests, restarts

VARIABLES
    now, restarts,
    run,         \* [state, row]
    approvals,   \* the current ones
    shown,       \* capability -> what the run says of it
    handles,     \* handle -> its row
    tokens,      \* upload tokens: [handle, until, erase]
    values,      \* handles whose value is in memory
    timers,      \* [handle, at]
    session      \* "unused", "open" or "closed": the bootstrap token and its cookie

vars == <<now, restarts, run, approvals, shown, handles, tokens, values, timers, session>>
database == <<run, approvals, shown, handles>>
memory == <<tokens, values, timers>>

Absent == [state |-> "absent", expires |-> 0]
Live(h) == handles[h].state \in {"AWAITING_UPLOAD", "UPLOADED"}
Minimum(a, b) == IF a < b THEN a ELSE b

TypeOK ==
    /\ approvals \subseteq Choices /\ values \subseteq Handles
    /\ session \in {"unused", "open", "closed"}
    /\ run.state \in {"DRAFT", "RUNNING", "CANCELLING", "ENDED"} /\ run.row \in 0..MaxRow
    /\ \A h \in Handles : handles[h].state \in {"absent", "AWAITING_UPLOAD", "UPLOADED", "REVOKED"}

Init ==
    /\ now = 0 /\ restarts = 0 /\ run = [state |-> "DRAFT", row |-> 0] /\ approvals = {}
    /\ shown = [c \in Capabilities |-> IF c \in Attested THEN "available" ELSE "blocked"]
    /\ handles = [h \in Handles |-> Absent]
    /\ tokens = {} /\ values = {} /\ timers = {} /\ session = "unused"

\* The bootstrap token opens one session of a process; logging out does not give it back.
Bootstrap ==
    /\ session = "unused" /\ session' = "open"
    /\ UNCHANGED <<now, restarts, database, memory>>

Logout ==
    /\ session = "open" /\ session' = "closed"
    /\ UNCHANGED <<now, restarts, database, memory>>

Accepted(state) ==
    /\ session = "open" /\ run.row < MaxRow
    /\ run' = [state |-> state, row |-> run.row + 1]
    /\ UNCHANGED <<now, restarts, session>>

InDraft == run.state = "DRAFT" /\ Accepted("DRAFT")

(***************************************************************************)
(* PUT approvals: the list replaces the one before; a capability it does   *)
(* not mention stays as it was shown.                                      *)
(***************************************************************************)
Decide(list, c) ==
    LET current == {a \in list : a.capability = c}
    IN  IF current = {} THEN {shown[c]}
        ELSE {IF a.approved /\ a.expires > now /\ c \in Attested THEN "available" ELSE "denied" :
                 a \in current}

PutApprovals(list) ==
    /\ InDraft /\ approvals' = list
    /\ shown' \in [Capabilities -> {"available", "blocked", "denied"}]
    /\ \A c \in Capabilities : shown'[c] \in Decide(list, c)
    /\ UNCHANGED <<handles, memory>>

\* POST runtime-gate, of a run that executes.
RuntimeGate(c) ==
    /\ run.state = "RUNNING" /\ c \notin Attested /\ Accepted("RUNNING")
    /\ shown' = [shown EXCEPT ![c] = "blocked"] /\ UNCHANGED <<approvals, handles, memory>>

(***************************************************************************)
(* Secrets: a handle with a one-time upload token, the upload, the timer   *)
(* that erases the value, the revocation.                                  *)
(***************************************************************************)
CreateSecret(h, expires) ==
    /\ InDraft /\ handles[h] = Absent /\ expires > now
    /\ handles' = [handles EXCEPT ![h] = [state |-> "AWAITING_UPLOAD", expires |-> expires]]
    /\ tokens' = tokens \cup
          {[handle |-> h, until |-> Minimum(expires, now + TokenLife), erase |-> expires]}
    /\ UNCHANGED <<approvals, shown, values, timers>>

\* The delay of setTimeout, from the expiry of the value.
Delay(erase) == Minimum(TimerMaximum, IF erase > now THEN erase - now ELSE 0)

\* The value is kept, then the row is set; of a revoked row this throws before the timer is set.
Keep(t) ==
    /\ values' = values \cup {t.handle}
    /\ IF Live(t.handle)
       THEN /\ handles' = [handles EXCEPT ![t.handle].state = "UPLOADED"]
            /\ timers' = timers \cup {[handle |-> t.handle, at |-> now + Delay(t.erase)]}
       ELSE UNCHANGED <<handles, timers>>

Upload(t) ==
    /\ t \in tokens /\ tokens' = tokens \ {t}
    /\ IF t.until <= now THEN UNCHANGED <<values, handles, timers>> ELSE Keep(t)
    /\ UNCHANGED <<now, restarts, run, approvals, shown, session>>

Erase(timer) ==
    /\ timer \in timers /\ timer.at <= now /\ timers' = timers \ {timer}
    /\ values' = values \ {timer.handle}
    /\ UNCHANGED <<now, restarts, database, tokens, session>>

\* Mutant: the tokens that were given out stay.
Forgotten(revoked) == tokens

\* What is left of the tokens when these handles are revoked.
Without(revoked) == {t \in tokens : t.handle \notin revoked}

Revoke(revoked) ==
    /\ values' = values \ revoked /\ tokens' = Without(revoked)
    /\ handles' = [h \in Handles |-> IF h \in revoked THEN [handles[h] EXCEPT !.state = "REVOKED"]
                                     ELSE handles[h]]
    /\ UNCHANGED <<approvals, shown, timers>>

RevokeSecret(h) == Live(h) /\ InDraft /\ Revoke({h})

\* POST cancel: a draft stays one, without its secrets.
Cancel ==
    /\ run.state \in {"DRAFT", "RUNNING"}
    /\ Accepted(IF run.state = "DRAFT" THEN "DRAFT" ELSE "CANCELLING")
    /\ Revoke({h \in Handles : Live(h)})

\* The run goes its way (RunLifecycle); its secrets are not looked at.
Proceed ==
    /\ run.row < MaxRow
    /\ \/ run.state = "DRAFT" /\ run' = [state |-> "RUNNING", row |-> run.row + 1]
       \/ run.state = "RUNNING" /\ run' = [state |-> "ENDED", row |-> run.row + 1]
    /\ UNCHANGED <<now, restarts, approvals, shown, handles, memory, session>>

Tick == now < MaxTime /\ now' = now + 1 /\ UNCHANGED <<restarts, database, memory, session>>

\* The process ends, closing or not, and another one opens the database.
Restart ==
    /\ restarts < MaxRestarts /\ restarts' = restarts + 1
    /\ tokens' = {} /\ values' = {} /\ timers' = {} /\ session' = "unused"
    /\ UNCHANGED <<now, database>>

Next ==
    \/ Bootstrap \/ Logout \/ Cancel \/ Proceed \/ Tick \/ Restart
    \/ \E list \in SUBSET Choices : PutApprovals(list)
    \/ \E c \in Capabilities : RuntimeGate(c)
    \/ \E h \in Handles : RevokeSecret(h) \/ \E e \in 1..MaxTime : CreateSecret(h, e)
    \/ \E t \in tokens : Upload(t)
    \/ \E t \in timers : Erase(t)

Spec == Init /\ [][Next]_vars

(***************************************************************************)
(* A value in memory is of a handle that was uploaded and not revoked, and *)
(* a timer will erase it by its expiry; a token is of a handle that waits  *)
(* for it; of a cancelled run there is neither.                            *)
(***************************************************************************)
SecretsAreHeld ==
    /\ \A h \in values :
          /\ handles[h].state = "UPLOADED"
          /\ \E timer \in timers : timer.handle = h /\ timer.at <= handles[h].expires
    /\ \A t \in tokens : handles[t.handle].state = "AWAITING_UPLOAD"
    /\ run.state = "CANCELLING" => values = {} /\ tokens = {} /\ \A h \in Handles : ~Live(h)
=============================================================================
