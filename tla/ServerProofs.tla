---------------------------- MODULE ServerProofs -----------------------------
(***************************************************************************)
(* Proofs about the operator's side.  Each part has an invariant           *)
(* of its own, named after the component; constants have the assumptions   *)
(* of the group's module.                                                  *)
(***************************************************************************)
EXTENDS ServerParts, NumberFacts, FiniteSetTheorems, TLAPS

-----------------------------------------------------------------------------
(***************************************************************************)
(* Secrets are held as their rows say, for any secrets, approvals and      *)
(* restarts and however long the run lives.                                *)
(*                                                                         *)
(* The property is not inductive.  That an upload leaves a timer in time   *)
(* needs what the token remembers of the row's expiry; that it leaves no   *)
(* second token of the handle needs that a handle has one token at most.   *)
(***************************************************************************)

InputsStates == {"absent", "AWAITING_UPLOAD", "UPLOADED", "REVOKED"}

InputsTyped ==
    /\ now \in Nat
    /\ handles \in [Handles -> [state : InputsStates, expires : Nat]]
    /\ tokens \subseteq [handle : Handles, until : Nat, erase : Nat]
    /\ values \subseteq Handles
    /\ timers \subseteq [handle : Handles, at : Nat]
    /\ run \in [state : {"DRAFT", "RUNNING", "CANCELLING", "ENDED"}, row : Nat]

\* A token waits for its handle, ends with it at the latest, and is the only one of it.
TokensAreOfHandles ==
    \A t \in tokens :
        /\ handles[t.handle].state = "AWAITING_UPLOAD"
        /\ t.erase = handles[t.handle].expires /\ t.until <= t.erase
        /\ \A u \in tokens : u.handle = t.handle => u = t

\* A value in memory is of an uploaded handle and will be erased in time.
ValuesWillGo ==
    \A h \in values :
        /\ handles[h].state = "UPLOADED"
        /\ \E timer \in timers : timer.handle = h /\ timer.at <= handles[h].expires

\* A cancelled run has nothing left.
CancelledIsEmpty ==
    run.state = "CANCELLING" => values = {} /\ tokens = {}
    /\ \A h \in Handles : ~Inputs!Live(h)

InputsInv == InputsTyped /\ TokensAreOfHandles /\ ValuesWillGo /\ CancelledIsEmpty

LEMMA MinimumIsLess ==
  ASSUME NEW x \in Nat, NEW y \in Nat
  PROVE  Inputs!Minimum(x, y) \in Nat /\ Inputs!Minimum(x, y) <= x
         /\ Inputs!Minimum(x, y) <= y
  BY DEF Inputs!Minimum

\* Before the expiry of a value, its timer is set for a time that is not after it.
LEMMA DelayIsInTime ==
  ASSUME DelaysAreDurations, now \in Nat, NEW erase \in Nat, erase > now
  PROVE  now + Inputs!Delay(erase) \in Nat /\ now + Inputs!Delay(erase) <= erase
<1>1. Inputs!Minimum(TimerMaximum, erase - now) \in Nat
      /\ Inputs!Minimum(TimerMaximum, erase - now) <= erase - now
  BY MinimumIsLess DEF DelaysAreDurations
<1> QED BY <1>1 DEF Inputs!Delay

LEMMA InputsInitInvariant == ASSUME Inputs!Init PROVE InputsInv
  BY DEF Inputs!Init, InputsInv, InputsTyped, Inputs!Absent, InputsStates, TokensAreOfHandles,
     ValuesWillGo, CancelledIsEmpty

LEMMA UploadInvariant ==
  ASSUME DelaysAreDurations, InputsInv, NEW t \in tokens, Inputs!Upload(t) PROVE InputsInv'
<1>1. CASE t.until <= now
  BY <1>1 DEF Inputs!Upload, InputsInv, InputsTyped, TokensAreOfHandles, ValuesWillGo,
     CancelledIsEmpty, Inputs!Live
<1>2. CASE ~(t.until <= now)
  <2> DEFINE timer == [handle |-> t.handle, at |-> now + Inputs!Delay(t.erase)]
  <2>1. t.handle \in Handles /\ Inputs!Live(t.handle)
        /\ handles[t.handle].state = "AWAITING_UPLOAD"
        /\ t.erase \in Nat /\ t.erase > now /\ t.erase = handles[t.handle].expires
    BY <1>2 DEF InputsInv, InputsTyped, TokensAreOfHandles, Inputs!Live
  <2>2. timer \in [handle : Handles, at : Nat] /\ timer.at <= handles[t.handle].expires
        /\ timer.handle = t.handle
    BY <2>1, DelayIsInTime DEF InputsInv, InputsTyped
  <2> HIDE DEF timer
  <2>3. /\ values' = values \cup {t.handle} /\ tokens' = tokens \ {t}
        /\ handles' = [handles EXCEPT ![t.handle].state = "UPLOADED"]
        /\ timers' = timers \cup {timer} /\ UNCHANGED <<now, run>>
    BY <1>2, <2>1 DEF Inputs!Upload, Inputs!Keep, timer
  <2>4. InputsTyped'
    BY <2>1, <2>2, <2>3 DEF InputsInv, InputsTyped, InputsStates
  <2>5. \A h \in Handles :
            /\ handles'[h].expires = handles[h].expires
            /\ h # t.handle => handles'[h] = handles[h]
            /\ h = t.handle => handles'[h].state = "UPLOADED"
    BY <2>3 DEF InputsInv, InputsTyped
  <2>6. TokensAreOfHandles'
    BY <2>3, <2>5 DEF InputsInv, InputsTyped, TokensAreOfHandles
  <2>7. ValuesWillGo'
    BY <2>1, <2>2, <2>3, <2>5 DEF InputsInv, InputsTyped, ValuesWillGo
  <2>8. CancelledIsEmpty'
    BY <2>3 DEF InputsInv, CancelledIsEmpty
  <2> QED BY <2>4, <2>6, <2>7, <2>8 DEF InputsInv
<1> QED BY <1>1, <1>2

LEMMA InputsCreateInvariant ==
  ASSUME DelaysAreDurations, InputsInv, NEW h \in Handles, NEW e \in Nat,
         Inputs!CreateSecret(h, e)
  PROVE  InputsInv'
<1> DEFINE new == [handle |-> h, until |-> Inputs!Minimum(e, now + TokenLife), erase |-> e]
<1>1. /\ Inputs!Minimum(e, now + TokenLife) \in Nat /\ Inputs!Minimum(e, now + TokenLife) <= e
  <2>1. now + TokenLife \in Nat BY DEF InputsInv, InputsTyped, DelaysAreDurations
  <2> QED BY <2>1, MinimumIsLess
<1>2. /\ new \in [handle : Handles, until : Nat, erase : Nat] /\ new.handle = h
      /\ new.erase = e /\ new.until <= e
  BY <1>1
<1>3. tokens' = tokens \cup {new}
  BY DEF Inputs!CreateSecret
<1> HIDE DEF new
<1>4. \A g \in Handles :
        /\ g # h => handles'[g] = handles[g]
        /\ g = h => handles'[g].state = "AWAITING_UPLOAD" /\ handles'[g].expires = e
  BY DEF Inputs!CreateSecret, InputsInv, InputsTyped
<1>5. handles[h].state = "absent" /\ run.state = "DRAFT" /\ run'.state = "DRAFT"
  BY DEF Inputs!CreateSecret, Inputs!InDraft, Inputs!Accepted, Inputs!Absent
<1>6. InputsTyped'
  BY <1>2, <1>3 DEF Inputs!CreateSecret, Inputs!InDraft, Inputs!Accepted, InputsInv,
     InputsTyped, InputsStates
<1>7. TokensAreOfHandles'
  BY <1>2, <1>3, <1>4, <1>5 DEF InputsInv, InputsTyped, TokensAreOfHandles
<1>8. ValuesWillGo'
  BY <1>4, <1>5 DEF Inputs!CreateSecret, InputsInv, InputsTyped, ValuesWillGo
<1> QED BY <1>5, <1>6, <1>7, <1>8 DEF InputsInv, CancelledIsEmpty

\* What revoking leaves, when the run is accepted in some state.
LEMMA InputsRevokeInvariant ==
  ASSUME InputsInv, NEW revoked \in SUBSET Handles, Inputs!Revoke(revoked), now' = now,
         run' \in [state : {"DRAFT", "CANCELLING"}, row : Nat],
         run'.state = "CANCELLING" => revoked = {g \in Handles : Inputs!Live(g)}
  PROVE  InputsInv'
<1>1. \A g \in Handles :
        /\ g \notin revoked => handles'[g] = handles[g]
        /\ g \in revoked => handles'[g].state = "REVOKED"
  BY DEF Inputs!Revoke, InputsInv, InputsTyped
<1>2. /\ values' = values \ revoked /\ tokens' = {t \in tokens : t.handle \notin revoked}
      /\ timers' = timers
  BY DEF Inputs!Revoke, Inputs!Without
<1>3. InputsTyped'
  <2>1. \A g \in Handles : [handles[g] EXCEPT !.state = "REVOKED"]
                              \in [state : InputsStates, expires : Nat]
    BY DEF InputsInv, InputsTyped, InputsStates
  <2>2. handles' \in [Handles -> [state : InputsStates, expires : Nat]]
    BY <2>1 DEF Inputs!Revoke, InputsInv, InputsTyped
  <2> QED BY <1>2, <2>2 DEF InputsInv, InputsTyped
<1>4. TokensAreOfHandles'
  BY <1>1, <1>2 DEF InputsInv, InputsTyped, TokensAreOfHandles
<1>5. ValuesWillGo'
  BY <1>1, <1>2 DEF InputsInv, InputsTyped, ValuesWillGo
<1>6. CancelledIsEmpty'
  <2>1. ASSUME run'.state = "CANCELLING" PROVE values' = {} /\ tokens' = {}
    BY <2>1, <1>2 DEF InputsInv, InputsTyped, ValuesWillGo, TokensAreOfHandles, Inputs!Live
  <2>2. ASSUME run'.state = "CANCELLING", NEW g \in Handles PROVE ~Inputs!Live(g)'
    BY <2>2, <1>1 DEF Inputs!Live
  <2> QED BY <2>1, <2>2 DEF CancelledIsEmpty
<1> QED BY <1>3, <1>4, <1>5, <1>6 DEF InputsInv

LEMMA EraseInvariant ==
  ASSUME InputsInv, NEW timer \in timers, Inputs!Erase(timer) PROVE InputsInv'
<1>1. /\ timers' = timers \ {timer} /\ values' = values \ {timer.handle}
      /\ UNCHANGED <<now, run, handles, tokens>>
  BY DEF Inputs!Erase, Inputs!database
<1>2. ValuesWillGo'
  BY <1>1 DEF InputsInv, ValuesWillGo
<1> QED BY <1>1, <1>2 DEF InputsInv, InputsTyped, TokensAreOfHandles, CancelledIsEmpty,
    Inputs!Live

\* What the other steps leave of these variables.
LEMMA InputsQuietInvariant ==
  ASSUME InputsInv, UNCHANGED <<handles, tokens, values, timers>>, now' \in Nat,
         run' \in [state : {"DRAFT", "RUNNING", "CANCELLING", "ENDED"}, row : Nat],
         run'.state = "CANCELLING" => run.state = "CANCELLING"
  PROVE  InputsInv'
  BY DEF InputsInv, InputsTyped, TokensAreOfHandles, ValuesWillGo, CancelledIsEmpty,
     Inputs!Live

LEMMA InputsStepInvariant ==
  ASSUME DelaysAreDurations, InputsInv, [Inputs!Next]_(Inputs!vars) PROVE InputsInv'
<1>1. run.row + 1 \in Nat /\ now + 1 \in Nat
  BY DEF InputsInv, InputsTyped
<1>2. CASE Inputs!Bootstrap \/ Inputs!Logout \/ UNCHANGED Inputs!vars
  BY <1>2, InputsQuietInvariant DEF Inputs!Bootstrap, Inputs!Logout, Inputs!vars,
     Inputs!database, Inputs!memory, InputsInv, InputsTyped
<1>3. CASE Inputs!Cancel
  <2>1. run' \in [state : {"DRAFT", "CANCELLING"}, row : Nat] /\ now' = now
    BY <1>1, <1>3 DEF Inputs!Cancel, Inputs!Accepted
  <2> QED BY <1>3, <2>1, InputsRevokeInvariant DEF Inputs!Cancel
<1>4. CASE Inputs!Proceed
  BY <1>1, <1>4, InputsQuietInvariant DEF Inputs!Proceed, Inputs!memory, InputsInv,
     InputsTyped
<1>5. CASE Inputs!Tick
  BY <1>1, <1>5, InputsQuietInvariant DEF Inputs!Tick, Inputs!database, Inputs!memory,
     InputsInv, InputsTyped
<1>6. CASE Inputs!Restart
  BY <1>6 DEF Inputs!Restart, Inputs!database, InputsInv, InputsTyped, TokensAreOfHandles,
     ValuesWillGo,
              CancelledIsEmpty, Inputs!Live
<1>7. ASSUME NEW list \in SUBSET Choices, Inputs!PutApprovals(list) PROVE InputsInv'
  BY <1>1, <1>7, InputsQuietInvariant DEF Inputs!PutApprovals, Inputs!InDraft,
     Inputs!Accepted, Inputs!memory, InputsInv, InputsTyped
<1>8. ASSUME NEW c \in Capabilities, Inputs!RuntimeGate(c) PROVE InputsInv'
  BY <1>1, <1>8, InputsQuietInvariant DEF Inputs!RuntimeGate, Inputs!Accepted, Inputs!memory,
     InputsInv, InputsTyped
<1>9. ASSUME NEW h \in Handles, Inputs!RevokeSecret(h) PROVE InputsInv'
  <2>1. run' \in [state : {"DRAFT"}, row : Nat] /\ now' = now
    BY <1>1, <1>9 DEF Inputs!RevokeSecret, Inputs!InDraft, Inputs!Accepted
  <2> QED BY <1>9, <2>1, InputsRevokeInvariant DEF Inputs!RevokeSecret
<1>10. ASSUME NEW h \in Handles, NEW e \in 1..InputsTime,
              Inputs!CreateSecret(h, e) PROVE InputsInv'
  BY <1>10, InputsCreateInvariant
<1>11. ASSUME NEW t \in tokens, Inputs!Upload(t) PROVE InputsInv'
  BY <1>11, UploadInvariant
<1>12. ASSUME NEW timer \in timers, Inputs!Erase(timer) PROVE InputsInv'
  BY <1>12, EraseInvariant
<1> QED BY <1>2, <1>3, <1>4, <1>5, <1>6, <1>7, <1>8, <1>9, <1>10, <1>11, <1>12 DEF Inputs!Next

(***************************************************************************)
(* A value in memory is of a handle that was uploaded and not revoked and  *)
(* a timer erases it by its expiry; a token waits for its handle; of a     *)
(* cancelled run there is neither: for any secrets, whatever is uploaded,  *)
(* revoked, cancelled or restarted in whatever order (apps/server).        *)
(***************************************************************************)
THEOREM SecretsHeld == Inputs!Spec => []Inputs!SecretsAreHeld
<1>1. Inputs!Init => InputsInv BY InputsInitInvariant
<1>2. InputsInv /\ [Inputs!Next]_(Inputs!vars) => InputsInv' BY InputsStepInvariant,
      InputsAssumption
<1>3. InputsInv => Inputs!SecretsAreHeld
  BY DEF InputsInv, TokensAreOfHandles, ValuesWillGo, CancelledIsEmpty, Inputs!SecretsAreHeld
<1> QED BY <1>1, <1>2, <1>3, PTL DEF Inputs!Spec

\* The session, the approvals and the number of accepted requests keep their types.
InputsRest ==
    /\ approvals \subseteq Choices /\ session \in {"unused", "open", "closed"}
    /\ run.row \in 0..MaxRow

LEMMA InputsAccepted ==
  ASSUME MaxRow \in Nat, InputsRest, NEW state, Inputs!Accepted(state)
  PROVE  run'.row \in 0..MaxRow /\ session' = session
<1>1. run'.row = run.row + 1 /\ run.row < MaxRow /\ session' = session
  BY DEF Inputs!Accepted
<1> QED BY <1>1 DEF InputsRest

LEMMA InputsRestStep ==
  ASSUME MaxRow \in Nat, InputsRest, [Inputs!Next]_(Inputs!vars) PROVE InputsRest'
<1> USE DEF InputsRest
<1>1. CASE Inputs!Bootstrap \/ Inputs!Logout \/ Inputs!Tick \/ Inputs!Restart
           \/ UNCHANGED Inputs!vars
  BY <1>1 DEF Inputs!Bootstrap, Inputs!Logout, Inputs!Tick, Inputs!Restart, Inputs!vars,
     Inputs!database
<1>2. CASE Inputs!Cancel
  BY <1>2, InputsAccepted DEF Inputs!Cancel, Inputs!Revoke
<1>3. CASE Inputs!Proceed
  BY <1>3 DEF Inputs!Proceed
<1>4. ASSUME NEW list \in SUBSET Choices, Inputs!PutApprovals(list) PROVE InputsRest'
  BY <1>4, InputsAccepted DEF Inputs!PutApprovals, Inputs!InDraft
<1>5. ASSUME NEW c \in Capabilities, Inputs!RuntimeGate(c) PROVE InputsRest'
  BY <1>5, InputsAccepted DEF Inputs!RuntimeGate
<1>6. ASSUME NEW h \in Handles, Inputs!RevokeSecret(h) PROVE InputsRest'
  BY <1>6, InputsAccepted DEF Inputs!RevokeSecret, Inputs!InDraft, Inputs!Revoke
<1>7. ASSUME NEW h \in Handles, NEW e \in 1..InputsTime, Inputs!CreateSecret(h, e)
      PROVE  InputsRest'
  BY <1>7, InputsAccepted DEF Inputs!CreateSecret, Inputs!InDraft
<1>8. ASSUME NEW t \in tokens, Inputs!Upload(t) PROVE InputsRest'
  BY <1>8 DEF Inputs!Upload
<1>9. ASSUME NEW timer \in timers, Inputs!Erase(timer) PROVE InputsRest'
  BY <1>9 DEF Inputs!Erase, Inputs!database
<1> QED BY <1>1, <1>2, <1>3, <1>4, <1>5, <1>6, <1>7, <1>8, <1>9 DEF Inputs!Next

\* The rows of the run and its secrets, and the session keep their types.
THEOREM InputsTypes == Inputs!Spec => []Inputs!TypeOK
<1>1. Inputs!Init => InputsInv /\ InputsRest
  BY InputsInitInvariant, InputsAssumption DEF Inputs!Init, InputsRest
<1>2. InputsInv /\ InputsRest /\ [Inputs!Next]_(Inputs!vars) => InputsInv' /\ InputsRest'
  BY InputsStepInvariant, InputsRestStep, InputsAssumption
<1>3. InputsInv /\ InputsRest => Inputs!TypeOK
  BY DEF InputsInv, InputsTyped, InputsStates, InputsRest, Inputs!TypeOK
<1> QED BY <1>1, <1>2, <1>3, PTL DEF Inputs!Spec

-----------------------------------------------------------------------------
(***************************************************************************)
(* An installation is whole, for any number of installers, files and       *)
(* releases, whatever happens to the checkout, the record, the installers  *)
(* and the service.                                                        *)
(*                                                                         *)
(* What is copied was compared in the stage, which nobody edits.  Who      *)
(* looks at the files one by one and was alone from the first to the last  *)
(* has seen them at once; so has a service that loads them.                *)
(***************************************************************************)

Verified == {"admit", "identity", "useradd", "directories", "copy"}
InstallPlaces ==
    Verified \cup {"idle", "record", "preverify", "stage", "staged", "own", "inspect", "load",
                   "validate"}
Workers ==
    [pc : InstallPlaces, mode : {"none", "install", "verify"}, n : Install!Files,
    stage : [Install!Files -> Install!Contents],
     record : Install!Records, alone : BOOLEAN, refused : Install!Records]
Services ==
    [pc : {"stopped", "prestart", "import", "entry", "listen", "running"}, n : Install!Files,
     loaded : [Install!Files -> Install!Contents], record : Install!Records, alone : BOOLEAN]
Hosts ==
    [group : BOOLEAN, user : BOOLEAN, state : BOOLEAN, run : BOOLEAN,
     config : {"given", "owned"}, key : {"given", "owned", "absent"}]

InstallTyped ==
    /\ authority \in Install!Records
    /\ kit \in [Install!Files -> Install!Contents]
    /\ target \in [Install!Files -> Install!Contents]
    /\ host \in Hosts /\ socket \in BOOLEAN /\ verdict \in Releases \cup {"none"}
    /\ proc \in [Installers -> Workers] /\ service \in Services

\* What a process has compared in its stage was recorded.
InstallSound(x) ==
    /\ x.pc = "staged" => \A m \in 1..(x.n - 1) : x.stage[m] # "edited"
    /\ x.pc \in Verified => \A m \in Install!Files : x.stage[m] # "edited"
    /\ x.pc = "load" => x.n = 1
    /\ x.pc = "validate" => x.record \in Releases

\* What a process that was alone has validated is there.
Watching(x) ==
    x.pc = "validate" /\ x.alone => \A m \in 1..(x.n - 1) : target[m] = x.record

Serving(s) ==
    /\ s.pc = "import" /\ s.alone => \A m \in 1..(s.n - 1) : s.loaded[m] = target[m]
    /\ s.pc = "entry" /\ s.alone =>
          s.loaded = target /\ \A m \in 1..(s.n - 1) : target[m] = s.record
    /\ s.pc \in {"listen", "running"} /\ s.alone => s.loaded = Install!All(s.record)

Judged(v) == v # "none" => target = Install!All(v) /\ host.group /\ host.user /\ host.state

InstallInv ==
    /\ InstallTyped
    /\ \A n \in Install!Files : target[n] # "edited"
    /\ \A p \in Installers : InstallSound(proc[p]) /\ Watching(proc[p])
    /\ Serving(service) /\ Judged(verdict)

LEMMA AllIsTree == ASSUME NEW c \in Install!Contents PROVE Install!All(c) \in [Install!Files -> Install!Contents]
  BY DEF Install!All

LEMMA IdleIsWorker == Install!Idle \in Workers /\ InstallSound(Install!Idle)
/\ Install!Idle.pc = "idle"
<1>1. 1 \in Install!Files /\ "none" \in Install!Contents /\ "none" \in Install!Records
  BY InstallAssumption DEF ReleasesAreNames, Install!Files, Install!Contents, Install!Records
<1>2. Install!Idle \in Workers
  BY <1>1, AllIsTree DEF Install!Idle, Workers, InstallPlaces
<1> QED BY <1>2 DEF Install!Idle, InstallSound, Verified

LEMMA StoppedIsService == Install!Stopped \in Services /\ Install!Stopped.pc = "stopped"
<1>1. 1 \in Install!Files /\ "none" \in Install!Contents /\ "none" \in Install!Records
  BY InstallAssumption DEF ReleasesAreNames, Install!Files, Install!Contents, Install!Records
<1> QED BY <1>1, AllIsTree DEF Install!Stopped, Services

LEMMA InstallInitInvariant == ASSUME Install!Init PROVE InstallInv
<1>1. authority \in Releases
  BY InstallAssumption DEF Install!Init, ReleasesAreNames
<1>2. authority \in Install!Records /\ authority \in Install!Contents
      /\ "none" \in Install!Contents
  BY <1>1 DEF Install!Records, Install!Contents
<1>3. InstallTyped
  BY <1>2, AllIsTree, IdleIsWorker, StoppedIsService DEF Install!Init, InstallTyped, Hosts
<1> QED BY <1>3, IdleIsWorker, StoppedIsService DEF Install!Init, InstallInv, Install!All,
    Watching, Serving, Judged

\* What is on the host stays on it.
Grown == (host.group => host'.group) /\ (host.user => host'.user)
/\ (host.state => host'.state)

\* A step of one process that writes no file.
LEMMA InstallMoveInvariant ==
  ASSUME InstallInv, NEW p \in Installers, NEW x \in Workers, proc' = [proc EXCEPT ![p] = x],
         InstallSound(x), Watching(x), UNCHANGED <<target, service>>,
         authority' \in Install!Records, kit' \in [Install!Files -> Install!Contents],
         host' \in Hosts, Grown,
         socket' \in BOOLEAN, verdict' \in Releases \cup {"none"},
         verdict' = verdict \/ Judged(verdict)'
  PROVE  InstallInv'
<1>1. InstallTyped'
  BY DEF InstallInv, InstallTyped
<1>2. ASSUME NEW q \in Installers PROVE (InstallSound(proc[q]) /\ Watching(proc[q]))'
  BY DEF InstallInv, InstallTyped, InstallSound, Watching
<1>3. Judged(verdict)'
  BY DEF InstallInv, Judged, Grown
<1>4. Serving(service)'
  BY DEF InstallInv, Serving
<1> QED BY <1>1, <1>2, <1>3, <1>4 DEF InstallInv

\* A step that moves at most the service, or the world.
LEMMA ServiceInvariant ==
  ASSUME InstallInv, NEW s \in Services, service' = s, Serving(s),
         UNCHANGED <<target, proc, verdict>>,
         authority' \in Install!Records, kit' \in [Install!Files -> Install!Contents],
         host' \in Hosts, Grown,
         socket' \in BOOLEAN
  PROVE  InstallInv'
<1>1. InstallTyped'
  BY DEF InstallInv, InstallTyped
<1>2. ASSUME NEW q \in Installers PROVE (InstallSound(proc[q]) /\ Watching(proc[q]))'
  BY DEF InstallInv, InstallTyped, InstallSound, Watching
<1>3. Judged(verdict)'
  BY DEF InstallInv, Judged, Grown
<1>4. Serving(service)'
  BY DEF InstallInv, Serving
<1> QED BY <1>1, <1>2, <1>3, <1>4 DEF InstallInv

LEMMA StayFacts ==
  ASSUME InstallInv, Install!Stay
  PROVE  /\ UNCHANGED <<target, service, verdict>>
         /\ authority' \in Install!Records
         /\ kit' \in [Install!Files -> Install!Contents]
         /\ host' \in Hosts
         /\ socket' \in BOOLEAN /\ verdict' \in Releases \cup {"none"} /\ Grown
  BY DEF Install!Stay, Install!world, InstallInv, InstallTyped, Grown

\* The installer dies.
LEMMA DieInvariant ==
  ASSUME InstallInv, NEW p \in Installers, Install!Die(p),
         UNCHANGED <<target, service, verdict>>,
         authority' \in Install!Records, kit' \in [Install!Files -> Install!Contents],
         host' \in Hosts, Grown,
         socket' \in BOOLEAN
  PROVE  InstallInv'
<1>1. PICK x : x = [Install!Idle EXCEPT !.refused = proc[p].refused] OBVIOUS
<1>2. x \in Workers /\ x.pc = "idle"
  BY <1>1, IdleIsWorker DEF InstallInv, InstallTyped, Workers
<1>3. InstallSound(x) /\ Watching(x)
  BY <1>2 DEF InstallSound, Watching, Verified
<1> QED BY <1>1, <1>2, <1>3, InstallMoveInvariant DEF Install!Die, InstallInv, InstallTyped

\* The loop over the files goes on, or ends at another place.
LEMMA AdvanceFacts ==
  ASSUME InstallInv, NEW p \in Installers, NEW next \in InstallPlaces
  PROVE  \E x \in Workers :
            /\ Install!Advance(p, next) = [proc EXCEPT ![p] = x]
            /\ x.stage = proc[p].stage /\ x.record = proc[p].record
            /\ \/ proc[p].n < FileCount /\ x.pc = proc[p].pc /\ x.n = proc[p].n + 1
                  /\ x.alone = proc[p].alone
               \/ proc[p].n = FileCount /\ x.pc = next /\ x.n = 1
<1>1. proc[p] \in Workers /\ FileCount \in Nat \ {0} /\ proc[p].n \in 1..FileCount
  BY InstallAssumption DEF InstallInv, InstallTyped, Workers, ReleasesAreNames, Install!Files
<1>2. CASE proc[p].n < FileCount
  <2>1. PICK x : x = [proc[p] EXCEPT !.n = proc[p].n + 1] OBVIOUS
  <2>2. proc[p].n + 1 \in Install!Files
    BY <1>1, <1>2 DEF Install!Files
  <2>3. x \in Workers
    BY <1>1, <2>1, <2>2 DEF Workers
  <2>4. Install!Advance(p, next) = [proc EXCEPT ![p] = x]
    BY <1>2, <2>1 DEF Install!Advance, Install!File, InstallInv, InstallTyped
  <2>5. /\ x.stage = proc[p].stage /\ x.record = proc[p].record /\ x.pc = proc[p].pc
        /\ x.n = proc[p].n + 1 /\ x.alone = proc[p].alone
    BY <1>1, <2>1 DEF Workers
  <2> QED BY <1>2, <2>3, <2>4, <2>5
<1>3. CASE ~ (proc[p].n < FileCount)
  <2>0. PICK alone \in BOOLEAN : alone = (proc[p].alone \/ next = "inspect")
    <3>1. proc[p].alone \in BOOLEAN
      BY <1>1 DEF Workers
    <3>2. CASE next = "inspect"
      BY <3>2
    <3>3. CASE next # "inspect"
      BY <3>1, <3>3
    <3> QED BY <3>2, <3>3
  <2>1. PICK x : x = [proc[p] EXCEPT !.pc = next, !.n = 1, !.alone = alone]
    OBVIOUS
  <2>2. 1 \in Install!Files
    BY <1>1 DEF Install!Files
  <2>3. x \in Workers
    BY <1>1, <2>0, <2>1, <2>2 DEF Workers
  <2>4. Install!Advance(p, next) = [proc EXCEPT ![p] = x]
    BY <1>1, <1>3, <2>0, <2>1 DEF Install!Advance, Install!File, InstallInv, InstallTyped
  <2>5. x.stage = proc[p].stage /\ x.record = proc[p].record /\ x.pc = next /\ x.n = 1
    BY <1>1, <2>1 DEF Workers
  <2>6. proc[p].n = FileCount
    BY <1>1, <1>3
  <2> QED BY <2>3, <2>4, <2>5, <2>6
<1> QED BY <1>2, <1>3

\* What a process at a place has, and the record's values.
LEMMA InstallAtPlace ==
  ASSUME InstallInv, NEW p \in Installers
  PROVE  /\ proc[p] \in Workers /\ InstallSound(proc[p]) /\ Watching(proc[p])
         /\ FileCount \in Nat \ {0} /\ proc[p].n \in 1..FileCount
         /\ "edited" \notin Install!Records /\ authority \in Install!Records
  BY InstallAssumption DEF InstallInv, InstallTyped, Workers, Install!Files, ReleasesAreNames,
     Install!Records

LEMMA InstallGotoInvariant ==
  ASSUME InstallInv, NEW p \in Installers, NEW at \in InstallPlaces \ {"validate"},
         Install!Goto(p, at),
         at \in Verified => proc[p].pc \in Verified, UNCHANGED <<target, service, verdict>>,
         authority' \in Install!Records, kit' \in [Install!Files -> Install!Contents],
         host' \in Hosts, Grown,
         socket' \in BOOLEAN
  PROVE  InstallInv'
<1>1. PICK x : x = [proc[p] EXCEPT !.pc = at, !.n = 1] /\ proc' = [proc EXCEPT ![p] = x]
  BY DEF Install!Goto, InstallInv, InstallTyped
<1>2. 1 \in Install!Files
  BY InstallAtPlace DEF Install!Files
<1>3. x \in Workers /\ x.pc = at /\ x.n = 1 /\ x.stage = proc[p].stage
  BY <1>1, <1>2, InstallAtPlace DEF Workers
<1>4. InstallSound(x) /\ Watching(x)
  BY <1>3, InstallAtPlace DEF InstallSound, Watching, Verified
<1> QED BY <1>1, <1>3, <1>4, InstallMoveInvariant DEF InstallInv, InstallTyped

LEMMA InstallBeginInvariant ==
  ASSUME InstallInv, NEW p \in Installers, NEW mode \in {"install", "verify"},
         Install!Begin(p, mode) PROVE InstallInv'
<1>1. PICK x : x = [Install!Idle EXCEPT !.pc = "record", !.mode = mode] OBVIOUS
<1>2. x \in Workers /\ x.pc = "record"
  BY <1>1, IdleIsWorker DEF Workers, InstallPlaces
<1>3. InstallSound(x) /\ Watching(x)
  BY <1>2 DEF InstallSound, Watching, Verified
<1> QED BY <1>1, <1>2, <1>3, InstallMoveInvariant DEF Install!Begin, InstallInv, InstallTyped,
    Grown

LEMMA ReadRecordInvariant == ASSUME InstallInv, NEW p \in Installers,
Install!ReadRecord(p) PROVE InstallInv'
<1>1. CASE Install!Goto(p, "preverify")
  BY <1>1, StayFacts, InstallGotoInvariant DEF Install!ReadRecord, InstallPlaces, Verified
<1>2. CASE proc' = [proc EXCEPT ![p] = [Install!Idle EXCEPT !.refused = authority]]
  <2>1. PICK x : x = [Install!Idle EXCEPT !.refused = authority] OBVIOUS
  <2>2. x \in Workers /\ x.pc = "idle"
    BY <2>1, IdleIsWorker, InstallAtPlace DEF Workers
  <2>3. InstallSound(x) /\ Watching(x)
    BY <2>2 DEF InstallSound, Watching, Verified
  <2> QED BY <1>2, <2>1, <2>2, <2>3, StayFacts, InstallMoveInvariant DEF Install!ReadRecord
<1> QED BY <1>1, <1>2 DEF Install!ReadRecord

LEMMA PreverifyInvariant == ASSUME InstallInv, NEW p \in Installers,
Install!Preverify(p) PROVE InstallInv'
<1>1. CASE Install!Die(p) BY <1>1, StayFacts, DieInvariant DEF Install!Preverify
<1>2. ASSUME NEW next \in {"inspect", "stage"},
             proc' = Install!Advance(p, next) PROVE InstallInv'
  <2>1. PICK x \in Workers :
          /\ proc' = [proc EXCEPT ![p] = x]
          /\ x.pc \in {"preverify", next}
    BY <1>2, AdvanceFacts DEF InstallPlaces, Install!Preverify, Install!At
  <2>2. InstallSound(x) /\ Watching(x)
    BY <2>1 DEF InstallSound, Watching, Verified
  <2> QED BY <2>1, <2>2, StayFacts, InstallMoveInvariant DEF Install!Preverify
<1> QED BY <1>1, <1>2 DEF Install!Preverify

LEMMA InstallStageInvariant == ASSUME InstallInv, NEW p \in Installers,
Install!Stage(p) PROVE InstallInv'
<1>1. PICK y \in Workers :
          /\ Install!Advance(p, "staged") = [proc EXCEPT ![p] = y]
          /\ y.pc = "stage" \/ (y.pc = "staged" /\ y.n = 1)
  BY AdvanceFacts DEF InstallPlaces, Install!Stage, Install!At
<1>2. PICK x : x = [y EXCEPT !.stage[Install!File(p)] = kit[Install!File(p)]] OBVIOUS
<1>3. proc' = [proc EXCEPT ![p] = x]
  BY <1>1, <1>2 DEF Install!Stage, InstallInv, InstallTyped
<1>4. Install!File(p) \in Install!Files /\ kit[Install!File(p)] \in Install!Contents
  BY InstallAtPlace DEF Install!File, InstallInv, InstallTyped, Install!Files
<1>5. x \in Workers /\ x.pc = y.pc /\ x.n = y.n
  BY <1>2, <1>4 DEF Workers
<1>6. InstallSound(x) /\ Watching(x)
  BY <1>1, <1>5 DEF InstallSound, Watching, Verified
<1> QED BY <1>3, <1>5, <1>6, StayFacts, InstallMoveInvariant DEF Install!Stage

\* A file that is not the recorded one ends the installation.
LEMMA VerifyStageInvariant == ASSUME InstallInv, NEW p \in Installers,
Install!VerifyStage(p) PROVE InstallInv'
<1>1. CASE Install!Die(p) BY <1>1, StayFacts, DieInvariant DEF Install!VerifyStage
<1>2. CASE Install!StageVerified(p) /\ proc' = Install!Advance(p, "admit")
  <2>1. PICK x \in Workers :
          /\ proc' = [proc EXCEPT ![p] = x] /\ x.stage = proc[p].stage
          /\ \/ proc[p].n < FileCount /\ x.pc = "staged" /\ x.n = proc[p].n + 1
             \/ proc[p].n = FileCount /\ x.pc = "admit"
    BY <1>2, AdvanceFacts DEF InstallPlaces, Verified, Install!VerifyStage, Install!At
  <2>2. \A m \in 1..proc[p].n : proc[p].stage[m] # "edited"
    <3>1. proc[p].stage[proc[p].n] # "edited"
      BY <1>2, InstallAtPlace DEF Install!StageVerified, Install!File
    <3>2. \A m \in 1..(proc[p].n - 1) : proc[p].stage[m] # "edited"
      BY InstallAtPlace DEF InstallSound, Install!VerifyStage, Install!At
    <3> QED BY <3>1, <3>2, InstallAtPlace
  <2>3. InstallSound(x) /\ Watching(x)
    BY <2>1, <2>2, InstallAtPlace DEF InstallSound, Watching, Verified, Install!Files
  <2> QED BY <2>1, <2>3, StayFacts, InstallMoveInvariant DEF Install!VerifyStage
<1> QED BY <1>1, <1>2 DEF Install!VerifyStage

LEMMA InstallAdmitInvariant == ASSUME InstallInv, NEW p \in Installers,
Install!Admit(p) PROVE InstallInv'
<1>1. CASE Install!Die(p) BY <1>1, StayFacts, DieInvariant DEF Install!Admit
<1>2. CASE Install!Goto(p, "identity")
  BY <1>2, StayFacts, InstallGotoInvariant DEF Install!Admit, Install!At, InstallPlaces,
     Verified
<1> QED BY <1>1, <1>2 DEF Install!Admit

LEMMA IdentityInvariant == ASSUME InstallInv, NEW p \in Installers,
Install!Identity(p) PROVE InstallInv'
<1>1. /\ UNCHANGED <<target, service, socket, verdict, authority, kit>>
      /\ authority' \in Install!Records
      /\ kit' \in [Install!Files -> Install!Contents]
      /\ socket' \in BOOLEAN
  BY DEF Install!Identity, Install!world, InstallInv, InstallTyped
<1>2. CASE Install!Die(p) /\ UNCHANGED host
  BY <1>1, <1>2, DieInvariant DEF InstallInv, InstallTyped, Grown
<1>3. ASSUME NEW at \in {"directories", "useradd"}, Install!Goto(p, at),
             host' = [host EXCEPT !.group = TRUE]
      PROVE  InstallInv'
  <2>1. host' \in Hosts /\ Grown
    BY <1>3 DEF InstallInv, InstallTyped, Hosts, Grown
  <2> QED BY <1>1, <1>3, <2>1, InstallGotoInvariant DEF Install!Identity, Install!At,
      InstallPlaces, Verified
<1> QED BY <1>2, <1>3 DEF Install!Identity

LEMMA UserAddInvariant == ASSUME InstallInv, NEW p \in Installers,
Install!UserAdd(p) PROVE InstallInv'
<1>1. host' \in Hosts /\ Grown
  BY DEF Install!UserAdd, InstallInv, InstallTyped, Hosts, Grown
<1> QED BY <1>1, InstallGotoInvariant DEF Install!UserAdd, Install!At, InstallPlaces,
    Verified, Install!world, InstallInv, InstallTyped

LEMMA DirectoriesInvariant == ASSUME InstallInv, NEW p \in Installers,
Install!Directories(p) PROVE InstallInv'
<1>1. host' \in Hosts /\ Grown
  BY DEF Install!Directories, InstallInv, InstallTyped, Hosts, Grown
<1> QED BY <1>1, InstallGotoInvariant DEF Install!Directories, Install!At, InstallPlaces,
    Verified, Install!world, InstallInv, InstallTyped

LEMMA OwnInvariant == ASSUME InstallInv, NEW p \in Installers,
Install!Own(p) PROVE InstallInv'
<1>1. host' \in Hosts /\ Grown
  BY DEF Install!Own, InstallInv, InstallTyped, Hosts, Grown
<1>2. /\ UNCHANGED <<target, service, socket, verdict, authority, kit>>
      /\ authority' \in Install!Records
      /\ kit' \in [Install!Files -> Install!Contents]
      /\ socket' \in BOOLEAN
  BY DEF Install!Own, Install!world, InstallInv, InstallTyped
<1>3. CASE Install!Die(p) BY <1>1, <1>2, <1>3, DieInvariant
<1>4. CASE proc' = [proc EXCEPT ![p].pc = "inspect", ![p].n = 1, ![p].alone = TRUE]
  <2>1. PICK x : x = [proc[p] EXCEPT !.pc = "inspect", !.n = 1, !.alone = TRUE] OBVIOUS
  <2>2. proc' = [proc EXCEPT ![p] = x]
    BY <1>4, <2>1 DEF InstallInv, InstallTyped
  <2>0. proc[p] \in Workers /\ 1 \in Install!Files
    BY InstallAtPlace DEF Install!Files
  <2>3. x \in Workers /\ x.pc = "inspect"
    BY <2>0, <2>1 DEF Workers, InstallPlaces
  <2>4. InstallSound(x) /\ Watching(x)
    BY <2>3 DEF InstallSound, Watching, Verified
  <2> QED BY <1>1, <1>2, <2>2, <2>3, <2>4, InstallMoveInvariant DEF InstallInv, InstallTyped
<1> QED BY <1>3, <1>4 DEF Install!Own

LEMMA InspectInvariant == ASSUME InstallInv, NEW p \in Installers,
Install!Inspect(p) PROVE InstallInv'
<1>1. CASE Install!Die(p) BY <1>1, StayFacts, DieInvariant DEF Install!Inspect
<1>2. CASE proc' = Install!Advance(p, "load")
  <2>1. PICK x \in Workers :
          proc' = [proc EXCEPT ![p] = x] /\ (x.pc = "inspect" \/ (x.pc = "load" /\ x.n = 1))
    BY <1>2, AdvanceFacts DEF InstallPlaces, Install!Inspect, Install!At
  <2>2. InstallSound(x) /\ Watching(x)
    BY <2>1 DEF InstallSound, Watching, Verified
  <2> QED BY <2>1, <2>2, StayFacts, InstallMoveInvariant DEF Install!Inspect
<1> QED BY <1>1, <1>2 DEF Install!Inspect

LEMMA InstallLoadRecordInvariant == ASSUME InstallInv, NEW p \in Installers,
Install!LoadRecord(p) PROVE InstallInv'
<1>1. CASE Install!Die(p) BY <1>1, StayFacts, DieInvariant DEF Install!LoadRecord
<1>2. CASE /\ authority \in Releases
           /\ proc' = [proc EXCEPT ![p].record = authority, ![p].pc = "validate"]
  <2>1. PICK x : x = [proc[p] EXCEPT !.record = authority, !.pc = "validate"] OBVIOUS
  <2>2. proc' = [proc EXCEPT ![p] = x]
    BY <1>2, <2>1 DEF InstallInv, InstallTyped
  <2>3. x \in Workers /\ x.pc = "validate" /\ x.n = proc[p].n /\ x.record \in Releases
    BY <1>2, <2>1, InstallAtPlace DEF Workers, InstallPlaces
  <2>4. x.n = 1
    BY <2>3, InstallAtPlace DEF Install!LoadRecord, Install!At, InstallSound
  <2>5. InstallSound(x) /\ Watching(x)
    BY <2>3, <2>4 DEF InstallSound, Watching, Verified
  <2> QED BY <2>2, <2>3, <2>5, StayFacts, InstallMoveInvariant DEF Install!LoadRecord
<1> QED BY <1>1, <1>2 DEF Install!LoadRecord

\* The last file was the last doubt.
LEMMA InstallValidateInvariant == ASSUME InstallInv, NEW p \in Installers,
Install!Validate(p) PROVE InstallInv'
<1> DEFINE last == Install!File(p) = FileCount
           good == target[Install!File(p)] = proc[p].record /\ (last => Install!Startable)
<1>1. /\ UNCHANGED <<target, service, authority, kit, host, socket>>
      /\ authority' \in Install!Records
      /\ kit' \in [Install!Files -> Install!Contents]
      /\ socket' \in BOOLEAN
      /\ host' \in Hosts /\ Grown
  BY DEF Install!Validate, Install!world, InstallInv, InstallTyped, Grown
<1>2. /\ proc[p].record \in Releases
      /\ proc[p].alone => \A m \in 1..(proc[p].n - 1) : target[m] = proc[p].record
  BY InstallAtPlace DEF Install!Validate, Install!At, InstallSound, Watching
<1>3. CASE good /\ last /\ proc[p].alone
  <2>1. verdict' = proc[p].record /\ Install!Die(p)
    BY <1>3 DEF Install!Validate
  <2>2. \A m \in Install!Files : target[m] = proc[p].record
    BY <1>2, <1>3, InstallAtPlace DEF Install!File, Install!Files
  <2>3. target = Install!All(proc[p].record)
    BY <2>2 DEF InstallInv, InstallTyped, Install!All
  <2>4. Judged(verdict)'
    BY <1>1, <1>3, <2>1, <2>3 DEF Judged, Install!Startable, Install!Prepared
  <2>5. PICK x : x = [Install!Idle EXCEPT !.refused = proc[p].refused] OBVIOUS
  <2>6. x \in Workers /\ x.pc = "idle"
    BY <2>5, IdleIsWorker, InstallAtPlace DEF Workers
  <2>7. InstallSound(x) /\ Watching(x)
    BY <2>6 DEF InstallSound, Watching, Verified
  <2> QED BY <1>1, <1>2, <2>1, <2>4, <2>5, <2>6, <2>7, InstallMoveInvariant DEF Install!Die
<1>4. CASE ~ (good /\ last /\ proc[p].alone)
  <2>1. UNCHANGED verdict
    BY <1>4 DEF Install!Validate
  <2>2. CASE Install!Die(p) BY <1>1, <2>1, <2>2, DieInvariant
  <2>3. CASE good /\ ~ last /\ proc' = Install!Advance(p, "validate")
    <3>1. PICK x \in Workers :
            /\ proc' = [proc EXCEPT ![p] = x] /\ x.record = proc[p].record
            /\ proc[p].n < FileCount /\ x.pc = "validate" /\ x.n = proc[p].n + 1
            /\ x.alone = proc[p].alone
      BY <2>3, AdvanceFacts DEF InstallPlaces, Install!Validate, Install!At, Install!File
    <3>2. InstallSound(x) /\ Watching(x)
      BY <1>2, <2>3, <3>1, InstallAtPlace DEF InstallSound, Watching, Verified, Install!File
    <3> QED BY <1>1, <2>1, <3>1, <3>2, InstallMoveInvariant DEF InstallInv, InstallTyped
  <2> QED BY <2>1, <2>2, <2>3 DEF Install!Validate
<1> QED BY <1>3, <1>4

(***************************************************************************)
(* A file is written: who was looking at the files is not alone any more,  *)
(* and nothing is judged whole.                                            *)
(***************************************************************************)
LEMMA WrittenInvariant ==
  ASSUME InstallInv, NEW p \in Installers, NEW content \in Install!Contents \ {"edited"},
         NEW procs \in [Installers -> Workers],
         \A q \in Installers : InstallSound(procs[q]), Install!Written(p, content, procs),
         UNCHANGED <<host, socket, authority, kit>>
  PROVE  InstallInv'
<1>1. Install!File(p) \in Install!Files
  BY InstallAtPlace DEF Install!File, Install!Files
<1>2. /\ target' \in [Install!Files -> Install!Contents]
      /\ \A n \in Install!Files : target'[n] # "edited"
  BY <1>1 DEF Install!Written, InstallInv, InstallTyped
<1>3. ASSUME NEW q \in Installers
      PROVE  /\ proc'[q] = [procs[q] EXCEPT !.alone = FALSE] /\ proc'[q] \in Workers
             /\ InstallSound(proc'[q]) /\ ~ proc'[q].alone
  <2>1. proc'[q] = [procs[q] EXCEPT !.alone = FALSE] /\ procs[q] \in Workers
        /\ InstallSound(procs[q])
    BY DEF Install!Written
  <2>2. /\ proc'[q] \in Workers /\ ~ proc'[q].alone /\ proc'[q].pc = procs[q].pc
        /\ proc'[q].n = procs[q].n /\ proc'[q].stage = procs[q].stage
        /\ proc'[q].record = procs[q].record
    BY <2>1 DEF Workers
  <2> QED BY <2>1, <2>2 DEF InstallSound
<1>4. proc' \in [Installers -> Workers]
  BY <1>3 DEF Install!Written
<1>5. PICK alone \in BOOLEAN : /\ alone => service.alone /\ service.pc = "running"
                               /\ service' = [service EXCEPT !.alone = alone]
  <2>1. service.alone \in BOOLEAN
    BY DEF InstallInv, InstallTyped, Services
  <2>2. (service.alone /\ service.pc = "running") \in BOOLEAN
    OBVIOUS
  <2> QED BY <2>1, <2>2 DEF Install!Written
<1>6. service' \in Services /\ Serving(service')
  BY <1>5 DEF InstallInv, InstallTyped, Services, Serving
<1>7. InstallTyped'
  BY <1>2, <1>4, <1>6 DEF InstallTyped, InstallInv, Install!Written
<1>8. \A q \in Installers : (InstallSound(proc[q]) /\ Watching(proc[q]))'
  BY <1>3 DEF InstallSound, Watching
<1>9. Serving(service)' /\ Judged(verdict)'
  BY <1>5, <1>6 DEF Serving, Judged, Install!Written, Services, InstallInv, InstallTyped
<1> QED BY <1>2, <1>7, <1>8, <1>9 DEF InstallInv

LEMMA CopyInvariant == ASSUME InstallInv, NEW p \in Installers,
Install!Copy(p) PROVE InstallInv'
<1>1. /\ UNCHANGED <<host, socket, authority, kit>>
      /\ authority' \in Install!Records
      /\ kit' \in [Install!Files -> Install!Contents]
      /\ host' \in Hosts
      /\ Grown
      /\ socket' \in BOOLEAN
  BY DEF Install!Copy, Install!world, InstallInv, InstallTyped, Grown
<1>2. CASE Install!Die(p) /\ UNCHANGED <<target, service, verdict>>
  BY <1>1, <1>2, DieInvariant
<1>3. CASE Install!Written(p, proc[p].stage[Install!File(p)], Install!Advance(p, "own"))
  <2>1. PICK x \in Workers :
          /\ Install!Advance(p, "own") = [proc EXCEPT ![p] = x] /\ x.stage = proc[p].stage
          /\ x.pc \in {"copy", "own"}
    BY AdvanceFacts DEF InstallPlaces, Install!Copy, Install!At
  <2>2. PICK procs : procs = [proc EXCEPT ![p] = x] OBVIOUS
  <2>3. \A m \in Install!Files : proc[p].stage[m] # "edited"
    BY InstallAtPlace DEF Install!Copy, Install!At, InstallSound, Verified
  <2>4. InstallSound(x)
    BY <2>1, <2>3 DEF InstallSound, Verified
  <2>5. procs \in [Installers -> Workers] /\ \A q \in Installers : InstallSound(procs[q])
    BY <2>1, <2>2, <2>4 DEF InstallInv, InstallTyped
  <2>6. PICK content : content = proc[p].stage[Install!File(p)] OBVIOUS
  <2>7. content \in Install!Contents \ {"edited"}
    BY <2>3, <2>6, InstallAtPlace DEF Install!File, Install!Files, Workers
  <2> QED BY <1>1, <1>3, <2>1, <2>2, <2>5, <2>6, <2>7, WrittenInvariant
<1> QED BY <1>2, <1>3 DEF Install!Copy

LEMMA KillInvariant == ASSUME InstallInv, NEW p \in Installers,
Install!Kill(p) PROVE InstallInv'
<1>1. PICK procs : procs = [proc EXCEPT ![p] = Install!Idle] OBVIOUS
<1>2. procs \in [Installers -> Workers] /\ \A q \in Installers : InstallSound(procs[q])
  BY <1>1, IdleIsWorker DEF InstallInv, InstallTyped
<1>3. /\ UNCHANGED <<host, socket, authority, kit>>
      /\ authority' \in Install!Records
      /\ kit' \in [Install!Files -> Install!Contents]
      /\ host' \in Hosts
      /\ Grown
      /\ socket' \in BOOLEAN
  BY DEF Install!Kill, Install!Fault, Install!Event, InstallInv, InstallTyped, Grown
<1>4. CASE proc' = [proc EXCEPT ![p] = Install!Idle] /\ UNCHANGED <<target, service, verdict>>
  <2>1. Watching(Install!Idle)
    BY IdleIsWorker DEF Watching
  <2> QED BY <1>3, <1>4, <2>1, IdleIsWorker, InstallMoveInvariant DEF InstallInv, InstallTyped
<1>5. CASE Install!Written(p, "torn", [proc EXCEPT ![p] = Install!Idle])
  BY <1>1, <1>2, <1>3, <1>5, WrittenInvariant DEF Install!Contents
<1> QED BY <1>4, <1>5 DEF Install!Kill

LEMMA InstallSignalInvariant == ASSUME InstallInv, NEW p \in Installers,
Install!Signal(p) PROVE InstallInv'
<1>1. PICK x : x = [proc[p] EXCEPT !.stage = Install!All("none")] OBVIOUS
<1>2. proc' = [proc EXCEPT ![p] = x]
  BY <1>1 DEF Install!Signal, InstallInv, InstallTyped
<1>3. /\ x \in Workers
      /\ x.pc = proc[p].pc
      /\ x.n = proc[p].n
      /\ x.stage = Install!All("none")
      /\ x.record = proc[p].record /\ x.alone = proc[p].alone
  BY <1>1, InstallAtPlace, AllIsTree DEF Workers, Install!Contents
<1>4. x.pc # "staged"
  BY <1>3 DEF Install!Signal, Install!Trapped
<1>5. InstallSound(x) /\ Watching(x)
  BY <1>3, <1>4, InstallAtPlace DEF InstallSound, Watching, Install!All
<1> QED BY <1>2, <1>3, <1>5, InstallMoveInvariant DEF Install!Signal, Install!Fault,
    Install!Event, InstallInv, InstallTyped, Grown

LEMMA RebootInvariant == ASSUME InstallInv, Install!Reboot PROVE InstallInv'
<1>1. /\ proc' = [q \in Installers |-> Install!Idle]
      /\ service' = Install!Stopped
      /\ socket' = FALSE
      /\ host' \in Hosts /\ Grown /\ UNCHANGED <<target, verdict, authority, kit>>
  BY DEF Install!Reboot, Install!Fault, Install!Event, InstallInv, InstallTyped, Hosts, Grown
<1>2. InstallTyped'
  BY <1>1, IdleIsWorker, StoppedIsService DEF InstallInv, InstallTyped
<1>3. \A q \in Installers : (InstallSound(proc[q]) /\ Watching(proc[q]))'
  BY <1>1, IdleIsWorker DEF InstallSound, Watching
<1>4. Serving(service)'
  BY <1>1, StoppedIsService DEF Serving
<1> QED BY <1>1, <1>2, <1>3, <1>4 DEF InstallInv, Judged, Grown

\* Steps of the service leave the installers and the files as they are.
LEMMA ServeInvariant ==
  ASSUME InstallInv, NEW s \in Services, Serving(s), Install!Serve(s), socket' \in BOOLEAN
  PROVE  InstallInv'
<1>1. /\ service' = s /\ UNCHANGED <<target, host, proc, verdict, authority, kit>>
      /\ authority' \in Install!Records
      /\ kit' \in [Install!Files -> Install!Contents]
      /\ host' \in Hosts
      /\ Grown
  BY DEF Install!Serve, Install!world, InstallInv, InstallTyped, Grown
<1> QED BY <1>1, ServiceInvariant

LEMMA ServiceFacts ==
  ASSUME InstallInv
  PROVE  /\ service \in Services /\ Serving(service) /\ FileCount \in Nat \ {0}
         /\ service.n \in 1..FileCount /\ 1 \in Install!Files /\ socket \in BOOLEAN
  BY InstallAssumption DEF InstallInv, InstallTyped, Services, Install!Files, ReleasesAreNames

LEMMA StopsInvariant == ASSUME InstallInv, Install!Serve(Install!Stopped),
socket' \in BOOLEAN PROVE InstallInv'
<1>1. Serving(Install!Stopped)
  BY StoppedIsService DEF Serving
<1> QED BY <1>1, StoppedIsService, ServeInvariant

LEMMA InstallStartInvariant == ASSUME InstallInv, Install!Start PROVE InstallInv'
<1>1. PICK s : s = [Install!Stopped EXCEPT !.pc = "prestart", !.record = authority,
      !.alone = TRUE]
  OBVIOUS
<1>2. s \in Services /\ s.pc = "prestart"
  BY <1>1, StoppedIsService DEF Services, InstallInv, InstallTyped
<1>3. Serving(s)
  BY <1>2 DEF Serving
<1> QED BY <1>1, <1>2, <1>3, ServeInvariant, ServiceFacts DEF Install!Start

\* One file is validated: the next, or what follows.
LEMMA CheckedInvariant ==
  ASSUME InstallInv, NEW at \in {"prestart", "entry"}, NEW next \in {"import", "listen"},
         at = "prestart" <=> next = "import",
         Install!Checked(at, [service EXCEPT !.pc = next])
  PROVE  InstallInv'
<1>1. service.pc = at /\ socket' = socket
  BY DEF Install!Checked, Install!Phase
<1>2. CASE Install!Serve(Install!Stopped)
  BY <1>1, <1>2, StopsInvariant, ServiceFacts
<1>3. CASE service.n # FileCount /\ Install!Serve([service EXCEPT !.n = @ + 1])
           /\ target[service.n] = service.record
  <2>1. PICK s : s = [service EXCEPT !.n = service.n + 1] OBVIOUS
  <2>2. service.n + 1 \in Install!Files
    BY <1>3, ServiceFacts DEF Install!Files
  <2>3. /\ s \in Services /\ s.pc = at /\ s.n = service.n + 1 /\ s.loaded = service.loaded
        /\ s.record = service.record /\ s.alone = service.alone
    BY <1>1, <2>1, <2>2, ServiceFacts DEF Services
  <2>4. Serving(s)
    BY <1>1, <1>3, <2>3, ServiceFacts DEF Serving
  <2> QED BY <1>1, <1>3, <2>1, <2>3, <2>4, ServeInvariant, ServiceFacts
<1>4. CASE service.n = FileCount /\ target[service.n] = service.record
           /\ Install!Serve([[service EXCEPT !.pc = next] EXCEPT !.n = 1])
  <2>1. PICK s : s = [service EXCEPT !.pc = next, !.n = 1] OBVIOUS
  <2>2. /\ s \in Services /\ s.pc = next /\ s.n = 1 /\ s.loaded = service.loaded
        /\ s.record = service.record /\ s.alone = service.alone
    BY <1>1, <2>1, ServiceFacts DEF Services
  <2>3. CASE next = "import"
    <3>1. Serving(s)
      BY <2>2, <2>3 DEF Serving
    <3> QED BY <1>1, <1>4, <2>1, <2>2, <3>1, ServeInvariant, ServiceFacts
  <2>4. CASE next = "listen"
    <3>1. at = "entry"
      BY <2>4
    <3>2. service.alone => /\ service.loaded = target
                           /\ \A m \in Install!Files : target[m] = service.record
      BY <1>1, <1>4, <3>1, ServiceFacts DEF Serving, Install!Files
    <3>3. service.alone => service.loaded = Install!All(service.record)
      BY <3>2 DEF Install!All, InstallInv, InstallTyped
    <3>4. Serving(s)
      BY <2>2, <2>4, <3>3 DEF Serving
    <3> QED BY <1>1, <1>4, <2>1, <2>2, <3>4, ServeInvariant, ServiceFacts
  <2> QED BY <2>3, <2>4
<1> QED BY <1>2, <1>3, <1>4 DEF Install!Checked

LEMMA InstallImportInvariant == ASSUME InstallInv, Install!Import PROVE InstallInv'
<1> DEFINE n == service.n
<1>1. service.pc = "import" /\ UNCHANGED socket
  BY DEF Install!Import, Install!Phase
<1>2. CASE Install!Serve(Install!Stopped)
  BY <1>1, <1>2, StopsInvariant, ServiceFacts
<1>3. PICK load : load = [service.loaded EXCEPT ![n] = target[n]] OBVIOUS
<1>4. /\ load \in [Install!Files -> Install!Contents]
      /\ service.alone => \A m \in 1..n : load[m] = target[m]
  BY <1>1, <1>3, ServiceFacts DEF Services, Serving, InstallInv, InstallTyped, Install!Files
<1>5. CASE n < FileCount /\ Install!Serve([service EXCEPT !.loaded = load, !.n = n + 1])
  <2>1. PICK s : s = [service EXCEPT !.loaded = load, !.n = n + 1] OBVIOUS
  <2>2. n + 1 \in Install!Files
    BY <1>5, ServiceFacts DEF Install!Files
  <2>3. /\ s \in Services /\ s.pc = "import" /\ s.n = n + 1 /\ s.loaded = load
        /\ s.alone = service.alone
    BY <1>1, <1>4, <2>1, <2>2, ServiceFacts DEF Services
  <2>4. Serving(s)
    BY <1>4, <2>3, ServiceFacts DEF Serving
  <2> QED BY <1>1, <1>5, <2>1, <2>3, <2>4, ServeInvariant, ServiceFacts
<1>6. CASE ~ (n < FileCount)
      /\ Install!Serve([service EXCEPT !.loaded = load, !.n = 1, !.pc = "entry",
                                                   !.record = authority])
  <2>1. PICK s : s = [service EXCEPT !.loaded = load, !.n = 1, !.pc = "entry",
        !.record = authority]
    OBVIOUS
  <2>2. /\ s \in Services /\ s.pc = "entry" /\ s.n = 1 /\ s.loaded = load
        /\ s.alone = service.alone
    BY <1>1, <1>4, <2>1, ServiceFacts DEF Services, InstallInv, InstallTyped
  <2>3. service.alone => \A m \in Install!Files : load[m] = target[m]
    BY <1>4, <1>6, ServiceFacts DEF Install!Files
  <2>4. service.alone => load = target
    BY <1>4, <2>3 DEF InstallInv, InstallTyped
  <2>5. Serving(s)
    BY <2>2, <2>4 DEF Serving
  <2> QED BY <1>1, <1>6, <2>1, <2>2, <2>5, ServeInvariant, ServiceFacts
<1>7. [service EXCEPT !.loaded[n] = target[n]] = [service EXCEPT !.loaded = load]
  BY <1>3, ServiceFacts DEF Services
<1>8. /\ [[service EXCEPT !.loaded = load] EXCEPT !.n = @ + 1]
            = [service EXCEPT !.loaded = load, !.n = n + 1]
      /\ [[service EXCEPT !.loaded = load] EXCEPT !.n = 1, !.pc = "entry",
         !.record = authority]
            = [service EXCEPT !.loaded = load, !.n = 1, !.pc = "entry", !.record = authority]
  BY ServiceFacts DEF Services
<1> QED BY <1>2, <1>5, <1>6, <1>7, <1>8 DEF Install!Import

LEMMA ListenInvariant == ASSUME InstallInv, Install!Listen PROVE InstallInv'
<1>1. PICK s : s = [service EXCEPT !.pc = "running"] OBVIOUS
<1>2. /\ s \in Services /\ s.pc = "running" /\ s.loaded = service.loaded
      /\ s.record = service.record /\ s.alone = service.alone
  BY <1>1, ServiceFacts DEF Services
<1>3. Serving(s)
  BY <1>2, ServiceFacts DEF Serving, Install!Listen, Install!Phase
<1> QED BY <1>1, <1>2, <1>3, ServeInvariant DEF Install!Listen

\* The world: the checkout, the record, the socket and the key change.
LEMMA InstallWorldInvariant ==
  ASSUME InstallInv, UNCHANGED <<target, proc, service, verdict>>,
         authority' \in Install!Records,
         kit' \in [Install!Files -> Install!Contents], host' \in Hosts, Grown,
         socket' \in BOOLEAN
  PROVE  InstallInv'
<1>1. PICK s : s = service OBVIOUS
<1> QED BY <1>1, ServiceFacts, ServiceInvariant

LEMMA InstallStepInvariant == ASSUME InstallInv,
[Install!Next]_(Install!vars) PROVE InstallInv'
<1>1. ASSUME NEW p \in Installers,
             \/ Install!Begin(p, "install") \/ Install!Begin(p, "verify")
                \/ Install!ReadRecord(p) \/ Install!Preverify(p)
             \/ Install!Stage(p) \/ Install!VerifyStage(p) \/ Install!Admit(p)
                \/ Install!Identity(p) \/ Install!UserAdd(p)
             \/ Install!Directories(p) \/ Install!Copy(p) \/ Install!Own(p)
                \/ Install!Inspect(p) \/ Install!LoadRecord(p)
             \/ Install!Validate(p) \/ Install!Kill(p) \/ Install!Signal(p)
      PROVE  InstallInv'
  BY <1>1, InstallBeginInvariant, ReadRecordInvariant, PreverifyInvariant,
     InstallStageInvariant,
     VerifyStageInvariant, InstallAdmitInvariant, IdentityInvariant, UserAddInvariant,
     DirectoriesInvariant, CopyInvariant, OwnInvariant, InspectInvariant,
     InstallLoadRecordInvariant,
     InstallValidateInvariant, KillInvariant, InstallSignalInvariant
<1>2. CASE Install!Prestart \/ Install!Entry
  BY <1>2, CheckedInvariant DEF Install!Prestart, Install!Entry
<1>3. CASE Install!Start \/ Install!Import \/ Install!Listen \/ Install!Stop \/ Install!Reboot
  BY <1>3, InstallStartInvariant, InstallImportInvariant, ListenInvariant, StopsInvariant,
     RebootInvariant
     DEF Install!Stop
<1>4. CASE Install!KillService
  <2>1. Install!Serve(Install!Stopped) \/ InstallInv'
    <3>1. Serving(Install!Stopped)
      BY StoppedIsService DEF Serving
    <3> QED BY <1>4, <3>1, StoppedIsService, ServiceInvariant
            DEF Install!KillService, Install!Fault, Install!Event, InstallInv, InstallTyped,
                Grown
  <2> QED BY <2>1, StopsInvariant, <1>4 DEF Install!KillService, InstallInv, InstallTyped
<1>5. CASE Install!RemoveSocket \/ Install!Provision
  BY <1>5, InstallWorldInvariant DEF Install!RemoveSocket, Install!Provision, Install!world,
     InstallInv, InstallTyped, Hosts, Grown
<1>6. ASSUME NEW r \in Releases, Install!CheckOut(r) PROVE InstallInv'
  <2>1. Install!All(r) \in [Install!Files -> Install!Contents]
    BY AllIsTree DEF Install!Contents
  <2> QED BY <1>6, <2>1, InstallWorldInvariant DEF Install!CheckOut, Install!Change,
      Install!Event, InstallInv, InstallTyped, Grown
<1>7. ASSUME NEW n \in Install!Files, Install!Edit(n) PROVE InstallInv'
  <2>1. kit' \in [Install!Files -> Install!Contents]
    BY <1>7 DEF Install!Edit, InstallInv, InstallTyped, Install!Contents
  <2> QED BY <1>7, <2>1, InstallWorldInvariant DEF Install!Edit, Install!Change,
      Install!Event, InstallInv, InstallTyped, Grown
<1>8. ASSUME NEW record \in Install!Records, Install!Ceremony(record) PROVE InstallInv'
  BY <1>8, InstallWorldInvariant DEF Install!Ceremony, Install!Change, Install!Event,
     InstallInv, InstallTyped, Grown
<1>9. CASE UNCHANGED Install!vars
  BY <1>9, InstallWorldInvariant DEF Install!vars, InstallInv, InstallTyped, Grown
<1> QED BY <1>1, <1>2, <1>3, <1>4, <1>5, <1>6, <1>7, <1>8, <1>9 DEF Install!Next

\* The files, the stages, the record and the service are of the contents there are.
THEOREM InstallTypes == Install!Spec => []Install!TypeOK
<1>1. Install!Init => InstallInv BY InstallInitInvariant
<1>2. InstallInv /\ [Install!Next]_(Install!vars) => InstallInv' BY InstallStepInvariant
<1>3. InstallInv => Install!TypeOK
  BY DEF InstallInv, InstallTyped, Install!TypeOK, Workers, Services
<1> QED BY <1>1, <1>2, <1>3, PTL DEF Install!Spec

(***************************************************************************)
(* Only recorded bytes are installed, what was verified is the whole of    *)
(* one release, and a service whose start met no copying runs the release  *)
(* it validated (verify_payload_tree, verify_installation,                 *)
(* validateProductionHostHelperInstallation): for any installers, files    *)
(* and releases, and whatever changes, dies or is rebooted.                *)
(***************************************************************************)
THEOREM WholeInstallation == Install!Spec => []Install!InstallationIsWhole
<1>1. Install!Init => InstallInv BY InstallInitInvariant
<1>2. InstallInv /\ [Install!Next]_(Install!vars) => InstallInv' BY InstallStepInvariant
<1>3. InstallInv => Install!InstallationIsWhole
  BY DEF InstallInv, Judged, Serving, Install!Phase, Install!InstallationIsWhole
<1> QED BY <1>1, <1>2, <1>3, PTL DEF Install!Spec

-----------------------------------------------------------------------------
(***************************************************************************)
(* One engagement, one id: for any launchers and any number of attempts.   *)
(*                                                                         *)
(* Until the operator removes the file, its text changes once, from empty  *)
(* to the id of the launcher that created it, and only while that launcher *)
(* writes; an id is used only when the file says it.                       *)
(***************************************************************************)

IdPcs == {"idle", "look", "read", "create", "write", "check", "done", "failed"}

IdTyped ==
    /\ launch \in [Launches -> [pc : IdPcs, attempt : 0..IdAttempts]]
    /\ file \in {Id!Absent} \cup [by : Launches, text : {"empty"} \cup Launches]
    /\ removed \in BOOLEAN

\* The writer is the creator, and the file is still as it created it.
WriterIsCreator ==
    \A l \in Launches :
        /\ Id!At(l, "write") => file.by = l /\ file.text = "empty"
        /\ Id!At(l, "check") => file # Id!Absent

IdInv == IdTyped /\ (~removed => used \subseteq {file.text} \cap Launches /\ WriterIsCreator)

LEMMA IdInitInvariant == ASSUME IdAttempts \in Nat, Id!Init PROVE IdInv
<1>1. IdTyped
  <2>1. [pc |-> "idle", attempt |-> 0] \in [pc : IdPcs, attempt : 0..IdAttempts]
    BY DEF IdPcs
  <2> QED BY <2>1 DEF Id!Init, IdTyped
<1>2. used = {} /\ WriterIsCreator
  BY DEF Id!Init, WriterIsCreator, Id!At
<1> QED BY <1>1, <1>2 DEF IdInv

\* A launcher that only moves on disturbs nothing but its own place.
LEMMA IdStepInvariant ==
  ASSUME LaunchesAreIds, IdAttempts \in Nat, IdInv, [Id!Next]_(Id!vars)
  PROVE  IdInv'
<1> USE DEF Id!At, Id!Goto, IdPcs
<1>1. ASSUME NEW l \in Launches, Id!Launch(l) PROVE IdInv'
  BY <1>1 DEF Id!Launch, IdInv, IdTyped, WriterIsCreator, Id!Absent, LaunchesAreIds
<1>2. ASSUME NEW l \in Launches, Id!Look(l) PROVE IdInv'
  BY <1>2 DEF Id!Look, IdInv, IdTyped, WriterIsCreator, Id!Absent, LaunchesAreIds
<1>3. ASSUME NEW l \in Launches, Id!Read(l) PROVE IdInv'
  BY <1>3 DEF Id!Read, IdInv, IdTyped, WriterIsCreator, Id!Absent, LaunchesAreIds
<1>4. ASSUME NEW l \in Launches, Id!Create(l) PROVE IdInv'
  BY <1>4 DEF Id!Create, Id!MayCreate, IdInv, IdTyped, WriterIsCreator, Id!Absent,
     LaunchesAreIds
<1>5. ASSUME NEW l \in Launches, Id!WriteId(l) PROVE IdInv'
  BY <1>5 DEF Id!WriteId, IdInv, IdTyped, WriterIsCreator, Id!Absent, LaunchesAreIds
<1>6. ASSUME NEW l \in Launches, Id!Check(l) PROVE IdInv'
  BY <1>6 DEF Id!Check, IdInv, IdTyped, WriterIsCreator, Id!Absent, LaunchesAreIds
<1>7. ASSUME NEW l \in Launches, Id!Die(l) PROVE IdInv'
  BY <1>7 DEF Id!Die, IdInv, IdTyped, WriterIsCreator, Id!Absent, LaunchesAreIds
<1>8. ASSUME NEW l \in Launches, Id!Again(l) PROVE IdInv'
  BY <1>8 DEF Id!Again, IdInv, IdTyped, WriterIsCreator, Id!Absent, LaunchesAreIds
<1>9. CASE Id!Remove
  BY <1>9 DEF Id!Remove, IdInv, IdTyped, WriterIsCreator, Id!Absent, LaunchesAreIds
<1>10. CASE UNCHANGED Id!vars
  BY <1>10 DEF Id!vars, IdInv, IdTyped, WriterIsCreator
<1> QED BY <1>1, <1>2, <1>3, <1>4, <1>5, <1>6, <1>7, <1>8, <1>9, <1>10 DEF Id!Next

(***************************************************************************)
(* Every launcher that gets an id gets the one in the file, whoever        *)
(* created it, whoever died and however often they are started, unless the *)
(* operator removes the file (resolveEngagementId).                        *)
(***************************************************************************)
THEOREM OneEngagement == Id!Spec => []Id!EngagementIsOne
<1>1. Id!Init => IdInv BY IdInitInvariant, EngagementAssumption
<1>2. IdInv /\ [Id!Next]_(Id!vars) => IdInv' BY IdStepInvariant, EngagementAssumption
<1>3. IdInv => Id!EngagementIsOne BY DEF IdInv, Id!EngagementIsOne
<1> QED BY <1>1, <1>2, <1>3, PTL DEF Id!Spec

\* A launcher uses an id that is a launcher's, or the one of a file that has gone.
IdUsed == used \subseteq Launches \cup {"null"}

LEMMA IdUsedStep ==
  ASSUME IdUsed, [Id!Next]_(Id!vars) PROVE IdUsed'
  BY DEF IdUsed, Id!Next, Id!vars, Id!Launch, Id!Look, Id!Read, Id!Create, Id!WriteId,
     Id!Check, Id!Die, Id!Again, Id!Remove

\* The file says an id or nothing, and a launcher counts its attempts.
THEOREM IdTypes == Id!Spec => []Id!TypeOK
<1>1. Id!Init => IdInv /\ IdUsed
  BY IdInitInvariant, EngagementAssumption DEF Id!Init, IdUsed
<1>2. IdInv /\ IdUsed /\ [Id!Next]_(Id!vars) => IdInv' /\ IdUsed'
  BY IdStepInvariant, IdUsedStep, EngagementAssumption
<1>3. IdInv /\ IdUsed => Id!TypeOK
  BY DEF IdInv, IdTyped, IdUsed, Id!Absent, Id!TypeOK
<1> QED BY <1>1, <1>2, <1>3, PTL DEF Id!Spec

-----------------------------------------------------------------------------
(***************************************************************************)
(* The console shows and changes what it has seen, for any tabs, runs and  *)
(* events, however answers and streams overlap.                            *)
(*                                                                         *)
(* The answer to a creation is of a run that its tab has not heard of, so  *)
(* the tab's stream is not of that run when the page turns to it: between  *)
(* turn and subscription the list is empty.  An answer knows the load it   *)
(* belongs to, and a page that is not live has none of its load.           *)
(***************************************************************************)

Loading == {"closed", "session", "list", "detail"}
Pages == Loading \cup {"live", "failed"}
Streams == [run : Nat, last : Nat, open : BOOLEAN]
TabStates ==
    [page : Pages, run : Nat, row : Nat, seen : Nat, events : Seq(Nat), stream : Streams,
     loads : Nat, link : BOOLEAN]
AnswerStates ==
    [tab : Tabs, load : Nat, kind : {"created", "saved"}, run : Nat, row : Nat]

ConsoleTyped ==
    /\ rows \in Seq(Nat) /\ tabs \in [Tabs -> TabStates]
    /\ answers \subseteq AnswerStates /\ crossed \subseteq Tabs

\* A page and its stream are of runs there are; a page that loads has nothing yet.
Placed(x, count) ==
    /\ x.run <= count /\ x.stream.run <= count
    /\ x.page = "detail" => x.run # 0
    /\ x.page \in Loading => x.events = <<>> /\ x.stream = Console!Blank.stream

\* An answer is of a run there is; if it is of a creation its tab does not know the run.
Addressed(a, x, count) ==
    /\ a.run \in 1..count /\ a.load <= x.loads /\ (x.page # "live" => a.load < x.loads)
    /\ a.kind = "created" =>
          a.row = 0 /\ (a.load = x.loads => x.run # a.run /\ x.stream.run # a.run)

\* The last event of the run on the page that the stream has delivered.
Delivered(x) == IF x.stream.run = x.run THEN x.stream.last ELSE 0

\* The n events up to the last.
Window(n, last) == [i \in 1..n |-> last - n + i]

\* A tab that nothing crossed holds the row it has seen and shows the last events.
Followed(x) ==
    LET n == Len(x.events)
    IN  /\ x.seen = x.row /\ x.events = Window(n, Delivered(x))
        /\ n <= Delivered(x) /\ (n < Shown => n = Delivered(x))

ConsoleInv ==
    /\ ConsoleTyped /\ informed
    /\ \A t \in Tabs : Placed(tabs[t], Len(rows))
    /\ \A a \in answers : Addressed(a, tabs[a.tab], Len(rows))
    /\ \A t \in Tabs \ crossed : Followed(tabs[t])

LEMMA BlankIsTab ==
  /\ Console!Blank \in TabStates /\ Console!Blank.loads = 0
  /\ Console!Blank.page = "closed" /\ Console!Blank.run = 0
  /\ \A count \in Nat : Placed(Console!Blank, count)
  /\ Shown \in Nat => Followed(Console!Blank)
<1>1. Console!Blank \in TabStates
  BY DEF Console!Blank, TabStates, Pages, Loading, Streams
<1>2. \A count \in Nat : Placed(Console!Blank, count)
  BY DEF Console!Blank, Placed
<1>3. Shown \in Nat => Followed(Console!Blank)
  <2>1. Len(Console!Blank.events) = 0 /\ Console!Blank.events = <<>>
        /\ Delivered(Console!Blank) = 0 /\ Console!Blank.seen = Console!Blank.row
    BY DEF Console!Blank, Delivered
  <2>2. << >> = Window(0, 0) BY DEF Window
  <2> QED BY <2>1, <2>2 DEF Followed
<1> QED BY <1>1, <1>2, <1>3 DEF Console!Blank

LEMMA ConsoleInitInvariant == ASSUME Shown \in Nat, Console!Init PROVE ConsoleInv
<1>1. ConsoleTyped
  BY BlankIsTab DEF Console!Init, ConsoleTyped
<1>2. Len(rows) = 0 /\ answers = {} /\ informed /\ \A t \in Tabs : tabs[t] = Console!Blank
  BY DEF Console!Init
<1> QED BY <1>1, <1>2, BlankIsTab DEF ConsoleInv

\* One tab goes on to x and the server stays: what the others were promised holds.
LEMMA TabInvariant ==
  ASSUME ConsoleInv, NEW t \in Tabs, NEW x \in TabStates, tabs' = [tabs EXCEPT ![t] = x],
         UNCHANGED <<rows, informed>>, answers' \subseteq answers,
         crossed' \in {crossed, crossed \cup {t}, crossed \ {t}},
         Placed(x, Len(rows)), t \notin crossed' => Followed(x),
         \A a \in answers' : a.tab = t => Addressed(a, x, Len(rows))
  PROVE  ConsoleInv'
<1> USE DEF ConsoleInv
<1>1. ConsoleTyped' BY DEF ConsoleTyped
<1>2. \A u \in Tabs : tabs'[u] = IF u = t THEN x ELSE tabs[u] BY DEF ConsoleTyped
<1>3. (\A u \in Tabs : Placed(tabs[u], Len(rows)))'
  BY <1>2
<1>4. (\A a \in answers : Addressed(a, tabs[a.tab], Len(rows)))'
  <2> SUFFICES ASSUME NEW a \in answers' PROVE Addressed(a, tabs'[a.tab], Len(rows))
    OBVIOUS
  <2>1. a \in answers /\ a.tab \in Tabs BY DEF ConsoleTyped, AnswerStates
  <2> QED BY <2>1, <1>2
<1>5. (\A u \in Tabs \ crossed : Followed(tabs[u]))'
  <2> SUFFICES ASSUME NEW u \in Tabs \ crossed' PROVE Followed(tabs'[u])
    OBVIOUS
  <2>1. CASE u = t BY <2>1, <1>2
  <2>2. CASE u # t BY <2>2, <1>2
  <2> QED BY <2>1, <2>2
<1> QED BY <1>1, <1>3, <1>4, <1>5

\* The server goes on and tabs stay: there are more runs, and maybe one more answer.
LEMMA ServerInvariant ==
  ASSUME ConsoleInv, UNCHANGED <<tabs, crossed>>, informed', rows' \in Seq(Nat),
         Len(rows) <= Len(rows'),
         \A b \in answers' \ answers : b \in AnswerStates /\ Addressed(b, tabs[b.tab], Len(rows'))
  PROVE  ConsoleInv'
<1> USE DEF ConsoleInv
<1>1. Len(rows) \in Nat /\ Len(rows') \in Nat BY DEF ConsoleTyped
<1>2. ConsoleTyped' BY DEF ConsoleTyped
<1>3. \A u \in Tabs : Placed(tabs[u], Len(rows'))
  BY <1>1 DEF Placed, ConsoleTyped, TabStates, Streams
<1>4. \A a \in answers' : Addressed(a, tabs[a.tab], Len(rows'))
  BY <1>1 DEF Addressed, ConsoleTyped, AnswerStates
<1> QED BY <1>2, <1>3, <1>4

\* A tab with another page, run and row, as the steps of a load leave it.
GoneOn(y, page, r, row, seen) ==
    [y EXCEPT !.page = page, !.run = r, !.row = row, !.seen = seen]

\* A page that loads goes on within its load; its stream is still the blank one.
LEMMA LoadingGoesOn ==
  ASSUME Shown \in Nat, ConsoleInv, NEW t \in Tabs, tabs[t].page \in Loading \ {"closed"},
         NEW page \in Pages, NEW r \in 0..Len(rows), NEW row \in Nat, NEW seen \in Nat,
         page # "detail" \/ r # 0, t \notin crossed => seen = row,
         tabs' = [tabs EXCEPT ![t] = GoneOn(tabs[t], page, r, row, seen)],
         UNCHANGED <<rows, answers, informed, crossed>>
  PROVE  ConsoleInv'
<1> DEFINE x == GoneOn(tabs[t], page, r, row, seen)
<1>1. tabs[t] \in TabStates /\ Len(rows) \in Nat /\ Placed(tabs[t], Len(rows))
      /\ \A a \in answers : a.tab = t => Addressed(a, tabs[t], Len(rows)) /\ a \in AnswerStates
  BY DEF ConsoleInv, ConsoleTyped
<1>2. x \in TabStates /\ x.run = r /\ x.stream = tabs[t].stream /\ x.events = tabs[t].events
      /\ x.loads = tabs[t].loads /\ x.page = page /\ x.row = row /\ x.seen = seen
  <2> DEFINE y1 == [tabs[t] EXCEPT !.page = page]
             y2 == [y1 EXCEPT !.run = r]
             y3 == [y2 EXCEPT !.row = row]
  <2>1. y1 \in TabStates /\ y1.stream = tabs[t].stream /\ y1.events = tabs[t].events
        /\ y1.loads = tabs[t].loads /\ y1.page = page
    BY <1>1 DEF TabStates
  <2>2. r \in Nat BY <1>1
  <2>3. y2 \in TabStates /\ y2.run = r /\ y2.stream = tabs[t].stream
        /\ y2.events = tabs[t].events /\ y2.loads = tabs[t].loads /\ y2.page = page
    <3> HIDE DEF y1
    <3> QED BY <2>1, <2>2 DEF TabStates
  <2>4. y3 \in TabStates /\ y3.run = r /\ y3.stream = tabs[t].stream
        /\ y3.events = tabs[t].events /\ y3.loads = tabs[t].loads /\ y3.page = page
        /\ y3.row = row
    <3> HIDE DEF y2
    <3> QED BY <2>3 DEF TabStates
  <2>5. x = [y3 EXCEPT !.seen = seen] BY DEF GoneOn
  <2> HIDE DEF x, y3
  <2> QED BY <2>4, <2>5 DEF TabStates
<1>3. tabs' = [tabs EXCEPT ![t] = x] OBVIOUS
<1> HIDE DEF x
<1>4. x.events = <<>> /\ x.stream = Console!Blank.stream /\ x.stream.last = 0
      /\ x.stream.run = 0
  BY <1>1, <1>2 DEF Placed, Loading, Console!Blank
<1>5. Placed(x, Len(rows))
  BY <1>1, <1>2, <1>4 DEF Placed
<1>6. t \notin crossed => Followed(x)
  <2>1. Len(x.events) = 0 /\ Delivered(x) = 0 BY <1>4 DEF Delivered
  <2>2. << >> = Window(0, 0) BY DEF Window
  <2> QED BY <2>1, <2>2, <1>2, <1>4 DEF Followed
<1>7. \A a \in answers : a.tab = t => Addressed(a, x, Len(rows))
  BY <1>1, <1>2 DEF Addressed, AnswerStates, TabStates, Loading
<1> QED BY <1>2, <1>3, <1>5, <1>6, <1>7, TabInvariant

LEMMA LoadingInvariant ==
  ASSUME Shown \in Nat, ConsoleInv, NEW t \in Tabs
  PROVE  Console!Open(t) \/ Console!Bootstrap(t) \/ Console!List(t) \/ Console!Detail(t)
         => ConsoleInv'
<1>1. tabs \in [Tabs -> TabStates] /\ tabs[t] \in TabStates /\ Len(rows) \in Nat
      /\ rows \in Seq(Nat)
  BY DEF ConsoleInv, ConsoleTyped
<1>2. /\ Placed(tabs[t], Len(rows)) /\ (t \notin crossed => tabs[t].seen = tabs[t].row)
      /\ \A a \in answers : a.tab = t => Addressed(a, tabs[t], Len(rows)) /\ a \in AnswerStates
  BY DEF ConsoleInv, ConsoleTyped, Followed
<1>3. /\ tabs[t].run \in 0..Len(rows) /\ tabs[t].row \in Nat /\ tabs[t].seen \in Nat
      /\ tabs[t].page \in Pages
  BY <1>1, <1>2 DEF TabStates, Placed
<1>4. CASE Console!Open(t)
  <2>1. PICK link \in BOOLEAN :
          tabs' = [tabs EXCEPT ![t] = [Console!Blank EXCEPT !.page = "session", !.link = link,
                                                    !.loads = tabs[t].loads + 1]]
    BY <1>4 DEF Console!Open
  <2> DEFINE x == [Console!Blank EXCEPT !.page = "session", !.link = link,
                                        !.loads = tabs[t].loads + 1]
  <2> DEFINE b1 == [Console!Blank EXCEPT !.page = "session"]
             b2 == [b1 EXCEPT !.link = link]
  <2>2. /\ x \in TabStates /\ x.loads = tabs[t].loads + 1 /\ tabs[t].loads \in Nat
        /\ x.page = "session" /\ x.run = 0 /\ x.row = 0 /\ x.seen = 0
        /\ x.events = <<>> /\ x.stream = Console!Blank.stream
    <3>1. tabs[t].loads + 1 \in Nat /\ tabs[t].loads \in Nat BY <1>1 DEF TabStates
    <3>2. "session" \in Pages BY DEF Pages, Loading
    <3>3. /\ b1 \in TabStates /\ b1.page = "session" /\ b1.run = 0 /\ b1.row = 0 /\ b1.seen = 0
          /\ b1.events = <<>> /\ b1.stream = Console!Blank.stream
      <4>1. Console!Blank.run = 0 /\ Console!Blank.row = 0 /\ Console!Blank.seen = 0
            /\ Console!Blank.events = <<>>
        BY DEF Console!Blank
      <4> QED BY <3>2, <4>1, BlankIsTab DEF TabStates
    <3>4. /\ b2 \in TabStates /\ b2.page = "session" /\ b2.run = 0 /\ b2.row = 0 /\ b2.seen = 0
          /\ b2.events = <<>> /\ b2.stream = Console!Blank.stream
      <4> HIDE DEF b1
      <4> QED BY <3>3 DEF TabStates
    <3>5. x = [b2 EXCEPT !.loads = tabs[t].loads + 1] OBVIOUS
    <3> HIDE DEF x, b2
    <3> QED BY <3>1, <3>4, <3>5 DEF TabStates
  <2>3. Placed(x, Len(rows))
    <3>1. Console!Blank.stream.run = 0 BY DEF Console!Blank
    <3> HIDE DEF x
    <3> QED BY <1>1, <2>2, <3>1 DEF Placed
  <2>4. Followed(x)
    <3>1. Console!Blank.stream.run = 0 /\ Console!Blank.stream.last = 0 BY DEF Console!Blank
    <3>2. Len(x.events) = 0 /\ Delivered(x) = 0
      <4> HIDE DEF x
      <4> QED BY <2>2, <3>1 DEF Delivered
    <3>3. << >> = Window(0, 0) BY DEF Window
    <3> HIDE DEF x
    <3> QED BY <2>2, <3>2, <3>3 DEF Followed
  <2>5. \A a \in answers : a.tab = t => Addressed(a, x, Len(rows))
    <3> SUFFICES ASSUME NEW a \in answers, a.tab = t PROVE Addressed(a, x, Len(rows))
      OBVIOUS
    <3>1. a.load \in Nat /\ a.load < x.loads
      <4> HIDE DEF x
      <4> QED BY <1>2, <2>2 DEF Addressed, AnswerStates
    <3> HIDE DEF x
    <3> QED BY <1>2, <2>2, <3>1 DEF Addressed
  <2>6. UNCHANGED <<rows, informed, answers>> /\ crossed' = crossed \ {t}
    BY <1>4 DEF Console!Open
  <2> HIDE DEF x
  <2> QED BY <2>1, <2>2, <2>3, <2>4, <2>5, <2>6, TabInvariant DEF x
<1>5. CASE Console!Bootstrap(t)
  <2>1. PICK page \in {"list", "failed"} : tabs' = [tabs EXCEPT ![t].page = page]
    BY <1>5 DEF Console!Bootstrap, Console!Show
  <2>2. tabs' = [tabs EXCEPT ![t] = GoneOn(tabs[t], page, tabs[t].run, tabs[t].row,
                                           tabs[t].seen)]
    BY <2>1, <1>1 DEF TabStates, GoneOn
  <2>3. tabs[t].page = "session" /\ UNCHANGED <<rows, answers, informed, crossed>>
    BY <1>5 DEF Console!Bootstrap
  <2>4. tabs[t].page \in Loading \ {"closed"} /\ page \in Pages /\ page # "detail"
    BY <2>1, <2>3 DEF Pages, Loading
  <2> QED BY <1>2, <1>3, <2>2, <2>3, <2>4, LoadingGoesOn
<1>6. CASE Console!List(t)
  <2>1. PICK page \in {"live", "detail"} :
          /\ tabs' = [tabs EXCEPT ![t].page = page, ![t].run = Len(rows)]
          /\ page # "detail" \/ Len(rows) # 0
    <3>1. CASE rows = <<>> BY <3>1, <1>1, <1>6 DEF Console!List
    <3>2. CASE rows # <<>>
      <4>1. Len(rows) # 0 BY <3>2, <1>1
      <4> QED BY <3>2, <4>1, <1>1, <1>6 DEF Console!List
    <3> QED BY <3>1, <3>2
  <2>2. tabs' = [tabs EXCEPT ![t] = GoneOn(tabs[t], page, Len(rows), tabs[t].row,
                                           tabs[t].seen)]
    BY <2>1, <1>1 DEF TabStates, GoneOn
  <2>3. tabs[t].page = "list" /\ UNCHANGED <<rows, answers, informed, crossed>>
    BY <1>6 DEF Console!List
  <2>4. tabs[t].page \in Loading \ {"closed"} /\ page \in Pages /\ Len(rows) \in 0..Len(rows)
    BY <1>1, <2>1, <2>3 DEF Pages, Loading
  <2>5. page # "detail" \/ Len(rows) # 0 BY <2>1
  <2> QED BY <1>2, <1>3, <2>2, <2>3, <2>4, <2>5, LoadingGoesOn
<1>7. CASE Console!Detail(t)
  <2> DEFINE row == rows[tabs[t].run]
  <2>1. row \in Nat
    BY <1>1, <1>2, <1>3, <1>7 DEF Console!Detail, Placed
  <2>2. tabs' = [tabs EXCEPT ![t] = GoneOn(tabs[t], "live", tabs[t].run, row, row)]
    BY <1>7, <1>1 DEF Console!Detail, TabStates, GoneOn
  <2>3. tabs[t].page = "detail" /\ UNCHANGED <<rows, answers, informed, crossed>>
    BY <1>7 DEF Console!Detail
  <2>4. tabs[t].page \in Loading \ {"closed"} /\ "live" \in Pages /\ "live" # "detail"
    BY <2>3 DEF Pages, Loading
  <2> HIDE DEF row
  <2> QED BY <1>2, <1>3, <2>1, <2>2, <2>3, <2>4, LoadingGoesOn
<1> QED BY <1>4, <1>5, <1>6, <1>7

\* Who holds the row of its run, and was not crossed, has seen it.
LEMMA ChangingInvariant ==
  ASSUME ConsoleInv, NEW t \in Tabs, Console!CreateRun(t) \/ Console!Change(t)
  PROVE  ConsoleInv'
<1>1. tabs \in [Tabs -> TabStates] /\ tabs[t] \in TabStates /\ Len(rows) \in Nat
      /\ rows \in Seq(Nat) /\ Placed(tabs[t], Len(rows)) /\ informed
  BY DEF ConsoleInv, ConsoleTyped
<1>2. tabs[t].run \in 0..Len(rows) /\ tabs[t].stream.run \in 0..Len(rows) /\ tabs[t].loads \in Nat
  BY <1>1 DEF TabStates, Streams, Placed
<1>3. CASE Console!CreateRun(t)
  <2> DEFINE b == Console!Answer(t, "created", Len(rows) + 1, 0)
  <2>1. rows' = Append(rows, 0) /\ answers' \subseteq answers \cup {b} /\ tabs[t].page = "live"
    BY <1>3 DEF Console!CreateRun, Console!Replied, Console!Live
  <2>2. rows' \in Seq(Nat) /\ Len(rows') = Len(rows) + 1
    BY <1>1, <2>1
  <2>3. b \in AnswerStates /\ b.tab = t
    BY <1>1, <1>2 DEF Console!Answer, AnswerStates
  <2>4. Addressed(b, tabs[t], Len(rows) + 1)
    BY <1>1, <1>2, <2>1 DEF Console!Answer, Addressed
  <2> HIDE DEF b
  <2> QED BY <1>1, <1>3, <2>1, <2>2, <2>3, <2>4, ServerInvariant DEF Console!CreateRun
<1>4. CASE Console!Change(t)
  <2> DEFINE b == Console!Answer(t, "saved", tabs[t].run, rows[tabs[t].run] + 1)
  <2>1. /\ rows' = [rows EXCEPT ![tabs[t].run] = @ + 1] /\ answers' \subseteq answers \cup {b}
        /\ tabs[t].page = "live" /\ tabs[t].run # 0 /\ tabs[t].row = rows[tabs[t].run]
        /\ informed' = (informed /\ (t \in crossed \/ tabs[t].seen = rows[tabs[t].run]))
    BY <1>4 DEF Console!Change, Console!Replied, Console!Live, Console!Match
  <2>2. tabs[t].run \in 1..Len(rows) /\ rows[tabs[t].run] \in Nat
    BY <1>1, <1>2, <2>1
  <2>3. rows' \in Seq(Nat) /\ Len(rows') = Len(rows)
    BY <1>1, <2>1, <2>2
  <2>4. b \in AnswerStates /\ b.tab = t
    BY <1>1, <1>2, <2>2 DEF Console!Answer, AnswerStates
  <2>5. Addressed(b, tabs[t], Len(rows))
    BY <1>1, <1>2, <2>1, <2>2 DEF Console!Answer, Addressed
  <2>6. informed'
    BY <1>1, <2>1 DEF ConsoleInv, Followed
  <2> HIDE DEF b
  <2> QED BY <1>1, <1>4, <2>1, <2>3, <2>4, <2>5, <2>6, ServerInvariant DEF Console!Change
<1> QED BY <1>3, <1>4

\* The answer to a creation turns the page to a run that the tab has no events of.
LEMMA TakeInvariant ==
  ASSUME Shown \in Nat, ConsoleInv, NEW a \in answers, Console!Take(a)
  PROVE  ConsoleInv'
<1> DEFINE t == a.tab
           y == tabs[t]
<1>1. /\ a \in AnswerStates /\ t \in Tabs /\ y \in TabStates /\ Len(rows) \in Nat
      /\ a.run \in Nat /\ a.row \in Nat /\ Addressed(a, y, Len(rows))
      /\ Placed(y, Len(rows)) /\ (t \notin crossed => Followed(y))
      /\ tabs \in [Tabs -> TabStates] /\ answers \subseteq AnswerStates
      /\ \A b \in answers : b.tab = t => Addressed(b, y, Len(rows))
  BY DEF ConsoleInv, ConsoleTyped, AnswerStates
<1>2. UNCHANGED <<rows, informed>> /\ answers' = answers \ {a}
  BY DEF Console!Take
<1>3. CASE UNCHANGED <<tabs, crossed>>
  BY <1>1, <1>2, <1>3, ServerInvariant DEF ConsoleInv, ConsoleTyped
<1>4. CASE Console!Live(t) /\ y.loads = a.load /\ a.kind = "created" /\ Console!Created(a)
           /\ UNCHANGED crossed
  <2> DEFINE y1 == [y EXCEPT !.run = a.run]
             y2 == [y1 EXCEPT !.row = 0]
             y3 == [y2 EXCEPT !.seen = 0]
             x  == [y3 EXCEPT !.events = <<>>]
  <2>1. tabs' = [tabs EXCEPT ![t] = x]
    BY <1>1, <1>4 DEF Console!Created
  <2>2. y1 \in TabStates /\ y1.run = a.run /\ y1.stream = y.stream /\ y1.loads = y.loads
        /\ y1.page = y.page
    <3> HIDE DEF y, t
    <3> QED BY <1>1 DEF TabStates
  <2>3. y2 \in TabStates /\ y2.run = a.run /\ y2.stream = y.stream /\ y2.loads = y.loads
        /\ y2.page = y.page /\ y2.row = 0
    <3> HIDE DEF y1
    <3> QED BY <2>2 DEF TabStates
  <2>4. y3 \in TabStates /\ y3.run = a.run /\ y3.stream = y.stream /\ y3.loads = y.loads
        /\ y3.page = y.page /\ y3.row = 0 /\ y3.seen = 0
    <3> HIDE DEF y2
    <3> QED BY <2>3 DEF TabStates
  <2>5. x \in TabStates /\ x.run = a.run /\ x.stream = y.stream /\ x.loads = y.loads
        /\ x.page = y.page /\ x.row = 0 /\ x.seen = 0 /\ x.events = <<>>
    <3>1. << >> \in Seq(Nat) OBVIOUS
    <3> HIDE DEF y3
    <3> QED BY <2>4, <3>1 DEF TabStates
  <2> HIDE DEF x, y, t, y1, y2, y3
  <2>6. y.page = "live" /\ a.row = 0 /\ y.run # a.run /\ y.stream.run # a.run
    BY <1>1, <1>4 DEF Console!Live, Addressed, t, y
  <2>7. Placed(x, Len(rows))
    BY <1>1, <2>5, <2>6 DEF Placed, Addressed, Loading
  <2>8. Followed(x)
    <3>1. Delivered(x) = 0 /\ Len(x.events) = 0 BY <2>5, <2>6 DEF Delivered
    <3>2. << >> = Window(0, 0) BY DEF Window
    <3> QED BY <2>5, <3>1, <3>2 DEF Followed
  <2>9. ASSUME NEW b \in answers', b.tab = t PROVE Addressed(b, x, Len(rows))
    <3>1. b \in answers /\ b # a /\ b \in AnswerStates /\ Addressed(b, y, Len(rows))
      BY <1>1, <1>2, <2>9
    <3>2. CASE b.kind = "created" /\ b.load = x.loads
      <4>1. b.row = 0 /\ y.stream.run # b.run
        BY <3>1, <3>2, <2>5 DEF Addressed
      <4>2. b.tab = a.tab /\ b.kind = a.kind /\ b.load = a.load /\ b.row = a.row
        BY <1>4, <2>5, <2>6, <2>9, <3>2, <4>1 DEF t, y
      <4>3. b.run # a.run BY <1>1, <3>1, <4>2 DEF AnswerStates
      <4> QED BY <3>1, <3>2, <2>5, <4>1, <4>3 DEF Addressed
    <3>3. CASE ~ (b.kind = "created" /\ b.load = x.loads)
      BY <3>1, <3>3, <2>5 DEF Addressed
    <3> QED BY <3>2, <3>3
  <2> QED BY <1>1, <1>2, <1>4, <2>1, <2>5, <2>7, <2>8, <2>9, TabInvariant
<1>5. CASE Console!Live(t) /\ y.loads = a.load /\ Console!Saved(a)
  <2> DEFINE seen == IF y.run = a.run THEN a.row ELSE y.seen
             y1 == [y EXCEPT !.row = a.row]
             x  == [y1 EXCEPT !.seen = seen]
  <2>1. /\ tabs' = [tabs EXCEPT ![t] = x]
        /\ crossed' = IF y.run = a.run THEN crossed ELSE crossed \cup {t}
    BY <1>1, <1>5 DEF Console!Saved
  <2>2. seen \in Nat /\ (t \notin crossed' => seen = a.row)
    <3>1. y.seen \in Nat BY <1>1 DEF TabStates
    <3> HIDE DEF y, t
    <3> QED BY <1>1, <2>1, <3>1
  <2> HIDE DEF seen
  <2>3. y1 \in TabStates /\ y1.run = y.run /\ y1.stream = y.stream /\ y1.loads = y.loads
        /\ y1.page = y.page /\ y1.row = a.row /\ y1.events = y.events
    <3> HIDE DEF y, t
    <3> QED BY <1>1 DEF TabStates
  <2>4. x \in TabStates /\ x.run = y.run /\ x.stream = y.stream /\ x.loads = y.loads
        /\ x.page = y.page /\ x.row = a.row /\ x.seen = seen /\ x.events = y.events
    <3> HIDE DEF y1
    <3> QED BY <2>2, <2>3 DEF TabStates
  <2> HIDE DEF x, y, t, y1
  <2>5. Placed(x, Len(rows))
    BY <1>1, <2>4 DEF Placed
  <2>6. t \notin crossed' => Followed(x)
    <3> SUFFICES ASSUME t \notin crossed' PROVE Followed(x) OBVIOUS
    <3>1. Followed(y) BY <1>1, <2>1
    <3>2. Delivered(x) = Delivered(y) BY <2>4 DEF Delivered
    <3> QED BY <2>2, <2>4, <3>1, <3>2 DEF Followed
  <2>7. \A b \in answers' : b.tab = t => Addressed(b, x, Len(rows))
    BY <1>1, <1>2, <2>4 DEF Addressed
  <2>8. crossed' \in {crossed, crossed \cup {t}, crossed \ {t}} /\ answers' \subseteq answers
    BY <1>2, <2>1
  <2> QED BY <1>1, <1>2, <2>1, <2>4, <2>5, <2>6, <2>7, <2>8, TabInvariant
<1>6. \/ UNCHANGED <<tabs, crossed>>
      \/ Console!Live(t) /\ y.loads = a.load /\ a.kind = "created" /\ Console!Created(a)
         /\ UNCHANGED crossed
      \/ Console!Live(t) /\ y.loads = a.load /\ Console!Saved(a)
  BY DEF Console!Take
<1> HIDE DEF t, y
<1> QED BY <1>3, <1>4, <1>5, <1>6

\* A stream starts, breaks or resumes; what it delivered stays, or is nothing yet.
LEMMA StreamInvariant ==
  ASSUME Shown \in Nat, ConsoleInv, NEW t \in Tabs
  PROVE  Console!Subscribe(t) \/ Console!Break(t) \/ Console!Resume(t) => ConsoleInv'
<1> DEFINE y == tabs[t]
<1>1. /\ y \in TabStates /\ Len(rows) \in Nat /\ y.stream \in Streams
      /\ Placed(y, Len(rows)) /\ (t \notin crossed => Followed(y))
      /\ tabs \in [Tabs -> TabStates]
      /\ \A b \in answers : b.tab = t => Addressed(b, y, Len(rows))
  BY DEF ConsoleInv, ConsoleTyped, TabStates
<1>2. ASSUME NEW s \in Streams, tabs' = [tabs EXCEPT ![t].stream = s],
             UNCHANGED <<rows, answers, informed, crossed>>,
             \/ s.run = y.run /\ y.page = "live" /\ s.last = 0 /\ y.stream.run # y.run
             \/ s.run = y.stream.run /\ s.last = y.stream.last /\ y.page \notin Loading
      PROVE  ConsoleInv'
  <2> DEFINE x == [y EXCEPT !.stream = s]
  <2>1. tabs' = [tabs EXCEPT ![t] = x] BY <1>1, <1>2
  <2>2. x \in TabStates /\ x.run = y.run /\ x.stream = s /\ x.loads = y.loads
        /\ x.page = y.page /\ x.row = y.row /\ x.seen = y.seen /\ x.events = y.events
    <3> HIDE DEF y
    <3> QED BY <1>1 DEF TabStates
  <2> HIDE DEF x, y
  <2>3. Placed(x, Len(rows))
    BY <1>1, <1>2, <2>2 DEF Placed, Loading
  <2>4. t \notin crossed => Followed(x)
    <3> SUFFICES ASSUME t \notin crossed PROVE Followed(x) OBVIOUS
    <3>1. Followed(y) BY <1>1
    <3>2. Delivered(x) = Delivered(y) BY <1>2, <2>2 DEF Delivered
    <3> QED BY <2>2, <3>1, <3>2 DEF Followed
  <2>5. \A b \in answers : b.tab = t => Addressed(b, x, Len(rows))
    BY <1>1, <1>2, <2>2 DEF Addressed
  <2> QED BY <1>1, <1>2, <2>1, <2>2, <2>3, <2>4, <2>5, TabInvariant
<1>3. CASE Console!Subscribe(t)
  <2> DEFINE s == [run |-> y.run, last |-> 0, open |-> TRUE]
  <2>1. s \in Streams /\ s.run = y.run /\ s.last = 0 BY <1>1 DEF Streams, TabStates
  <2> HIDE DEF s
  <2>2. tabs' = [tabs EXCEPT ![t].stream = s] /\ y.page = "live" /\ y.stream.run # y.run
        /\ UNCHANGED <<rows, answers, informed, crossed>>
    BY <1>3 DEF Console!Subscribe, Console!Live, s
  <2> QED BY <2>1, <2>2, <1>2
<1>4. CASE Console!Break(t) \/ Console!Resume(t)
  <2>1. PICK open \in BOOLEAN : tabs' = [tabs EXCEPT ![t].stream.open = open]
    BY <1>4 DEF Console!Break, Console!Resume
  <2> DEFINE s == [y.stream EXCEPT !.open = open]
  <2>2. s \in Streams /\ s.run = y.stream.run /\ s.last = y.stream.last
    BY <1>1 DEF Streams
  <2>3. tabs' = [tabs EXCEPT ![t].stream = s] BY <2>1, <1>1
  <2>4. y.page \notin Loading
    BY <1>1, <1>4 DEF Console!Break, Console!Resume, Placed, Console!Blank, Console!Live, Loading
  <2>5. UNCHANGED <<rows, answers, informed, crossed>>
    BY <1>4 DEF Console!Break, Console!Resume
  <2> HIDE DEF s
  <2> QED BY <2>2, <2>3, <2>4, <2>5, <1>2
<1> QED BY <1>3, <1>4

Increasing(s) == \A i, j \in DOMAIN s : i < j => s[i] < s[j]

\* The sizes of sets of numbers that cannot be sorted; there are none.
Unsorted ==
    {n \in Nat : \E S \in SUBSET Nat :
        IsFiniteSet(S) /\ Cardinality(S) = n /\ ~ \E f \in [1..n -> S] : Increasing(f)}

LEMMA SortingExists ==
  ASSUME NEW S \in SUBSET Nat, IsFiniteSet(S)
  PROVE  \E f \in [1..Cardinality(S) -> S] : Increasing(f)
<1>1. Unsorted = {}
  <2> SUFFICES ASSUME Unsorted # {} PROVE FALSE OBVIOUS
  <2>1. PICK n \in Unsorted : \A m \in Unsorted : n <= m
    <3>1. Unsorted \in SUBSET Nat BY DEF Unsorted
    <3> QED BY <3>1, LeastNumber
  <2>2. PICK T \in SUBSET Nat :
          IsFiniteSet(T) /\ Cardinality(T) = n /\ ~ \E f \in [1..n -> T] : Increasing(f)
    BY <2>1 DEF Unsorted
  <2>3. n \in Nat BY DEF Unsorted
  <2>4. CASE T = {}
    <3>1. n = 0 BY <2>2, <2>4, FS_EmptySet
    <3>2. << >> \in [1..0 -> T] /\ Increasing(<< >>) BY DEF Increasing
    <3> QED BY <2>2, <3>1, <3>2
  <2>5. CASE T # {}
    <3>1. PICK least \in T : \A y \in T : least <= y BY <2>5, LeastNumber
    <3> DEFINE R == T \ {least}
    <3>2. R \in SUBSET Nat /\ IsFiniteSet(R) /\ Cardinality(R) = n - 1
      BY <2>2, FS_RemoveElement
    <3>3. n - 1 \in Nat /\ ~ (n <= n - 1)
      BY <2>3, <3>2, FS_CardinalityType
    <3>4. PICK g \in [1..(n - 1) -> R] : Increasing(g)
      <4>1. ~ (n - 1 \in Unsorted) BY <2>1, <3>3
      <4> HIDE DEF R
      <4> QED BY <3>2, <3>3, <4>1 DEF Unsorted
    <3> DEFINE f == [i \in 1..n |-> IF i = 1 THEN least ELSE g[i - 1]]
    <3>5. \A i \in 1..(n - 1) : g[i] \in T /\ least < g[i] /\ g[i] \in Nat /\ least \in Nat
      <4> SUFFICES ASSUME NEW i \in 1..(n - 1)
                   PROVE  g[i] \in T /\ least < g[i] /\ g[i] \in Nat /\ least \in Nat
        OBVIOUS
      <4>1. g[i] \in R BY <3>4
      <4>2. g[i] \in T /\ g[i] # least BY <4>1
      <4>3. g[i] \in Nat /\ least \in Nat /\ least <= g[i] BY <3>1, <4>2
      <4> QED BY <4>2, <4>3
    <3>6. \A i \in 1..n : i # 1 => i - 1 \in 1..(n - 1)
      BY <2>3
    <3>7. f \in [1..n -> T]
      <4>1. \A i \in 1..n : f[i] \in T BY <3>1, <3>5, <3>6
      <4> QED BY <4>1
    <3>8. ASSUME NEW i \in 1..n, NEW j \in 1..n, i < j PROVE f[i] < f[j]
      <4>1. j # 1 /\ j - 1 \in 1..(n - 1) /\ f[j] = g[j - 1] BY <3>8, <2>3
      <4>2. CASE i = 1 BY <4>1, <4>2, <3>5
      <4>3. CASE i # 1
        <5>1. i - 1 \in 1..(n - 1) /\ i - 1 < j - 1 /\ f[i] = g[i - 1] BY <4>3, <3>8, <2>3
        <5> QED BY <5>1, <4>1, <3>4 DEF Increasing
      <4> QED BY <4>2, <4>3
    <3>9. Increasing(f) BY <3>8 DEF Increasing
    <3> QED BY <2>2, <3>7, <3>9
  <2> QED BY <2>4, <2>5
<1>2. Cardinality(S) \in Nat BY FS_CardinalityType
<1> QED BY <1>1, <1>2 DEF Unsorted

\* Whatever numbers a list has, sorting them gives a list of numbers.
LEMMA SortedIsList ==
  ASSUME NEW S \in SUBSET Nat, IsFiniteSet(S)
  PROVE  LET s == Console!Sorted(S)
         IN  s \in Seq(Nat) /\ s \in [1..Cardinality(S) -> S] /\ Increasing(s)
<1> DEFINE s == Console!Sorted(S)
<1>1. Console!Cardinality(S) = Cardinality(S)
  BY DEF Console!Cardinality, Cardinality
<1>2. s = CHOOSE g \in [1..Cardinality(S) -> S] : Increasing(g)
  BY <1>1 DEF Console!Sorted, Increasing
<1> HIDE DEF s
<1>3. s \in [1..Cardinality(S) -> S] /\ Increasing(s)
  BY <1>2, SortingExists
<1>4. Cardinality(S) \in Nat BY FS_CardinalityType
<1>5. s \in Seq(Nat)
  <2> DEFINE n == Cardinality(S)
  <2>1. s \in [1..n -> Nat] /\ n \in Nat BY <1>3, <1>4
  <2> HIDE DEF n
  <2> QED BY <2>1
<1> QED BY <1>3, <1>5 DEF s

\* The sorted elements of an interval are the interval.
LEMMA SortedInterval ==
  ASSUME NEW a \in Nat, NEW m \in Nat
  PROVE  Console!Sorted(a..(a + m - 1)) = [i \in 1..m |-> a + i - 1]
<1> DEFINE S == a..(a + m - 1)
           s == Console!Sorted(S)
<1>1. S \in SUBSET Nat /\ IsFiniteSet(S) /\ Cardinality(S) = m
  BY FS_Interval
<1> HIDE DEF S
<1>2. s \in [1..m -> S] /\ Increasing(s) BY <1>1, SortedIsList
<1> HIDE DEF s
<1>3. \A i, j \in 1..m : i < j => s[i] < s[j] BY <1>2 DEF Increasing
<1>4. s \in [1..m -> a..(a + m - 1)] BY <1>2 DEF S
<1>5. s = [i \in 1..m |-> a + i - 1] BY <1>3, <1>4, IncreasingIsInterval
<1> QED BY <1>5 DEF s, S

\* A tab that something crossed shows numbers as well.
LEMMA ReceivedIsList ==
  ASSUME Shown \in Nat, NEW list \in Seq(Nat), NEW e \in Nat
  PROVE  Console!Received(list, e) \in Seq(Nat)
<1> DEFINE S == Console!ToSet(list) \cup {e}
           s == Console!Sorted(S)
<1>1. IsFiniteSet(1..Len(list)) /\ Len(list) \in Nat BY FS_Interval
<1>2. list \in Surjection(1..Len(list), Console!ToSet(list))
  BY DEF Surjection, Console!ToSet
<1>3. IsFiniteSet(Console!ToSet(list)) BY <1>1, <1>2, FS_Surjection
<1>4. IsFiniteSet(S) BY <1>3, FS_AddElement
<1>5. S \in SUBSET Nat BY DEF Console!ToSet
<1> HIDE DEF S
<1>6. s \in Seq(Nat) BY <1>4, <1>5, SortedIsList
<1>7. Console!Received(list, e) = Console!Latest(s) BY DEF Console!Received, S
<1> HIDE DEF s
<1>8. CASE Len(s) > Shown
  <2>1. Len(s) \in Nat /\ Len(s) - Shown + 1 \in 1..(Len(s) + 1) BY <1>6, <1>8
  <2>2. SubSeq(s, Len(s) - Shown + 1, Len(s)) \in Seq(Nat) BY <1>6, <2>1
  <2> QED BY <1>7, <1>8, <2>2 DEF Console!Latest
<1>9. CASE ~ (Len(s) > Shown)
  BY <1>6, <1>7, <1>9 DEF Console!Latest
<1> QED BY <1>8, <1>9

\* One more event than the list ends in, and the last Shown of them.
LEMMA ReceivedNext ==
  ASSUME Shown \in Nat, NEW last \in Nat, NEW n \in 0..last, n < Shown => n = last
  PROVE  LET next == Console!Received(Window(n, last), last + 1)
         IN  /\ next \in Seq(Nat) /\ Len(next) \in 0..(last + 1)
             /\ next = Window(Len(next), last + 1)
             /\ Len(next) < Shown => Len(next) = last + 1
<1> DEFINE old == Window(n, last)
           all == [i \in 1..(n + 1) |-> (last - n + 1) + i - 1]
           a == last - n + 1
           next == Console!Received(old, last + 1)
<1>1. Console!ToSet(old) \cup {last + 1} = a..(a + (n + 1) - 1)
  <2>0. old = [i \in 1..n |-> last - n + i] BY DEF Window
  <2>1. Console!ToSet(old) = a..last
    <3>1. \A i \in 1..n : old[i] \in a..last BY <2>0
    <3>2. ASSUME NEW e \in a..last PROVE \E i \in DOMAIN old : old[i] = e
      <4>1. e - (last - n) \in 1..n OBVIOUS
      <4>2. old[e - (last - n)] = e BY <2>0, <4>1
      <4> QED BY <2>0, <4>1, <4>2
    <3> QED BY <2>0, <3>1, <3>2 DEF Console!ToSet
  <2> HIDE DEF old
  <2> QED BY <2>1
<1>2. Console!Sorted(Console!ToSet(old) \cup {last + 1}) = all
  <2>1. a \in Nat /\ n + 1 \in Nat OBVIOUS
  <2>2. Console!Sorted(a..(a + (n + 1) - 1)) = [i \in 1..(n + 1) |-> a + i - 1]
    <3> HIDE DEF a
    <3> QED BY <2>1, SortedInterval
  <2> HIDE DEF old
  <2> QED BY <1>1, <2>2
<1>3. next = Console!Latest(all)
  <2> HIDE DEF old, all
  <2> QED BY <1>2 DEF Console!Received
<1>4. all \in Seq(Nat) /\ Len(all) = n + 1 /\ \A i \in 1..(n + 1) : all[i] = last - n + i
  OBVIOUS
<1> HIDE DEF all, next
<1>5. ASSUME n + 1 > Shown
      PROVE  /\ next \in Seq(Nat) /\ Len(next) \in 0..(last + 1)
             /\ next = Window(Len(next), last + 1)
             /\ Len(next) < Shown => Len(next) = last + 1
  <2> DEFINE kept == SubSeq(all, n + 1 - Shown + 1, n + 1)
  <2>1. Console!Latest(all) = kept
    BY <1>4, <1>5 DEF Console!Latest
  <2>2. kept \in Seq(Nat) /\ Len(kept) = Shown
        /\ \A i \in 1..Shown : kept[i] = all[n + 1 - Shown + i]
    BY <1>4, <1>5
  <2> HIDE DEF kept
  <2>3. next = kept BY <1>3, <2>1
  <2>4. next \in Seq(Nat) /\ Len(next) = Shown /\ Shown \in 0..(last + 1)
    BY <1>5, <2>2, <2>3
  <2>5. \A i \in 1..Shown : next[i] = last + 1 - Shown + i
    BY <1>4, <1>5, <2>2, <2>3
  <2>6. next = Window(Len(next), last + 1)
    BY <2>4, <2>5 DEF Window
  <2> QED BY <2>4, <2>6
<1>6. ASSUME ~ (n + 1 > Shown)
      PROVE  /\ next \in Seq(Nat) /\ Len(next) \in 0..(last + 1)
             /\ next = Window(Len(next), last + 1)
             /\ Len(next) < Shown => Len(next) = last + 1
  <2>1. Console!Latest(all) = all /\ n = last
    BY <1>4, <1>6 DEF Console!Latest
  <2>2. all = Window(Len(all), last + 1)
    BY <1>4, <2>1 DEF Window
  <2>3. next = all BY <1>3, <2>1
  <2> QED BY <1>4, <2>1, <2>2, <2>3
<1>7. /\ next \in Seq(Nat) /\ Len(next) \in 0..(last + 1)
      /\ next = Window(Len(next), last + 1)
      /\ Len(next) < Shown => Len(next) = last + 1
  BY <1>5, <1>6
<1> QED BY <1>7 DEF next

\* An event of the run on the page is the next one; any other crosses the tab.
LEMMA EventInvariant ==
  ASSUME Shown \in Nat, ConsoleInv, NEW t \in Tabs, Console!Event(t)
  PROVE  ConsoleInv'
<1> DEFINE y == tabs[t]
           e == y.stream.last + 1
           list == Console!Received(y.events, e)
           s == [y.stream EXCEPT !.last = e]
           y1 == [y EXCEPT !.stream = s]
           x == [y1 EXCEPT !.events = list]
<1>1. /\ y \in TabStates /\ Len(rows) \in Nat /\ y.stream \in Streams
      /\ Placed(y, Len(rows)) /\ (t \notin crossed => Followed(y))
      /\ tabs \in [Tabs -> TabStates]
      /\ \A b \in answers : b.tab = t => Addressed(b, y, Len(rows))
  BY DEF ConsoleInv, ConsoleTyped, TabStates
<1>2. /\ y.page = "live" /\ tabs' = [tabs EXCEPT ![t] = x]
      /\ crossed' = IF y.stream.run = y.run THEN crossed ELSE crossed \cup {t}
      /\ UNCHANGED <<rows, answers, informed>>
  BY <1>1 DEF Console!Event, Console!Live, TabStates, Streams
<1>3. y.stream.last \in Nat /\ e \in Nat /\ y.events \in Seq(Nat)
  BY <1>1 DEF Streams, TabStates
<1>4. list \in Seq(Nat)
  <2> HIDE DEF y, e
  <2> QED BY <1>3, ReceivedIsList
<1>5. s \in Streams /\ s.run = y.stream.run /\ s.last = e
  <2> HIDE DEF e, y
  <2> QED BY <1>1, <1>3 DEF Streams
<1> HIDE DEF s, list
<1>6. y1 \in TabStates /\ y1.run = y.run /\ y1.stream = s /\ y1.loads = y.loads
      /\ y1.page = y.page /\ y1.row = y.row /\ y1.seen = y.seen
  <2> HIDE DEF y
  <2> QED BY <1>1, <1>5 DEF TabStates
<1>7. x \in TabStates /\ x.run = y.run /\ x.stream = s /\ x.loads = y.loads
      /\ x.page = y.page /\ x.row = y.row /\ x.seen = y.seen /\ x.events = list
  <2> HIDE DEF y1
  <2> QED BY <1>4, <1>6 DEF TabStates
<1> HIDE DEF x, y1, y
<1>8. Placed(x, Len(rows))
  BY <1>1, <1>2, <1>5, <1>7 DEF Placed, Loading
<1>9. t \notin crossed' => Followed(x)
  <2> SUFFICES ASSUME t \notin crossed' PROVE Followed(x) OBVIOUS
  <2> DEFINE n == Len(y.events)
             last == y.stream.last
  <2>1. y.stream.run = y.run /\ Followed(y) BY <1>1, <1>2
  <2>2. Delivered(y) = last /\ Delivered(x) = last + 1
    BY <1>5, <1>7, <2>1 DEF Delivered
  <2>3. n \in 0..last /\ (n < Shown => n = last) /\ y.seen = y.row
        /\ y.events = Window(n, last)
    BY <1>3, <2>1, <2>2 DEF Followed
  <2>4. list = Console!Received(Window(n, last), last + 1)
    BY <2>3 DEF list
  <2> HIDE DEF n, last
  <2>5. last \in Nat BY <1>3 DEF last
  <2>6. /\ list \in Seq(Nat) /\ Len(list) \in 0..(last + 1)
        /\ list = Window(Len(list), last + 1)
        /\ Len(list) < Shown => Len(list) = last + 1
    BY <2>3, <2>4, <2>5, ReceivedNext
  <2>7. Len(list) <= last + 1 BY <2>5, <2>6
  <2> QED BY <1>7, <2>2, <2>3, <2>6, <2>7 DEF Followed
<1>10. \A b \in answers : b.tab = t => Addressed(b, x, Len(rows))
  BY <1>1, <1>5, <1>7 DEF Addressed
<1>11. crossed' \in {crossed, crossed \cup {t}, crossed \ {t}}
  BY <1>2
<1> QED BY <1>2, <1>7, <1>8, <1>9, <1>10, <1>11, TabInvariant DEF y

LEMMA ConsoleStepInvariant ==
  ASSUME Shown \in Nat, ConsoleInv, [Console!Next]_(Console!vars) PROVE ConsoleInv'
<1>1. rows \in Seq(Nat) /\ Len(rows) \in Nat /\ informed
  BY DEF ConsoleInv, ConsoleTyped
<1>2. CASE Console!Engine
  <2>1. PICK r \in Console!Runs : rows' = [rows EXCEPT ![r] = @ + 1]
    BY <1>2 DEF Console!Engine
  <2>2. rows' \in Seq(Nat) /\ Len(rows') = Len(rows)
    BY <1>1, <2>1 DEF Console!Runs
  <2> QED BY <1>1, <1>2, <2>2, ServerInvariant DEF Console!Engine
<1>3. CASE UNCHANGED Console!vars
  BY <1>1, <1>3, ServerInvariant DEF Console!vars
<1>4. ASSUME NEW a \in answers, Console!Take(a) PROVE ConsoleInv'
  BY <1>4, TakeInvariant
<1>5. ASSUME NEW t \in Tabs, Console!CreateRun(t) \/ Console!Change(t) PROVE ConsoleInv'
  BY <1>5, ChangingInvariant
<1>6. ASSUME NEW t \in Tabs, Console!Event(t) PROVE ConsoleInv'
  BY <1>6, EventInvariant
<1> QED BY <1>2, <1>3, <1>4, <1>5, <1>6, LoadingInvariant, StreamInvariant DEF Console!Next

(***************************************************************************)
(* While nothing of another run got in, no tab changes a run it does not   *)
(* show as it is, and the events it shows are the last of those its stream *)
(* delivered, without a gap (apps/web, App): for any tabs, runs and length *)
(* of the list, however loads, answers, streams and changes overlap.       *)
(***************************************************************************)
THEOREM InformedConsole == Console!Spec => []Console!ConsoleIsInformed
<1>1. Console!Init => ConsoleInv BY ConsoleInitInvariant, ConsoleAssumption
<1>2. ConsoleInv /\ [Console!Next]_(Console!vars) => ConsoleInv'
  BY ConsoleStepInvariant, ConsoleAssumption
<1>3. ConsoleInv => Console!ConsoleIsInformed
  BY DEF ConsoleInv, Followed, Delivered, Window, Console!ConsoleIsInformed
<1> QED BY <1>1, <1>2, <1>3, PTL DEF Console!Spec

\* No run has more changes than the runs may have together.
RowsBounded == rows \in Seq(0..RunChanges)

\* Where there is room for a change, every run has room for it.
LEMMA RoomForOne ==
  ASSUME RunChanges \in Nat, RowsBounded, Console!Room, NEW r \in Console!Runs
  PROVE  rows[r] + 1 \in 0..RunChanges
<1>1. Len(rows) \in Nat /\ r \in 1..Len(rows)
      /\ \A q \in 1..Len(rows) : rows[q] \in 0..RunChanges
  BY DEF RowsBounded, Console!Runs
<1>2. /\ IsFiniteSet((1..Len(rows)) \X (1..RunChanges))
  <2>1. IsFiniteSet(1..Len(rows)) /\ IsFiniteSet(1..RunChanges)
    BY <1>1, FS_Interval
  <2> QED BY <2>1, FS_Product
<1>3. Console!Changes \subseteq (1..Len(rows)) \X (1..RunChanges)
  <2> SUFFICES ASSUME NEW q \in 1..Len(rows), NEW k \in 1..rows[q]
               PROVE  k \in 1..RunChanges
    BY DEF Console!Changes, Console!Runs
  <2> QED BY <1>1
<1>4. IsFiniteSet(Console!Changes)
  BY <1>2, <1>3, FS_Subset
<1>5. {r} \X (1..rows[r]) \subseteq Console!Changes
  BY <1>1 DEF Console!Changes, Console!Runs
<1>6. Cardinality({r} \X (1..rows[r])) = rows[r]
  <2>1. IsFiniteSet({r}) /\ Cardinality({r}) = 1 BY FS_Singleton
  <2>2. IsFiniteSet(1..rows[r]) /\ Cardinality(1..rows[r]) = rows[r]
    <3>1. rows[r] \in Nat BY <1>1
    <3>2. \A k \in Nat : IsFiniteSet(1..k) /\ Cardinality(1..k) = k BY FS_Interval
    <3> QED BY <3>1, <3>2
  <2>3. Cardinality({r} \X (1..rows[r])) = Cardinality({r}) * Cardinality(1..rows[r])
    BY <2>1, <2>2, FS_Product
  <2> QED BY <1>1, <2>1, <2>2, <2>3
<1>7. rows[r] <= Cardinality(Console!Changes)
  BY <1>4, <1>5, <1>6, FS_Subset
<1>8. Cardinality(Console!Changes) < RunChanges /\ Cardinality(Console!Changes) \in Nat
  <2>1. Console!Cardinality(Console!Changes) = Cardinality(Console!Changes)
    BY DEF Console!Cardinality, Cardinality
  <2> QED BY <1>4, <2>1, FS_CardinalityType DEF Console!Room
<1> QED BY <1>1, <1>7, <1>8

LEMMA RowsBoundedStep ==
  ASSUME RunChanges \in Nat, ConsoleInv, RowsBounded, [Console!Next]_(Console!vars)
  PROVE  RowsBounded'
<1>1. ASSUME NEW r \in Console!Runs, Console!Room, rows' = [rows EXCEPT ![r] = @ + 1]
      PROVE  RowsBounded'
  <2>1. rows[r] + 1 \in 0..RunChanges BY <1>1, RoomForOne
  <2> QED BY <1>1, <2>1 DEF RowsBounded, Console!Runs
<1>2. CASE Console!Engine
  BY <1>1, <1>2 DEF Console!Engine
<1>3. ASSUME NEW t \in Tabs, Console!Change(t) PROVE RowsBounded'
  <2>1. tabs[t].run \in Console!Runs
    <3>1. tabs[t] \in TabStates /\ Placed(tabs[t], Len(rows)) /\ Len(rows) \in Nat
      BY DEF ConsoleInv, ConsoleTyped
    <3>2. tabs[t].run \in Nat /\ tabs[t].run # 0 /\ tabs[t].run <= Len(rows)
      BY <1>3, <3>1 DEF TabStates, Placed, Console!Change
    <3> QED BY <3>1, <3>2 DEF Console!Runs
  <2> QED BY <1>1, <1>3, <2>1 DEF Console!Change
<1>4. ASSUME NEW t \in Tabs, Console!CreateRun(t) PROVE RowsBounded'
  <2>1. 0 \in 0..RunChanges OBVIOUS
  <2> QED BY <1>4, <2>1 DEF RowsBounded, Console!CreateRun
<1>5. CASE UNCHANGED rows
  BY <1>5 DEF RowsBounded
<1> QED BY <1>2, <1>3, <1>4, <1>5 DEF Console!Next, Console!vars, Console!Take, Console!Open,
    Console!Bootstrap, Console!List, Console!Detail, Console!Subscribe, Console!Break,
    Console!Resume, Console!Event

\* Runs, tabs and the pages they show keep their types.
THEOREM ConsoleTypes == Console!Spec => []Console!TypeOK
<1>1. Console!Init => ConsoleInv /\ RowsBounded
  <2>1. <<>> \in Seq(0..RunChanges) OBVIOUS
  <2> QED BY <2>1, ConsoleInitInvariant, ConsoleAssumption DEF Console!Init, RowsBounded
<1>2. ConsoleInv /\ RowsBounded /\ [Console!Next]_(Console!vars) => ConsoleInv' /\ RowsBounded'
  BY ConsoleStepInvariant, RowsBoundedStep, ConsoleAssumption
<1>3. ConsoleInv /\ RowsBounded => Console!TypeOK
  <2> SUFFICES ASSUME ConsoleInv, RowsBounded PROVE Console!TypeOK OBVIOUS
  <2>1. crossed \subseteq Tabs BY DEF ConsoleInv, ConsoleTyped
  <2>2. ASSUME NEW t \in Tabs PROVE tabs[t].page \in Pages /\ tabs[t].run \in 0..Len(rows)
    <3>1. tabs[t] \in TabStates /\ Placed(tabs[t], Len(rows)) /\ Len(rows) \in Nat
      BY DEF ConsoleInv, ConsoleTyped
    <3> QED BY <3>1 DEF TabStates, Placed
  <2> QED BY <2>1, <2>2 DEF Console!TypeOK, RowsBounded, Pages, Loading
<1> QED BY <1>1, <1>2, <1>3, PTL DEF Console!Spec
=============================================================================
