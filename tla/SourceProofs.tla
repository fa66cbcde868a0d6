---------------------------- MODULE SourceProofs -----------------------------
(***************************************************************************)
(* Proofs about what reaches the host.  Each part has an invariant         *)
(* of its own, named after the component; constants have the assumptions of *)
(* the group's module.                                                     *)
(***************************************************************************)
EXTENDS SourceParts, TLAPS

-----------------------------------------------------------------------------
(***************************************************************************)
(* What a flow returns is accounted for, for any number of processes and   *)
(* faults.                                                                 *)
(*                                                                         *)
(* The invariant has two parts.  While nothing went wrong, every command   *)
(* of the list is still to do or COMPLETED, and the cleanup is still to    *)
(* do, done or residue.  In the first process, what exists is flagged, or  *)
(* its revocation was answered with a failed result.                       *)
(***************************************************************************)

Options == [acquire : BOOLEAN, secret : BOOLEAN]
Lists == Seq(Runtime!MainSteps) \cup Seq(Runtime!CleanupSteps)
Flows ==
    [pc : {"idle", "step", "ask", "record", "returned"}, todo : Lists, created : BOOLEAN,
     guard : BOOLEAN, stored : BOOLEAN, stopped : BOOLEAN, destroyed : BOOLEAN,
     emergency : BOOLEAN, error : {"none", "failed"} \cup Runtime!Stops, residue : BOOLEAN,
     answer : {"none", "SUCCEEDED", "FAILED"}, aborted : BOOLEAN]
Worlds == [runtime : {"none", "live", "gone"}, guard : BOOLEAN, secret : BOOLEAN]

RuntimeTyped ==
    /\ input \in Options /\ flow \in Flows /\ world \in Worlds
    /\ entries = [s \in Runtime!Steps |-> entries[s]]
    /\ \A s \in Runtime!Steps : entries[s].phase \in {"none", "PREPARED", "COMPLETED"}
    /\ taken \subseteq Runtime!Steps
    /\ result.cleanup \in {"none", "COMPLETE", "RESIDUE", "NOT_NEEDED"}
    /\ calls \in 0..RuntimeCalls /\ faults \in 0..RuntimeFaults

InList(s, q) == \E i \in DOMAIN q : q[i] = s
Work(f) == f.todo \in Seq(Runtime!MainSteps) /\ f.todo # <<>>
Clean(f) == f.todo \in Seq(Runtime!CleanupSteps)
Granted(s, e) == e[s].phase = "COMPLETED" /\ e[s].state = "SUCCEEDED"
Denied(s, e) == e[s].phase = "COMPLETED" /\ e[s].state # "SUCCEEDED"

\* What a step that was begun is flagged with.
Flagged(f) ==
    /\ Head(f.todo) = "create" => f.created
    /\ Head(f.todo) = "admit" => f.guard
    /\ Head(f.todo) = "store" => f.stored

\* In any process: what is not to do any more was done.
Progress(f, e) ==
    /\ Work(f) => f.error = "none" /\ ~f.destroyed
    /\ f.pc \in {"ask", "record"} => f.todo # <<>> /\ Flagged(f)
    /\ f.error = "none" =>
         /\ \A s \in Runtime!MainSteps :
              InList(s, Runtime!Main(input)) => InList(s, f.todo) \/ e[s].phase = "COMPLETED"
         /\ InList("create", f.todo) \/ f.created
         /\ Work(f) \/ InList("stop", f.todo) \/ f.stopped \/ f.residue

\* In the first process: what exists is known to it.
Known(f, e, w) ==
    /\ w.runtime = "live" => f.created
    /\ f.destroyed => w.runtime # "live"
    /\ w.guard => f.guard \/ Denied("guard-revoke", e)
    /\ w.secret => f.stored \/ Denied("secret-revoke", e)
    /\ Work(f) => \A s \in Runtime!CleanupSteps : e[s].phase # "COMPLETED"
    /\ Granted("destroy", e) => w.runtime # "live"
    /\ Granted("guard-revoke", e) => ~w.guard
    /\ Granted("secret-revoke", e) => ~w.secret
    /\ f.pc = "record" /\ f.answer = "SUCCEEDED" =>
         /\ Head(f.todo) = "destroy" => w.runtime # "live"
         /\ Head(f.todo) = "guard-revoke" => ~w.guard
         /\ Head(f.todo) = "secret-revoke" => ~w.secret

\* Before the first process there is nothing.
Untouched ==
    /\ flow.pc = "idle" /\ world.runtime = "none" /\ ~world.guard /\ ~world.secret
    /\ \A s \in Runtime!Steps : entries[s].phase = "none"

RuntimeSound(f, e, w) ==
    /\ f.pc # "idle" => Progress(f, e)
    /\ calls = 1 /\ f.pc # "idle" => Known(f, e, w)

RuntimeInv ==
    /\ RuntimeTyped
    /\ RuntimeSound(flow, entries, world)
    /\ calls = 0 => Untouched
    /\ Runtime!FlowIsAccounted

-----------------------------------------------------------------------------
\* The lists of steps.

\* Joining two lists.
LEMMA ConcatList ==
  ASSUME NEW S, NEW a \in Seq(S), NEW b \in Seq(S)
  PROVE  /\ a \o b \in Seq(S)
         /\ \A x : InList(x, a \o b) <=> InList(x, a) \/ InList(x, b)
<1>1. a \o b \in Seq(S) /\ Len(a \o b) = Len(a) + Len(b)
  OBVIOUS
<1>2. \A i \in 1..Len(a) : (a \o b)[i] = a[i]
  OBVIOUS
<1>3. \A i \in 1..Len(b) : (a \o b)[i + Len(a)] = b[i]
  OBVIOUS
<1>4. Len(a) \in Nat /\ Len(b) \in Nat
  OBVIOUS
<1>5. ASSUME NEW x, InList(x, a \o b) PROVE InList(x, a) \/ InList(x, b)
  <2>1. PICK i \in 1..Len(a \o b) : (a \o b)[i] = x
    BY <1>1, <1>5 DEF InList
  <2>2. CASE i \in 1..Len(a)
    BY <1>2, <2>1, <2>2 DEF InList
  <2>3. CASE i \notin 1..Len(a)
    <3>1. i - Len(a) \in 1..Len(b) /\ i = (i - Len(a)) + Len(a)
      BY <1>1, <1>4, <2>1, <2>3
    <3>2. b[i - Len(a)] = x
      BY <1>3, <2>1, <3>1
    <3> QED BY <3>1, <3>2 DEF InList
  <2> QED BY <2>2, <2>3
<1>6. ASSUME NEW x, InList(x, a) PROVE InList(x, a \o b)
  <2>1. PICK i \in 1..Len(a) : a[i] = x
    BY <1>6 DEF InList
  <2>2. i \in 1..Len(a \o b)
    BY <1>1, <1>4
  <2> QED BY <1>1, <1>2, <2>1, <2>2 DEF InList
<1>7. ASSUME NEW x, InList(x, b) PROVE InList(x, a \o b)
  <2>1. PICK i \in 1..Len(b) : b[i] = x
    BY <1>7 DEF InList
  <2>2. i + Len(a) \in 1..Len(a \o b)
    BY <1>1, <1>4
  <2> QED BY <1>1, <1>3, <2>1, <2>2 DEF InList
<1> QED BY <1>1, <1>5, <1>6, <1>7

\* Passing a step over.
LEMMA TailList ==
  ASSUME NEW S, NEW q \in Seq(S), q # <<>>
  PROVE  /\ Tail(q) \in Seq(S) /\ Head(q) \in S /\ InList(Head(q), q)
         /\ \A x : InList(x, q) => x = Head(q) \/ InList(x, Tail(q))
         /\ ~(Len(q) > 1) => \A x : InList(x, q) => x = Head(q)
         /\ Len(q) > 1 => Tail(q) # <<>>
<1>1. /\ Len(q) \in Nat \ {0} /\ Head(q) = q[1] /\ Len(Tail(q)) = Len(q) - 1
      /\ Tail(q) \in Seq(S) /\ q[1] \in S
  OBVIOUS
<1>2. \A i \in 1..(Len(q) - 1) : Tail(q)[i] = q[i + 1]
  OBVIOUS
<1>3. ASSUME NEW x, InList(x, q), x # Head(q) PROVE Len(q) > 1 /\ InList(x, Tail(q))
  <2>1. PICK i \in 1..Len(q) : q[i] = x
    BY <1>3 DEF InList
  <2>2. i - 1 \in 1..(Len(q) - 1) /\ (i - 1) + 1 = i
    BY <1>1, <1>3, <2>1
  <2>3. Tail(q)[i - 1] = x /\ i - 1 \in DOMAIN Tail(q)
    BY <1>1, <1>2, <2>1, <2>2
  <2>4. InList(x, Tail(q))
    BY <2>3 DEF InList
  <2>5. Len(q) > 1
    BY <1>1, <2>2
  <2> QED BY <2>4, <2>5
<1>4. InList(Head(q), q)
  BY <1>1 DEF InList
<1>5. Len(q) > 1 => Tail(q) # <<>>
  BY <1>1
<1> QED BY <1>1, <1>3, <1>4, <1>5

\* The list of commands is one of main steps and creates the runtime.
LEMMA MainList ==
  ASSUME NEW i \in Options
  PROVE  Runtime!Main(i) \in Seq(Runtime!MainSteps) /\ Runtime!Main(i) # <<>>
         /\ InList("create", Runtime!Main(i))
<1> DEFINE a == <<"preflight", "create", "stage", "compile">>
           b == Runtime!When(i.acquire, <<"acquire">>)
           c == <<"build", "start", "heartbeat", "issue", "admit">>
           d == Runtime!When(i.secret, <<"store", "consume">>)
           p == <<"probe", "collect">>
<1>1. a \in Seq(Runtime!MainSteps) /\ c \in Seq(Runtime!MainSteps)
      /\ p \in Seq(Runtime!MainSteps)
  BY DEF Runtime!MainSteps, Runtime!Required
<1>2. <<"acquire">> \in Seq(Runtime!MainSteps)
      /\ <<"store", "consume">> \in Seq(Runtime!MainSteps)
  BY DEF Runtime!MainSteps
<1>3. b \in Seq(Runtime!MainSteps) /\ d \in Seq(Runtime!MainSteps)
  BY <1>2 DEF Runtime!When
<1>4. InList("create", a)
  <2>1. a[2] = "create" /\ 2 \in DOMAIN a
    OBVIOUS
  <2> QED BY <2>1 DEF InList
<1> HIDE DEF a, b, c, d, p
<1>5. a \o b \in Seq(Runtime!MainSteps) /\ InList("create", a \o b)
  BY <1>1, <1>3, <1>4, ConcatList
<1>6. (a \o b) \o c \in Seq(Runtime!MainSteps) /\ InList("create", (a \o b) \o c)
  BY <1>1, <1>5, ConcatList
<1>7. ((a \o b) \o c) \o d \in Seq(Runtime!MainSteps)
      /\ InList("create", ((a \o b) \o c) \o d)
  BY <1>3, <1>6, ConcatList
<1>8. (((a \o b) \o c) \o d) \o p \in Seq(Runtime!MainSteps)
      /\ InList("create", (((a \o b) \o c) \o d) \o p)
  BY <1>1, <1>7, ConcatList
<1>9. Runtime!Main(i) = (((a \o b) \o c) \o d) \o p
  BY DEF Runtime!Main, a, b, c, d, p
<1>10. Runtime!Main(i) \in Seq(Runtime!MainSteps) /\ InList("create", Runtime!Main(i))
  BY <1>8, <1>9
<1>11. Runtime!Main(i) # <<>>
  BY <1>10 DEF InList
<1> QED BY <1>10, <1>11

\* The cleanup is one of cleanup steps and stops a runtime that was created.
LEMMA FinallyList ==
  ASSUME NEW f \in Flows
  PROVE  /\ Runtime!Finally(f) \in Seq(Runtime!CleanupSteps)
         /\ f.error = "none" /\ f.created => InList("stop", Runtime!Finally(f))
<1> DEFINE a == Runtime!When(f.guard, <<"guard-revoke">>)
           b == Runtime!When(f.stored, <<"secret-revoke">>)
           c == Runtime!When(f.created, <<"stop", "destroy">>)
           d == <<"emergency-stop", "destroy">>
<1>1. /\ <<"guard-revoke">> \in Seq(Runtime!CleanupSteps)
         /\ <<"secret-revoke">> \in Seq(Runtime!CleanupSteps)
      /\ <<"stop", "destroy">> \in Seq(Runtime!CleanupSteps)
         /\ d \in Seq(Runtime!CleanupSteps)
  BY DEF Runtime!CleanupSteps
<1>2. a \in Seq(Runtime!CleanupSteps) /\ b \in Seq(Runtime!CleanupSteps)
      /\ c \in Seq(Runtime!CleanupSteps)
  BY <1>1 DEF Runtime!When
<1>3. ASSUME f.created PROVE InList("stop", c)
  <2>1. c = <<"stop", "destroy">>
    BY <1>3 DEF Runtime!When
  <2>2. c[1] = "stop" /\ 1 \in DOMAIN c
    BY <2>1
  <2> QED BY <2>2 DEF InList
<1>4. Runtime!Finally(f) = IF f.error \in Runtime!Stops THEN d ELSE (a \o b) \o c
  BY DEF Runtime!Finally
<1>5. "none" \notin Runtime!Stops
  BY DEF Runtime!Stops
<1> HIDE DEF a, b, c, d
<1>6. a \o b \in Seq(Runtime!CleanupSteps)
  BY <1>2, ConcatList
<1>7. (a \o b) \o c \in Seq(Runtime!CleanupSteps)
      /\ (InList("stop", c) => InList("stop", (a \o b) \o c))
  BY <1>2, <1>6, ConcatList
<1> QED BY <1>1, <1>3, <1>4, <1>5, <1>7

\* A list of steps to do is of one of the two kinds.
LEMMA StepKind ==
  ASSUME NEW f \in Flows, f.todo # <<>>
  PROVE  /\ Head(f.todo) \in Runtime!Steps
         /\ Work(f) <=> Head(f.todo) \in Runtime!MainSteps
         /\ Work(f) <=> Head(f.todo) \notin Runtime!CleanupSteps
         /\ Clean(f) <=> Head(f.todo) \in Runtime!CleanupSteps
<1>1. Runtime!MainSteps \cap Runtime!CleanupSteps = {}
  BY DEF Runtime!MainSteps, Runtime!Required, Runtime!CleanupSteps
<1>2. f.todo \in Seq(Runtime!MainSteps) => Head(f.todo) \in Runtime!MainSteps
  BY TailList
<1>3. f.todo \in Seq(Runtime!CleanupSteps) => Head(f.todo) \in Runtime!CleanupSteps
  BY TailList
<1>4. f.todo \in Seq(Runtime!MainSteps) \/ f.todo \in Seq(Runtime!CleanupSteps)
  BY DEF Flows, Lists
<1> QED BY <1>1, <1>2, <1>3, <1>4 DEF Work, Clean, Runtime!Steps

-----------------------------------------------------------------------------
\* What becomes of the process.

Errors == {"failed"} \cup Runtime!Stops

LEMMA FreshFlow ==
  ASSUME NEW i \in Options
  PROVE  /\ Runtime!Fresh(i) \in Flows /\ Runtime!Idle \in Flows
            /\ Runtime!Fresh(i).pc = "step" /\ Runtime!Idle.pc = "idle"
         /\ Runtime!Fresh(i).todo = Runtime!Main(i) /\ Work(Runtime!Fresh(i))
            /\ Runtime!Fresh(i).error = "none"
         /\ ~Runtime!Fresh(i).created /\ ~Runtime!Fresh(i).guard /\ ~Runtime!Fresh(i).stored
            /\ ~Runtime!Fresh(i).destroyed
<1>1. ASSUME NEW j \in Options PROVE Runtime!Fresh(j) \in Flows
  BY MainList DEF Runtime!Fresh, Flows, Lists
<1>2. [acquire |-> FALSE, secret |-> FALSE] \in Options
  BY DEF Options
<1>3. Runtime!Fresh([acquire |-> FALSE, secret |-> FALSE]) \in Flows
  BY <1>1, <1>2
<1>4. Runtime!Idle \in Flows /\ Runtime!Idle.pc = "idle"
  BY <1>3 DEF Runtime!Idle, Flows
<1>5. Work(Runtime!Fresh(i))
  BY MainList DEF Work, Runtime!Fresh
<1> QED BY <1>1, <1>4, <1>5 DEF Runtime!Fresh

\* Before the effect, a flag may be set and nothing else changes.
LEMMA BegunFlow ==
  ASSUME flow \in Flows
  PROVE  /\ Runtime!Begun \in Flows /\ Runtime!Begun.pc = flow.pc
            /\ Runtime!Begun.todo = flow.todo
         /\ Runtime!Begun.error = flow.error /\ Runtime!Begun.destroyed = flow.destroyed
         /\ Runtime!Begun.stopped = flow.stopped /\ Runtime!Begun.residue = flow.residue
         /\ flow.created => Runtime!Begun.created
         /\ flow.guard => Runtime!Begun.guard
         /\ flow.stored => Runtime!Begun.stored
         /\ Flagged(Runtime!Begun)
<1> DEFINE c == flow.created \/ Runtime!Step = "create"
           g == flow.guard \/ Runtime!Step = "admit"
           d == flow.stored \/ Runtime!Step = "store"
<1>1. c \in BOOLEAN /\ g \in BOOLEAN /\ d \in BOOLEAN
  OBVIOUS
<1>2. /\ flow.created \/ Runtime!Step = "create" => c
      /\ flow.guard \/ Runtime!Step = "admit" => g
      /\ flow.stored \/ Runtime!Step = "store" => d
  OBVIOUS
<1>3. Runtime!Begun = [flow EXCEPT !.created = c, !.guard = g, !.stored = d]
  BY DEF Runtime!Begun
<1> HIDE DEF c, g, d
<1>4. /\ Runtime!Begun \in Flows
      /\ Runtime!Begun.pc = flow.pc
      /\ Runtime!Begun.todo = flow.todo
      /\ Runtime!Begun.error = flow.error /\ Runtime!Begun.destroyed = flow.destroyed
      /\ Runtime!Begun.stopped = flow.stopped /\ Runtime!Begun.residue = flow.residue
      /\ Runtime!Begun.created = c /\ Runtime!Begun.guard = g /\ Runtime!Begun.stored = d
  BY <1>1, <1>3 DEF Flows
<1> QED BY <1>2, <1>4 DEF Flagged, Runtime!Step

\* An error leads to the cleanup, with the flags as they are.
LEMMA ThrownFlow ==
  ASSUME NEW f \in Flows, f.todo = flow.todo, f.todo # <<>>, NEW error \in Errors
  PROVE  LET t == Runtime!Thrown(f, error)
         IN /\ t \in Flows /\ t.pc = "step" /\ Clean(t) /\ t.error # "none"
            /\ t.created = f.created /\ t.guard = f.guard /\ t.stored = f.stored
            /\ t.destroyed = f.destroyed
<1>1. CASE Runtime!Cleaning
  <2> DEFINE e == IF Runtime!Step = "emergency-stop"
      \/ f.error = "none" THEN error ELSE f.error
  <2>1. f.todo \in Seq(Runtime!CleanupSteps)
    BY <1>1, StepKind DEF Runtime!Cleaning, Runtime!Step, Clean
  <2>2. Tail(f.todo) \in Seq(Runtime!CleanupSteps)
    BY <2>1, TailList
  <2>3. e \in {"none", "failed"} \cup Runtime!Stops /\ e # "none"
    BY DEF Errors, Flows, Runtime!Stops
  <2>4. Runtime!Thrown(f, error) = [f EXCEPT !.error = e, !.residue = TRUE,
        !.todo = Tail(f.todo),
                                     !.pc = "step"]
    BY <1>1 DEF Runtime!Thrown, Flows
  <2> HIDE DEF e
  <2> QED BY <2>2, <2>3, <2>4 DEF Flows, Lists, Clean
<1>2. CASE ~Runtime!Cleaning
  <2> DEFINE g == [f EXCEPT !.error = error, !.pc = "step"]
  <2>1. /\ g \in Flows /\ g.pc = "step" /\ g.error # "none"
        /\ g.created = f.created /\ g.guard = f.guard /\ g.stored = f.stored
        /\ g.destroyed = f.destroyed
    BY DEF Errors, Flows, Runtime!Stops
  <2>2. Runtime!Thrown(f, error) = [g EXCEPT !.todo = Runtime!Finally(g)]
    BY <1>2 DEF Runtime!Thrown
  <2> HIDE DEF g
  <2>3. Runtime!Finally(g) \in Seq(Runtime!CleanupSteps)
    BY <2>1, FinallyList
  <2> QED BY <2>1, <2>2, <2>3 DEF Flows, Lists, Clean
<1> QED BY <1>1, <1>2

\* After a main step that went well the list is shorter, or the cleanup begins.
LEMMA PassedFlow ==
  ASSUME NEW f \in Flows, f.todo # <<>>, Work(f), f.error = "none"
  PROVE  LET t == Runtime!Passed(f)
         IN /\ t \in Flows /\ t.pc = "step" /\ t.error = "none"
            /\ t.created = f.created /\ t.guard = f.guard /\ t.stored = f.stored
            /\ t.destroyed = f.destroyed
            /\ \A s \in Runtime!MainSteps : InList(s, f.todo) => s = Head(f.todo)
               \/ InList(s, t.todo)
            /\ f.created => Work(t) \/ InList("stop", t.todo)
            /\ f.created \/ (InList("create", f.todo) /\ Head(f.todo) # "create")
                 => Work(t) \/ InList("stop", t.todo)
<1> DEFINE g == [f EXCEPT !.pc = "step"]
           q == IF Len(f.todo) > 1 THEN Tail(f.todo) ELSE Runtime!Finally(g)
<1>1. /\ g \in Flows /\ g.pc = "step" /\ g.error = "none" /\ g.todo = f.todo
      /\ g.created = f.created /\ g.guard = f.guard /\ g.stored = f.stored
      /\ g.destroyed = f.destroyed
  BY DEF Flows
<1>2. Runtime!Passed(f) = [g EXCEPT !.todo = q]
  BY <1>1 DEF Runtime!Passed
<1> HIDE DEF g
<1>3. /\ Runtime!Finally(g) \in Seq(Runtime!CleanupSteps)
      /\ f.created => InList("stop", Runtime!Finally(g))
  BY <1>1, FinallyList
<1>4. /\ Tail(f.todo) \in Seq(Runtime!MainSteps)
      /\ \A s : InList(s, f.todo) => s = Head(f.todo) \/ InList(s, Tail(f.todo))
      /\ ~(Len(f.todo) > 1) => \A s : InList(s, f.todo) => s = Head(f.todo)
      /\ Len(f.todo) > 1 => Tail(f.todo) # <<>>
  BY TailList DEF Work
<1>5. /\ q \in Lists
      /\ \A s : InList(s, f.todo) => s = Head(f.todo) \/ InList(s, q)
      /\ Len(f.todo) > 1 => q \in Seq(Runtime!MainSteps) /\ q # <<>>
      /\ ~(Len(f.todo) > 1) /\ f.created => InList("stop", q)
  BY <1>3, <1>4 DEF Lists
<1> HIDE DEF q
<1>6. /\ Runtime!Passed(f) \in Flows /\ Runtime!Passed(f).todo = q
      /\ Runtime!Passed(f).pc = "step" /\ Runtime!Passed(f).error = "none"
      /\ Runtime!Passed(f).created = f.created /\ Runtime!Passed(f).guard = f.guard
      /\ Runtime!Passed(f).stored = f.stored /\ Runtime!Passed(f).destroyed = f.destroyed
  BY <1>1, <1>2, <1>5 DEF Flows
<1> QED BY <1>4, <1>5, <1>6 DEF Work

-----------------------------------------------------------------------------
\* What is known of a process stays so when its step is begun, fails or has a result.

LEMMA BegunSound ==
  ASSUME flow \in Flows, flow.pc = "step", flow.todo # <<>>,
         RuntimeSound(flow, entries, world)
  PROVE  RuntimeSound(Runtime!Begun, entries, world)
<1>1. Progress(flow, entries)
  BY DEF RuntimeSound
<1>2. Progress(Runtime!Begun, entries)
  BY <1>1, BegunFlow DEF Progress, Work
<1>3. ASSUME calls = 1 PROVE Known(Runtime!Begun, entries, world)
  <2>1. Known(flow, entries, world)
    BY <1>3 DEF RuntimeSound
  <2> QED BY <2>1, BegunFlow DEF Known, Work
<1> QED BY <1>2, <1>3 DEF RuntimeSound

LEMMA ThrownSound ==
  ASSUME NEW f \in Flows, f.pc # "idle", f.todo = flow.todo, f.todo # <<>>,
         NEW error \in Errors, NEW e, NEW w, RuntimeSound(f, e, w)
  PROVE  Runtime!Thrown(f, error) \in Flows /\ RuntimeSound(Runtime!Thrown(f, error), e, w)
<1> DEFINE t == Runtime!Thrown(f, error)
<1>1. /\ t \in Flows /\ t.pc = "step" /\ Clean(t) /\ t.error # "none"
      /\ t.created = f.created /\ t.guard = f.guard /\ t.stored = f.stored
      /\ t.destroyed = f.destroyed
  BY ThrownFlow
<1> HIDE DEF t
<1>2. ~Work(t)
  <2>1. CASE t.todo = <<>>
    BY <2>1 DEF Work
  <2>2. CASE t.todo # <<>>
    BY <1>1, <2>2, StepKind
  <2> QED BY <2>1, <2>2
<1>3. Progress(t, e)
  BY <1>1, <1>2 DEF Progress
<1>4. ASSUME calls = 1 PROVE Known(t, e, w)
  <2>1. Known(f, e, w)
    BY <1>4 DEF RuntimeSound
  <2> QED BY <1>1, <1>2, <2>1 DEF Known
<1>5. RuntimeSound(t, e, w)
  BY <1>1, <1>3, <1>4 DEF RuntimeSound
<1> QED BY <1>1, <1>5 DEF t

LEMMA PassedSound ==
  ASSUME input \in Options, NEW f \in Flows, f.pc # "idle", f.todo # <<>>, Work(f),
         Flagged(f),
         NEW e, e[Head(f.todo)].phase = "COMPLETED", NEW w, RuntimeSound(f, e, w)
  PROVE  Runtime!Passed(f) \in Flows /\ RuntimeSound(Runtime!Passed(f), e, w)
<1>1. Progress(f, e) /\ f.error = "none" /\ ~f.destroyed
  BY DEF RuntimeSound, Progress
<1> DEFINE t == Runtime!Passed(f)
<1>2. /\ t \in Flows /\ t.pc = "step" /\ t.error = "none"
      /\ t.created = f.created /\ t.guard = f.guard /\ t.stored = f.stored
      /\ t.destroyed = f.destroyed
      /\ \A s \in Runtime!MainSteps : InList(s, f.todo) => s = Head(f.todo)
         \/ InList(s, t.todo)
      /\ f.created \/ (InList("create", f.todo) /\ Head(f.todo) # "create")
           => Work(t) \/ InList("stop", t.todo)
  BY <1>1, PassedFlow
<1> HIDE DEF t
<1>3. Progress(t, e)
  <2>1. \A s \in Runtime!MainSteps :
          InList(s, Runtime!Main(input)) => InList(s, t.todo) \/ e[s].phase = "COMPLETED"
    BY <1>1, <1>2 DEF Progress
  <2>2. "create" \in Runtime!MainSteps
    BY DEF Runtime!MainSteps, Runtime!Required
  <2>3. InList("create", t.todo) \/ t.created
    BY <1>1, <1>2, <2>2 DEF Progress, Flagged
  <2>4. Work(t) \/ InList("stop", t.todo)
    BY <1>1, <1>2 DEF Progress, Flagged
  <2> QED BY <1>1, <1>2, <2>1, <2>3, <2>4 DEF Progress
<1>4. ASSUME calls = 1 PROVE Known(t, e, w)
  <2>1. Known(f, e, w)
    BY <1>4 DEF RuntimeSound
  <2>2. \A s \in Runtime!CleanupSteps : e[s].phase # "COMPLETED"
    BY <2>1 DEF Known
  <2> QED BY <1>2, <2>1, <2>2 DEF Known
<1>5. RuntimeSound(t, e, w)
  BY <1>2, <1>3, <1>4 DEF RuntimeSound
<1> QED BY <1>2, <1>5 DEF t

\* What the result of a cleanup step does to the flow.
LEMMA CleanedFlow ==
  ASSUME NEW f \in Flows, f.todo = flow.todo, f.todo # <<>>, Runtime!Cleaning, NEW state
  PROVE  LET t == Runtime!Resulted(f, state)
         IN /\ t \in Flows /\ t.pc = "step" /\ t.todo = Tail(f.todo) /\ t.created = f.created
            /\ t.error = "none" => f.error = "none"
            /\ f.residue => t.residue
            /\ f.stopped \/ Runtime!Step = "stop" => t.stopped
            /\ f.guard => t.guard \/ Runtime!Step = "guard-revoke"
            /\ f.stored => t.stored \/ Runtime!Step = "secret-revoke"
            /\ t.destroyed => f.destroyed \/ (Runtime!Step = "destroy" /\ state = "SUCCEEDED")
<1> DEFINE ok == state = "SUCCEEDED"
           r == f.residue \/ ~ok
           g == [f EXCEPT !.pc = "step", !.todo = Tail(f.todo), !.residue = r]
           t == Runtime!Resulted(f, state)
<1> SUFFICES
      /\ t \in Flows /\ t.pc = "step" /\ t.todo = Tail(f.todo) /\ t.created = f.created
      /\ t.error = "none" => f.error = "none"
      /\ f.residue => t.residue
      /\ f.stopped \/ Runtime!Step = "stop" => t.stopped
      /\ f.guard => t.guard \/ Runtime!Step = "guard-revoke"
      /\ f.stored => t.stored \/ Runtime!Step = "secret-revoke"
      /\ t.destroyed => f.destroyed \/ (Runtime!Step = "destroy" /\ state = "SUCCEEDED")
  OBVIOUS
<1>1. Tail(f.todo) \in Lists
  <2>1. f.todo \in Seq(Runtime!CleanupSteps)
    BY StepKind DEF Runtime!Cleaning, Runtime!Step, Clean
  <2> QED BY <2>1, TailList DEF Lists
<1>2. ok \in BOOLEAN /\ r \in BOOLEAN /\ (f.residue => r)
  OBVIOUS
<1>3. ok <=> state = "SUCCEEDED"
  OBVIOUS
<1> HIDE DEF r, ok, t
<1>4. /\ g \in Flows /\ g.pc = "step" /\ g.todo = Tail(f.todo) /\ g.created = f.created
      /\ g.error = f.error /\ (f.residue => g.residue) /\ g.stopped = f.stopped
      /\ g.guard = f.guard /\ g.stored = f.stored /\ g.destroyed = f.destroyed
  BY <1>1, <1>2 DEF Flows
<1>5. CASE Runtime!Step = "guard-revoke"
  <2>1. t = [g EXCEPT !.guard = FALSE, !.residue = f.residue]
    BY <1>5 DEF Runtime!Resulted, Runtime!Checked, Runtime!Required, g, r, ok, t
  <2> HIDE DEF g
  <2> QED BY <1>4, <1>5, <2>1 DEF Flows
<1>6. CASE Runtime!Step = "secret-revoke"
  <2>1. t = [g EXCEPT !.stored = FALSE, !.residue = f.residue]
    BY <1>6 DEF Runtime!Resulted, Runtime!Checked, Runtime!Required, g, r, ok, t
  <2> HIDE DEF g
  <2> QED BY <1>4, <1>6, <2>1 DEF Flows
<1>7. CASE Runtime!Step = "stop"
  <2>1. t = [g EXCEPT !.stopped = TRUE]
    BY <1>7 DEF Runtime!Resulted, Runtime!Checked, Runtime!Required, g, r, ok, t
  <2> HIDE DEF g
  <2> QED BY <1>4, <1>7, <2>1 DEF Flows
<1>8. CASE Runtime!Step = "emergency-stop"
  <2>1. t = [g EXCEPT !.stopped = TRUE, !.emergency = TRUE]
    BY <1>8 DEF Runtime!Resulted, Runtime!Checked, Runtime!Required, g, r, ok, t
  <2> HIDE DEF g
  <2> QED BY <1>4, <1>8, <2>1 DEF Flows
<1>9. CASE Runtime!Step = "destroy"
  <2> DEFINE x == IF ok \/ f.error # "none" THEN f.error ELSE "failed"
  <2>1. x \in {"none", "failed"} \cup Runtime!Stops /\ (x = "none" => f.error = "none")
    BY DEF Flows
  <2>2. t = [g EXCEPT !.destroyed = ok, !.error = x]
    <3>1. g.error = f.error
      BY <1>4
    <3>2. t = [g EXCEPT !.destroyed = ok, !.error = IF ok \/ g.error # "none" THEN g.error
                                                                           ELSE "failed"]
      BY <1>9 DEF Runtime!Resulted, Runtime!Checked, Runtime!Required, g, r, ok, t
    <3> HIDE DEF g
    <3> QED BY <3>1, <3>2 DEF x
  <2> HIDE DEF g, x
  <2>3. /\ t \in Flows /\ t.pc = g.pc /\ t.todo = g.todo /\ t.created = g.created
        /\ t.error = x /\ t.residue = g.residue /\ t.stopped = g.stopped
        /\ t.guard = g.guard /\ t.stored = g.stored
    BY <1>2, <1>4, <2>1, <2>2 DEF Flows
  <2>4. t.destroyed => state = "SUCCEEDED"
    BY <1>3, <1>4, <2>2 DEF Flows
  <2> QED BY <1>4, <1>9, <2>1, <2>3, <2>4
<1> QED BY <1>5, <1>6, <1>7, <1>8, <1>9 DEF Runtime!Cleaning, Runtime!CleanupSteps

LEMMA CleanedSound ==
  ASSUME NEW f \in Flows, f.pc # "idle", f.todo = flow.todo, f.todo # <<>>, Runtime!Cleaning,
         NEW state, NEW e, e[Runtime!Step].phase = "COMPLETED", e[Runtime!Step].state = state,
         NEW w, RuntimeSound(f, e, w)
  PROVE  Runtime!Resulted(f, state) \in Flows
         /\ RuntimeSound(Runtime!Resulted(f, state), e, w)
<1> DEFINE t == Runtime!Resulted(f, state)
<1>1. /\ t \in Flows /\ t.pc = "step" /\ t.todo = Tail(f.todo) /\ t.created = f.created
      /\ t.error = "none" => f.error = "none"
      /\ f.residue => t.residue
      /\ f.stopped \/ Runtime!Step = "stop" => t.stopped
      /\ f.guard => t.guard \/ Runtime!Step = "guard-revoke"
      /\ f.stored => t.stored \/ Runtime!Step = "secret-revoke"
      /\ t.destroyed => f.destroyed \/ (Runtime!Step = "destroy" /\ state = "SUCCEEDED")
  BY CleanedFlow
<1> HIDE DEF t
<1>2. /\ ~Work(f) /\ ~Work(t) /\ Head(f.todo) = Runtime!Step /\ Runtime!Step # "create"
      /\ \A x : InList(x, f.todo) => x = Runtime!Step \/ InList(x, t.todo)
  <2>1. f.todo \in Seq(Runtime!CleanupSteps) /\ ~Work(f)
    BY StepKind DEF Runtime!Cleaning, Runtime!Step, Clean
  <2>2. /\ Tail(f.todo) \in Seq(Runtime!CleanupSteps)
        /\ \A x : InList(x, f.todo) => x = Head(f.todo) \/ InList(x, Tail(f.todo))
    BY <2>1, TailList
  <2>3. ~Work(t)
    <3>1. CASE t.todo = <<>>
      BY <3>1 DEF Work
    <3>2. CASE t.todo # <<>>
      BY <1>1, <2>2, <3>2, StepKind DEF Clean
    <3> QED BY <3>1, <3>2
  <2> QED BY <1>1, <2>1, <2>2, <2>3 DEF Runtime!Step, Runtime!Cleaning, Runtime!CleanupSteps
<1>3. Progress(f, e)
  BY DEF RuntimeSound
<1>4. Progress(t, e)
  BY <1>1, <1>2, <1>3 DEF Progress
<1>5. ASSUME calls = 1 PROVE Known(t, e, w)
  <2>1. Known(f, e, w)
    BY <1>5 DEF RuntimeSound
  <2>2. Runtime!Step = "guard-revoke" => Denied("guard-revoke", e) \/ ~w.guard
    BY <2>1 DEF Known, Granted, Denied
  <2>3. Runtime!Step = "secret-revoke" => Denied("secret-revoke", e) \/ ~w.secret
    BY <2>1 DEF Known, Granted, Denied
  <2>4. Runtime!Step = "destroy" /\ state = "SUCCEEDED" => w.runtime # "live"
    BY <2>1 DEF Known, Granted
  <2>5. t.destroyed => w.runtime # "live"
    BY <1>1, <2>1, <2>4 DEF Known
  <2>6. w.guard => t.guard \/ Denied("guard-revoke", e)
    BY <1>1, <2>1, <2>2 DEF Known
  <2>7. w.secret => t.stored \/ Denied("secret-revoke", e)
    BY <1>1, <2>1, <2>3 DEF Known
  <2> QED BY <1>1, <1>2, <2>1, <2>5, <2>6, <2>7 DEF Known
<1>6. RuntimeSound(t, e, w)
  BY <1>1, <1>4, <1>5 DEF RuntimeSound
<1> QED BY <1>1, <1>6 DEF t

\* The result of any step.
LEMMA ResultedSound ==
  ASSUME input \in Options, NEW f \in Flows, f.pc # "idle", f.todo = flow.todo, f.todo # <<>>,
         Flagged(f), NEW state, NEW e, e[Runtime!Step].phase = "COMPLETED",
         e[Runtime!Step].state = state,
         NEW w, RuntimeSound(f, e, w)
  PROVE  Runtime!Resulted(f, state) \in Flows
         /\ RuntimeSound(Runtime!Resulted(f, state), e, w)
<1>1. CASE Runtime!Cleaning
  BY <1>1, CleanedSound
<1>2. CASE ~Runtime!Cleaning
  <2>1. Runtime!Resulted(f, state) = Runtime!Thrown(f, "failed")
        \/ Runtime!Resulted(f, state) = Runtime!Passed(f)
    BY <1>2 DEF Runtime!Resulted, Runtime!Cleaning, Runtime!CleanupSteps
  <2>2. Runtime!Thrown(f, "failed") \in Flows
        /\ RuntimeSound(Runtime!Thrown(f, "failed"), e, w)
    BY ThrownSound DEF Errors
  <2>3. Work(f)
    BY <1>2, StepKind DEF Runtime!Cleaning, Runtime!Step
  <2>4. Runtime!Passed(f) \in Flows /\ RuntimeSound(Runtime!Passed(f), e, w)
    BY <2>3, PassedSound DEF Runtime!Step
  <2> QED BY <2>1, <2>2, <2>4
<1> QED BY <1>1, <1>2

LEMMA ResultedPc ==
  ASSUME NEW f \in Flows, f.todo = flow.todo, f.todo # <<>>, NEW state
  PROVE  Runtime!Resulted(f, state).pc = "step"
<1>1. CASE Runtime!Cleaning
  BY <1>1, CleanedFlow
<1>2. CASE ~Runtime!Cleaning
  <2>1. Runtime!Resulted(f, state) = Runtime!Thrown(f, "failed")
        \/ Runtime!Resulted(f, state) = Runtime!Passed(f)
    BY <1>2 DEF Runtime!Resulted, Runtime!Cleaning, Runtime!CleanupSteps
  <2>2. Runtime!Thrown(f, "failed").pc = "step"
    BY ThrownFlow DEF Errors
  <2>3. Runtime!Passed(f).pc = "step"
    BY DEF Runtime!Passed, Flows
  <2> QED BY <2>1, <2>2, <2>3
<1> QED BY <1>1, <1>2

-----------------------------------------------------------------------------
\* The actions.

LEMMA RuntimeInitInvariant ==
  ASSUME RuntimeCalls \in Nat, RuntimeFaults \in Nat, Runtime!Init PROVE RuntimeInv
<1>1. [acquire |-> FALSE, secret |-> FALSE] \in Options
  BY DEF Options
<1>2. Runtime!Idle \in Flows /\ Runtime!Idle.pc = "idle"
  BY <1>1, FreshFlow
<1>3. world \in Worlds
  BY DEF Runtime!Init, Worlds
<1>4. \A s \in Runtime!Steps : entries[s].phase = "none"
  BY DEF Runtime!Init, Runtime!NoEntry
<1>5. RuntimeTyped
  BY <1>2, <1>3, <1>4 DEF Runtime!Init, RuntimeTyped, Options, Runtime!NoResult
<1>6. Untouched
  BY <1>2, <1>4 DEF Runtime!Init, Untouched
<1>7. RuntimeSound(flow, entries, world) /\ Runtime!FlowIsAccounted
  BY <1>2 DEF Runtime!Init, RuntimeSound, Runtime!FlowIsAccounted, Runtime!Returned
<1> QED BY <1>5, <1>6, <1>7 DEF RuntimeInv

\* A process goes on.
LEMMA GoesOn ==
  ASSUME RuntimeInv, flow.pc # "idle", UNCHANGED <<input, result, calls>>, flow' \in Flows,
         flow'.pc # "returned", entries' = [s \in Runtime!Steps |-> entries'[s]],
         \A s \in Runtime!Steps : entries'[s].phase \in {"none", "PREPARED", "COMPLETED"},
         world' \in Worlds, taken' \subseteq Runtime!Steps, faults' \in 0..RuntimeFaults,
         RuntimeSound(flow', entries', world')
  PROVE  RuntimeInv'
<1>1. RuntimeTyped'
  BY DEF RuntimeInv, RuntimeTyped
<1>2. RuntimeSound(flow, entries, world)'
  BY DEF RuntimeSound, Progress, Known
<1>3. calls' # 0
  BY DEF RuntimeInv, Untouched
<1>4. Runtime!FlowIsAccounted'
  BY DEF Runtime!FlowIsAccounted, Runtime!Returned
<1> QED BY <1>1, <1>2, <1>3, <1>4 DEF RuntimeInv

\* A process goes on without any effect.
LEMMA MovesOn ==
  ASSUME RuntimeInv, flow.pc # "idle",
         UNCHANGED <<input, result, calls, entries, world, taken>>,
         faults' \in 0..RuntimeFaults, flow' \in Flows, flow'.pc # "returned",
         RuntimeSound(flow', entries, world)
  PROVE  RuntimeInv'
<1>1. /\ entries' = [s \in Runtime!Steps |-> entries'[s]]
      /\ \A s \in Runtime!Steps : entries'[s].phase \in {"none", "PREPARED", "COMPLETED"}
      /\ world' \in Worlds /\ taken' \subseteq Runtime!Steps
  BY DEF RuntimeInv, RuntimeTyped
<1>2. RuntimeSound(flow', entries', world')
  OBVIOUS
<1> QED BY <1>1, <1>2, GoesOn

\* What is so at a step that is about to be begun, and of the process once it is.
LEMMA AtStepFacts ==
  ASSUME RuntimeInv, flow.pc = "step", flow.todo # <<>>
  PROVE  /\ flow \in Flows /\ RuntimeSound(flow, entries, world)
            /\ Runtime!Step \in Runtime!Steps
         /\ Runtime!Begun \in Flows
         /\ Runtime!Begun.pc = "step"
         /\ Runtime!Begun.todo = flow.todo
         /\ Flagged(Runtime!Begun)
         /\ RuntimeSound(Runtime!Begun, entries, world)
         /\ \A error \in Errors :
              /\ Runtime!Thrown(Runtime!Begun, error) \in Flows
                 /\ Runtime!Thrown(Runtime!Begun, error).pc = "step"
              /\ RuntimeSound(Runtime!Thrown(Runtime!Begun, error), entries, world)
<1>1. flow \in Flows /\ RuntimeSound(flow, entries, world)
  BY DEF RuntimeInv, RuntimeTyped
<1>2. Runtime!Step \in Runtime!Steps
  BY <1>1, StepKind DEF Runtime!Step
<1>3. /\ Runtime!Begun \in Flows
      /\ Runtime!Begun.pc = "step"
      /\ Runtime!Begun.todo = flow.todo
      /\ Flagged(Runtime!Begun)
      /\ RuntimeSound(Runtime!Begun, entries, world)
  BY <1>1, BegunFlow, BegunSound
<1>4. ASSUME NEW error \in Errors
      PROVE  /\ Runtime!Thrown(Runtime!Begun, error) \in Flows
                /\ Runtime!Thrown(Runtime!Begun, error).pc = "step"
             /\ RuntimeSound(Runtime!Thrown(Runtime!Begun, error), entries, world)
  BY <1>3, ThrownSound, ThrownFlow
<1> QED BY <1>1, <1>2, <1>3, <1>4

LEMMA RuntimeStartInvariant == ASSUME RuntimeCalls \in Nat, RuntimeInv,
Runtime!Start PROVE RuntimeInv'
<1>1. /\ input \in Options /\ flow' = Runtime!Fresh(input) /\ flow.pc = "idle"
      /\ UNCHANGED <<input, entries, world, taken, faults>>
      /\ calls' = calls + 1 /\ calls \in 0..RuntimeCalls /\ calls < RuntimeCalls
      /\ result' = Runtime!NoResult
  BY DEF Runtime!Start, RuntimeInv, RuntimeTyped
<1>2. /\ flow' \in Flows /\ flow'.pc = "step" /\ flow'.todo = Runtime!Main(input)
         /\ Work(flow')
      /\ flow'.error = "none" /\ ~flow'.created /\ ~flow'.guard /\ ~flow'.stored
      /\ ~flow'.destroyed
  BY <1>1, FreshFlow
<1>3. RuntimeTyped'
  BY <1>1, <1>2 DEF RuntimeInv, RuntimeTyped, Runtime!NoResult
<1>4. Progress(flow', entries)
  BY <1>1, <1>2, MainList DEF Progress
<1>5. ASSUME calls' = 1 PROVE Known(flow', entries, world)
  <2>1. calls = 0
    BY <1>1, <1>5
  <2>2. /\ world.runtime = "none" /\ ~world.guard /\ ~world.secret
        /\ \A s \in Runtime!Steps : entries[s].phase = "none"
    BY <2>1 DEF RuntimeInv, Untouched
  <2>3. {"destroy", "guard-revoke", "secret-revoke"} \subseteq Runtime!Steps
        /\ Runtime!CleanupSteps \subseteq Runtime!Steps
    BY DEF Runtime!Steps, Runtime!CleanupSteps
  <2> QED BY <1>2, <2>2, <2>3 DEF Known, Granted, Denied
<1>6. RuntimeSound(flow, entries, world)'
  BY <1>1, <1>4, <1>5 DEF RuntimeSound, Progress, Known
<1>7. Runtime!FlowIsAccounted' /\ calls' # 0
  BY <1>1, <1>2 DEF Runtime!FlowIsAccounted, Runtime!Returned
<1> QED BY <1>3, <1>6, <1>7 DEF RuntimeInv

LEMMA FaultTyped ==
  ASSUME RuntimeFaults \in Nat, RuntimeInv, Runtime!Fault
         \/ UNCHANGED faults PROVE faults' \in 0..RuntimeFaults
<1>1. faults \in 0..RuntimeFaults
  BY DEF RuntimeInv, RuntimeTyped
<1> QED BY <1>1 DEF Runtime!Fault

LEMMA SkipInvariant == ASSUME RuntimeInv, Runtime!Skip PROVE RuntimeInv'
<1>1. /\ flow.pc = "step"
      /\ flow.todo # <<>>
      /\ flow' = [flow EXCEPT !.todo = Tail(flow.todo)]
      /\ UNCHANGED <<input, result, calls, entries, world, taken, faults>>
      /\ Runtime!Step = "destroy" /\ ~flow.created
  BY DEF Runtime!Skip, Runtime!AtStep, Runtime!Due
<1>2. flow \in Flows /\ RuntimeSound(flow, entries, world) /\ faults \in 0..RuntimeFaults
  BY DEF RuntimeInv, RuntimeTyped
<1>3. Head(flow.todo) = "destroy" /\ flow.todo \in Seq(Runtime!CleanupSteps) /\ ~Work(flow)
  BY <1>1, <1>2, StepKind DEF Runtime!Step, Runtime!CleanupSteps, Clean
<1>4. /\ Tail(flow.todo) \in Seq(Runtime!CleanupSteps)
      /\ \A x : InList(x, flow.todo) => x = "destroy" \/ InList(x, Tail(flow.todo))
  BY <1>1, <1>3, TailList
<1>5. /\ flow' \in Flows /\ flow'.pc = "step" /\ flow'.todo = Tail(flow.todo)
      /\ flow'.created = flow.created /\ flow'.guard = flow.guard
      /\ flow'.stored = flow.stored /\ flow'.destroyed = flow.destroyed
      /\ flow'.error = flow.error /\ flow'.residue = flow.residue
      /\ flow'.stopped = flow.stopped
  BY <1>1, <1>2, <1>4 DEF Flows, Lists
<1>6. ~Work(flow')
  <2>1. CASE flow'.todo = <<>>
    BY <2>1 DEF Work
  <2>2. CASE flow'.todo # <<>>
    <3>1. Clean(flow')
      BY <1>4, <1>5 DEF Clean
    <3> QED BY <1>5, <2>2, <3>1, StepKind
  <2> QED BY <2>1, <2>2
<1>7. Progress(flow', entries)
  <2>1. Progress(flow, entries)
    BY <1>1, <1>2 DEF RuntimeSound
  <2>2. "destroy" \notin Runtime!MainSteps
    BY DEF Runtime!MainSteps, Runtime!Required
  <2> QED BY <1>3, <1>4, <1>5, <1>6, <2>1, <2>2 DEF Progress
<1>8. ASSUME calls = 1 PROVE Known(flow', entries, world)
  <2>1. Known(flow, entries, world)
    BY <1>1, <1>2, <1>8 DEF RuntimeSound
  <2> QED BY <1>5, <1>6, <2>1 DEF Known
<1>9. RuntimeSound(flow', entries, world)
  BY <1>7, <1>8 DEF RuntimeSound
<1> QED BY <1>1, <1>2, <1>5, <1>9, MovesOn

LEMMA RuntimeStopInvariant == ASSUME RuntimeInv, Runtime!Stop PROVE RuntimeInv'
<1>1. /\ flow.pc = "step"
      /\ flow.todo # <<>>
      /\ flow' = Runtime!Thrown(Runtime!Begun, "cancelled")
      /\ UNCHANGED <<input, result, calls, entries, world, taken, faults>>
  BY DEF Runtime!Stop, Runtime!AtStep
<1>2. "cancelled" \in Errors
  BY DEF Errors, Runtime!Stops
<1>3. /\ flow' \in Flows /\ flow'.pc = "step" /\ RuntimeSound(flow', entries, world)
  BY <1>1, <1>2, AtStepFacts
<1>4. faults \in 0..RuntimeFaults
  BY DEF RuntimeInv, RuntimeTyped
<1> QED BY <1>1, <1>3, <1>4, MovesOn

LEMMA ReplayInvariant == ASSUME RuntimeInv, Runtime!Replay PROVE RuntimeInv'
<1>1. /\ flow.pc = "step" /\ flow.todo # <<>> /\ entries[Runtime!Step].phase = "COMPLETED"
      /\ UNCHANGED <<input, result, calls, entries, world, taken, faults>>
      /\ \/ flow' = Runtime!Resulted(Runtime!Begun, entries[Runtime!Step].state)
         \/ flow' = Runtime!Thrown(Runtime!Begun, "failed")
  BY DEF Runtime!Replay, Runtime!AtStep
<1>2. "failed" \in Errors
  BY DEF Errors
<1>3. input \in Options /\ faults \in 0..RuntimeFaults
  BY DEF RuntimeInv, RuntimeTyped
<1>4. /\ Runtime!Begun \in Flows
      /\ Runtime!Begun.pc = "step"
      /\ Runtime!Begun.todo = flow.todo
      /\ Flagged(Runtime!Begun)
      /\ RuntimeSound(Runtime!Begun, entries, world)
  BY <1>1, AtStepFacts
<1>5. CASE flow' = Runtime!Thrown(Runtime!Begun, "failed")
  <2>1. flow' \in Flows /\ flow'.pc = "step" /\ RuntimeSound(flow', entries, world)
    BY <1>1, <1>2, <1>5, AtStepFacts
  <2> QED BY <1>1, <1>3, <2>1, MovesOn
<1>6. CASE flow' = Runtime!Resulted(Runtime!Begun, entries[Runtime!Step].state)
  <2>1. flow' \in Flows /\ RuntimeSound(flow', entries, world)
    BY <1>1, <1>3, <1>4, <1>6, ResultedSound
  <2>2. flow'.pc = "step"
    BY <1>1, <1>4, <1>6, ResultedPc
  <2> QED BY <1>1, <1>3, <2>1, <2>2, MovesOn
<1> QED BY <1>1, <1>5, <1>6

\* A step that is about to be asked.
LEMMA AskSound ==
  ASSUME NEW f \in Flows, f.pc = "step", f.todo # <<>>, Flagged(f),
         NEW e, NEW w, RuntimeSound(f, e, w)
  PROVE  LET t == [f EXCEPT !.pc = "ask"]
         IN t \in Flows /\ t.pc = "ask" /\ RuntimeSound(t, e, w)
<1> DEFINE t == [f EXCEPT !.pc = "ask"]
<1>1. /\ t \in Flows /\ t.pc = "ask" /\ t.todo = f.todo /\ t.created = f.created
      /\ t.guard = f.guard /\ t.stored = f.stored /\ t.destroyed = f.destroyed
      /\ t.error = f.error /\ t.residue = f.residue /\ t.stopped = f.stopped
  BY DEF Flows
<1> HIDE DEF t
<1>2. Progress(t, e)
  BY <1>1 DEF RuntimeSound, Progress, Work, Flagged
<1>3. ASSUME calls = 1 PROVE Known(t, e, w)
  <2>1. Known(f, e, w)
    BY <1>3 DEF RuntimeSound
  <2> QED BY <1>1, <2>1 DEF Known, Work
<1>4. RuntimeSound(t, e, w)
  BY <1>2, <1>3 DEF RuntimeSound
<1> QED BY <1>1, <1>4 DEF t

\* An entry that is PREPARED changes nothing that is known.
LEMMA PreparedSound ==
  ASSUME NEW e, NEW d, NEW f, NEW w, RuntimeSound(f, e, w),
         \A s \in Runtime!Steps : d[s].phase = "COMPLETED" <=> e[s].phase = "COMPLETED",
         \A s \in Runtime!Steps : e[s].phase = "COMPLETED" => d[s] = e[s]
  PROVE  RuntimeSound(f, d, w)
<1>1. ASSUME NEW s \in Runtime!CleanupSteps
      PROVE  /\ d[s].phase = "COMPLETED" <=> e[s].phase = "COMPLETED"
             /\ Granted(s, d) <=> Granted(s, e)
             /\ Denied(s, d) <=> Denied(s, e)
  <2>1. s \in Runtime!Steps
    BY DEF Runtime!Steps
  <2>2. (d[s].phase = "COMPLETED") <=> (e[s].phase = "COMPLETED")
    BY <2>1
  <2>3. (e[s].phase = "COMPLETED") => d[s] = e[s]
    BY <2>1
  <2> QED BY <2>2, <2>3 DEF Granted, Denied
<1>2. \A s \in Runtime!MainSteps : d[s].phase = "COMPLETED" <=> e[s].phase = "COMPLETED"
  BY DEF Runtime!Steps
<1>3. Progress(f, e) => Progress(f, d)
  BY <1>2 DEF Progress
<1>4. Known(f, e, w) => Known(f, d, w)
  <2>1. {"destroy", "guard-revoke", "secret-revoke"} \subseteq Runtime!CleanupSteps
    BY DEF Runtime!CleanupSteps
  <2> QED BY <1>1, <2>1 DEF Known
<1> QED BY <1>3, <1>4 DEF RuntimeSound

LEMMA PendingInvariant == ASSUME RuntimeInv, Runtime!Pending PROVE RuntimeInv'
<1>1. /\ flow.pc = "step" /\ flow.todo # <<>>
      /\ UNCHANGED <<input, result, calls, entries, world, taken, faults>>
      /\ flow' = [Runtime!Begun EXCEPT !.pc = "ask"]
         \/ flow' = Runtime!Thrown(Runtime!Begun, "failed")
  BY DEF Runtime!Pending, Runtime!AtStep
<1>2. "failed" \in Errors /\ faults \in 0..RuntimeFaults
  BY DEF Errors, RuntimeInv, RuntimeTyped
<1>3. CASE flow' = Runtime!Thrown(Runtime!Begun, "failed")
  <2>1. flow' \in Flows /\ flow'.pc = "step" /\ RuntimeSound(flow', entries, world)
    BY <1>1, <1>2, <1>3, AtStepFacts
  <2> QED BY <1>1, <1>2, <2>1, MovesOn
<1>4. CASE flow' = [Runtime!Begun EXCEPT !.pc = "ask"]
  <2>1. flow' \in Flows /\ flow'.pc = "ask" /\ RuntimeSound(flow', entries, world)
    BY <1>1, <1>4, AtStepFacts, AskSound
  <2> QED BY <1>1, <1>2, <2>1, MovesOn
<1> QED BY <1>1, <1>3, <1>4

LEMMA PrepareInvariant == ASSUME RuntimeFaults \in Nat, RuntimeInv,
Runtime!Prepare PROVE RuntimeInv'
<1>1. /\ flow.pc = "step" /\ flow.todo # <<>> /\ entries[Runtime!Step].phase = "none"
      /\ UNCHANGED <<input, result, calls, world, taken>>
      /\ Runtime!Fault \/ UNCHANGED faults
      /\ \/ /\ entries' = [entries EXCEPT ![Runtime!Step] = [phase |-> "PREPARED",
                                                   payload |-> Runtime!Payload(Runtime!Step)]]
            /\ flow' = [Runtime!Begun EXCEPT !.pc = "ask"]
         \/ flow' = Runtime!Thrown(Runtime!Begun, "failed") /\ UNCHANGED entries
  BY DEF Runtime!Prepare, Runtime!AtStep
<1>2. "failed" \in Errors /\ faults' \in 0..RuntimeFaults
  BY <1>1, FaultTyped DEF Errors
<1>3. CASE flow' = Runtime!Thrown(Runtime!Begun, "failed") /\ UNCHANGED entries
  <2>1. flow' \in Flows /\ flow'.pc = "step" /\ RuntimeSound(flow', entries, world)
    BY <1>1, <1>2, <1>3, AtStepFacts
  <2> QED BY <1>1, <1>2, <1>3, <2>1, MovesOn
<1>4. CASE /\ entries' = [entries EXCEPT ![Runtime!Step] = [phase |-> "PREPARED",
                                                   payload |-> Runtime!Payload(Runtime!Step)]]
           /\ flow' = [Runtime!Begun EXCEPT !.pc = "ask"]
  <2>1. flow' \in Flows /\ flow'.pc = "ask" /\ RuntimeSound(flow', entries, world)
    BY <1>1, <1>4, AtStepFacts, AskSound
  <2>2. /\ entries = [s \in Runtime!Steps |-> entries[s]]
        /\ \A s \in Runtime!Steps : entries[s].phase \in {"none", "PREPARED", "COMPLETED"}
        /\ world \in Worlds /\ taken \subseteq Runtime!Steps
    BY DEF RuntimeInv, RuntimeTyped
  <2> DEFINE new == [phase |-> "PREPARED", payload |-> Runtime!Payload(Runtime!Step)]
  <2>3. entries' = [entries EXCEPT ![Runtime!Step] = new] /\ new.phase = "PREPARED"
    BY <1>4
  <2> HIDE DEF new
  <2>4. /\ entries' = [s \in Runtime!Steps |-> entries'[s]]
        /\ \A s \in Runtime!Steps : s # Runtime!Step => entries'[s] = entries[s]
        /\ Runtime!Step \in Runtime!Steps => entries'[Runtime!Step] = new
    BY <2>2, <2>3
  <2>5. ASSUME NEW s \in Runtime!Steps
        PROVE  /\ entries'[s].phase \in {"none", "PREPARED", "COMPLETED"}
               /\ entries'[s].phase = "COMPLETED" <=> entries[s].phase = "COMPLETED"
               /\ entries[s].phase = "COMPLETED" => entries'[s] = entries[s]
    <3>1. CASE s = Runtime!Step
      BY <1>1, <2>3, <2>4, <3>1
    <3>2. CASE s # Runtime!Step
      BY <2>2, <2>4, <3>2
    <3> QED BY <3>1, <3>2
  <2>6. RuntimeSound(flow', entries', world)
    BY <2>1, <2>5, PreparedSound
  <2>7. RuntimeSound(flow', entries', world') /\ world' \in Worlds
        /\ taken' \subseteq Runtime!Steps
    BY <1>1, <2>2, <2>6
  <2> QED BY <1>1, <1>2, <2>1, <2>4, <2>5, <2>7, GoesOn
<1> QED BY <1>1, <1>3, <1>4

\* What a command does is known to the process that asked for it.
LEMMA EffectSound ==
  ASSUME flow \in Flows, world \in Worlds, flow.pc = "ask", RuntimeSound(flow, entries, world)
  PROVE  /\ flow.todo # <<>> /\ Flagged(flow)
         /\ Runtime!Effect(Runtime!Step) \in Worlds
            /\ RuntimeSound(flow, entries, Runtime!Effect(Runtime!Step))
         /\ Runtime!Step = "destroy" => Runtime!Effect(Runtime!Step).runtime # "live"
         /\ Runtime!Step = "guard-revoke" => ~Runtime!Effect(Runtime!Step).guard
         /\ Runtime!Step = "secret-revoke" => ~Runtime!Effect(Runtime!Step).secret
<1>1. Progress(flow, entries) /\ flow.todo # <<>> /\ Flagged(flow)
  BY DEF RuntimeSound, Progress
<1> DEFINE w == Runtime!Effect(Runtime!Step)
<1>2. /\ w \in Worlds
      /\ w.runtime = "live" => world.runtime = "live" \/ Runtime!Step = "create"
      /\ w.guard => world.guard \/ Runtime!Step = "admit"
      /\ w.secret => world.secret \/ Runtime!Step = "store"
      /\ Runtime!Step = "destroy" => w.runtime # "live"
      /\ Runtime!Step = "guard-revoke" => ~w.guard
      /\ Runtime!Step = "secret-revoke" => ~w.secret
  BY DEF Runtime!Effect, Worlds
<1> HIDE DEF w
<1>3. Runtime!Step \in {"create", "admit", "store"} => Work(flow)
  BY <1>1, StepKind DEF Runtime!Step, Runtime!CleanupSteps
<1>4. ASSUME calls = 1 PROVE Known(flow, entries, w)
  <2>1. Known(flow, entries, world)
    BY <1>4 DEF RuntimeSound
  <2>2. {"destroy", "guard-revoke", "secret-revoke"} \subseteq Runtime!CleanupSteps
    BY DEF Runtime!CleanupSteps
  <2>3. Work(flow) => /\ ~flow.destroyed
                      /\ ~Granted("destroy", entries) /\ ~Granted("guard-revoke", entries)
                      /\ ~Granted("secret-revoke", entries)
    BY <1>1, <2>1, <2>2 DEF Known, Granted, Progress
  <2>4. /\ Runtime!Step = "create" => flow.created
        /\ Runtime!Step = "admit" => flow.guard
        /\ Runtime!Step = "store" => flow.stored
    BY <1>1 DEF Flagged, Runtime!Step
  <2> QED BY <1>2, <1>3, <2>1, <2>3, <2>4 DEF Known
<1>5. RuntimeSound(flow, entries, w)
  BY <1>1, <1>4 DEF RuntimeSound
<1> QED BY <1>1, <1>2, <1>5 DEF w

\* A command that was asked fails, with its effect or without.
LEMMA AskThrown ==
  ASSUME RuntimeInv, flow.pc = "ask", UNCHANGED <<input, result, calls, entries>>,
         world' = world \/ world' = Runtime!Effect(Runtime!Step),
         taken' \subseteq Runtime!Steps,
         faults' \in 0..RuntimeFaults, NEW error \in Errors,
         flow' = Runtime!Thrown(flow, error)
  PROVE  RuntimeInv'
<1>1. flow \in Flows /\ world \in Worlds /\ RuntimeSound(flow, entries, world)
      /\ flow.pc # "idle"
  BY DEF RuntimeInv, RuntimeTyped
<1>2. /\ flow.todo # <<>> /\ world' \in Worlds /\ RuntimeSound(flow, entries, world')
  BY <1>1, EffectSound
<1>3. flow' \in Flows /\ RuntimeSound(flow', entries, world') /\ flow'.pc = "step"
  BY <1>1, <1>2, ThrownSound, ThrownFlow
<1>4. /\ entries' = [s \in Runtime!Steps |-> entries'[s]]
      /\ \A s \in Runtime!Steps : entries'[s].phase \in {"none", "PREPARED", "COMPLETED"}
  BY DEF RuntimeInv, RuntimeTyped
<1>5. RuntimeSound(flow', entries', world')
  BY <1>3
<1> QED BY <1>1, <1>2, <1>3, <1>4, <1>5, GoesOn

\* A command that was asked has an answer.
LEMMA AskAnswered ==
  ASSUME RuntimeInv, flow.pc = "ask", UNCHANGED <<input, result, calls, entries>>,
         taken' \subseteq Runtime!Steps, faults' \in 0..RuntimeFaults,
         NEW answer \in {"SUCCEEDED", "FAILED"},
         flow' = [Runtime!Answered(flow) EXCEPT !.answer = answer],
         \/ answer = "SUCCEEDED" /\ world' = Runtime!Effect(Runtime!Step)
         \/ answer = "FAILED" /\ world' = world
  PROVE  RuntimeInv'
<1>1. flow \in Flows /\ world \in Worlds /\ RuntimeSound(flow, entries, world)
  BY DEF RuntimeInv, RuntimeTyped
<1>2. /\ flow.todo # <<>> /\ Flagged(flow) /\ world' \in Worlds
      /\ RuntimeSound(flow, entries, world')
      /\ answer = "SUCCEEDED" =>
           /\ Runtime!Step = "destroy" => world'.runtime # "live"
           /\ Runtime!Step = "guard-revoke" => ~world'.guard
           /\ Runtime!Step = "secret-revoke" => ~world'.secret
  BY <1>1, EffectSound
<1>3. /\ flow' \in Flows /\ flow'.pc = "record" /\ flow'.answer = answer
      /\ flow'.todo = flow.todo /\ flow'.created = flow.created
      /\ flow'.guard = flow.guard /\ flow'.stored = flow.stored
      /\ flow'.destroyed = flow.destroyed /\ flow'.error = flow.error
      /\ flow'.residue = flow.residue /\ flow'.stopped = flow.stopped
  BY <1>1 DEF Flows, Runtime!Answered
<1>4. Progress(flow', entries)
  BY <1>2, <1>3 DEF RuntimeSound, Progress, Work, Flagged
<1>5. ASSUME calls = 1 PROVE Known(flow', entries, world')
  <2>1. Known(flow, entries, world')
    BY <1>5, <1>2 DEF RuntimeSound
  <2> QED BY <1>2, <1>3, <2>1 DEF Known, Work, Runtime!Step
<1>6. RuntimeSound(flow', entries, world')
  BY <1>4, <1>5 DEF RuntimeSound
<1>7. /\ entries' = [s \in Runtime!Steps |-> entries'[s]]
      /\ \A s \in Runtime!Steps : entries'[s].phase \in {"none", "PREPARED", "COMPLETED"}
  BY DEF RuntimeInv, RuntimeTyped
<1>8. RuntimeSound(flow', entries', world')
  BY <1>6
<1> QED BY <1>2, <1>3, <1>7, <1>8, GoesOn

LEMMA AskInvariant == ASSUME RuntimeFaults \in Nat, RuntimeInv, Runtime!Ask
\/ Runtime!Refused PROVE RuntimeInv'
<1>1. /\ flow.pc = "ask" /\ flow.todo # <<>> /\ UNCHANGED <<input, result, calls, entries>>
      /\ Runtime!Fault \/ UNCHANGED faults
      /\ taken' = taken \/ taken' = taken \cup {Runtime!Step}
  BY DEF Runtime!Ask, Runtime!Refused, Runtime!AtStep
<1>2. faults' \in 0..RuntimeFaults /\ taken' \subseteq Runtime!Steps
  BY <1>1, FaultTyped, StepKind DEF RuntimeInv, RuntimeTyped, Runtime!Step
<1>3. \/ \E error \in Errors :
           flow' = Runtime!Thrown(flow, error)
           /\ (world' = world \/ world' = Runtime!Effect(Runtime!Step))
      \/ \E answer \in {"SUCCEEDED", "FAILED"} :
           /\ flow' = [Runtime!Answered(flow) EXCEPT !.answer = answer]
           /\ \/ answer = "SUCCEEDED" /\ world' = Runtime!Effect(Runtime!Step)
              \/ answer = "FAILED" /\ world' = world
  BY DEF Runtime!Ask, Runtime!Refused, Errors, Runtime!Stops
<1> QED BY <1>1, <1>2, <1>3, AskThrown, AskAnswered

\* A result that is in the journal agrees with what is known.
LEMMA CompletedSound ==
  ASSUME flow \in Flows, flow.pc = "record", RuntimeSound(flow, entries, world),
         Runtime!Step \in Runtime!Steps,
         NEW e, e[Runtime!Step].phase = "COMPLETED", e[Runtime!Step].state = flow.answer,
         \A s \in Runtime!Steps : s # Runtime!Step => e[s] = entries[s]
  PROVE  flow.todo # <<>> /\ Flagged(flow) /\ RuntimeSound(flow, e, world)
<1>1. Progress(flow, entries) /\ flow.todo # <<>> /\ Flagged(flow)
  BY DEF RuntimeSound, Progress
<1>2. Progress(flow, e)
  <2>1. \A s \in Runtime!MainSteps : entries[s].phase = "COMPLETED" => e[s].phase = "COMPLETED"
    BY DEF Runtime!Steps
  <2> QED BY <1>1, <2>1 DEF Progress
<1>3. ASSUME calls = 1 PROVE Known(flow, e, world)
  <2>1. Known(flow, entries, world)
    BY <1>3 DEF RuntimeSound
  <2>2. {"destroy", "guard-revoke", "secret-revoke"} \subseteq Runtime!CleanupSteps
        /\ Runtime!CleanupSteps \subseteq Runtime!Steps
    BY DEF Runtime!CleanupSteps, Runtime!Steps
  <2>3. \A s \in Runtime!CleanupSteps : s # Runtime!Step =>
          (Granted(s, e) <=> Granted(s, entries)) /\ (Denied(s, e) <=> Denied(s, entries))
    BY <2>2 DEF Granted, Denied
  <2>4. /\ Granted(Runtime!Step, e) => flow.answer = "SUCCEEDED"
        /\ flow.answer # "SUCCEEDED" => Denied(Runtime!Step, e)
    BY DEF Granted, Denied
  <2>5. world.guard => flow.guard \/ Denied("guard-revoke", e)
    BY <2>1, <2>2, <2>3, <2>4 DEF Known, Runtime!Step
  <2>6. world.secret => flow.stored \/ Denied("secret-revoke", e)
    BY <2>1, <2>2, <2>3, <2>4 DEF Known, Runtime!Step
  <2>7. /\ Granted("destroy", e) => world.runtime # "live"
        /\ Granted("guard-revoke", e) => ~world.guard
        /\ Granted("secret-revoke", e) => ~world.secret
    BY <2>1, <2>2, <2>3, <2>4 DEF Known, Runtime!Step
  <2>8. Work(flow) => \A s \in Runtime!CleanupSteps : e[s].phase # "COMPLETED"
    <3>1. Work(flow) => Runtime!Step \notin Runtime!CleanupSteps
      BY <1>1, StepKind DEF Runtime!Step
    <3> QED BY <2>1, <2>2, <3>1 DEF Known
  <2> QED BY <2>1, <2>5, <2>6, <2>7, <2>8 DEF Known
<1>4. RuntimeSound(flow, e, world)
  BY <1>2, <1>3 DEF RuntimeSound
<1> QED BY <1>1, <1>4

LEMMA RecordInvariant == ASSUME RuntimeFaults \in Nat, RuntimeInv,
Runtime!Record PROVE RuntimeInv'
<1>1. /\ flow.pc = "record" /\ flow.todo # <<>> /\ (Runtime!Fault \/ UNCHANGED faults)
      /\ UNCHANGED <<input, result, calls, world, taken>>
      /\ \/ flow' = Runtime!Thrown(flow, "failed") /\ UNCHANGED entries
         \/ /\ entries' = [entries EXCEPT ![Runtime!Step] =
                            [phase |-> "COMPLETED", payload |-> entries[Runtime!Step].payload,
                             state |-> flow.answer]]
            /\ flow' = Runtime!Resulted(flow, flow.answer)
  BY DEF Runtime!Record, Runtime!AtStep
<1>2. /\ "failed" \in Errors /\ faults' \in 0..RuntimeFaults
      /\ flow \in Flows /\ input \in Options /\ RuntimeSound(flow, entries, world)
      /\ entries = [s \in Runtime!Steps |-> entries[s]]
      /\ \A s \in Runtime!Steps : entries[s].phase \in {"none", "PREPARED", "COMPLETED"}
      /\ world \in Worlds /\ taken \subseteq Runtime!Steps
  BY <1>1, FaultTyped DEF Errors, RuntimeInv, RuntimeTyped
<1>3. CASE flow' = Runtime!Thrown(flow, "failed") /\ UNCHANGED entries
  <2>1. flow' \in Flows /\ flow'.pc = "step" /\ RuntimeSound(flow', entries, world)
    BY <1>1, <1>2, <1>3, ThrownSound, ThrownFlow
  <2> QED BY <1>1, <1>2, <1>3, <2>1, MovesOn
<1>4. CASE /\ entries' = [entries EXCEPT ![Runtime!Step] =
                            [phase |-> "COMPLETED", payload |-> entries[Runtime!Step].payload,
                             state |-> flow.answer]]
           /\ flow' = Runtime!Resulted(flow, flow.answer)
  <2> DEFINE new == [phase |-> "COMPLETED", payload |-> entries[Runtime!Step].payload,
                     state |-> flow.answer]
  <2>1. /\ entries' = [entries EXCEPT ![Runtime!Step] = new]
        /\ new.phase = "COMPLETED" /\ new.state = flow.answer
    BY <1>4
  <2> HIDE DEF new
  <2>2. Runtime!Step \in Runtime!Steps
    BY <1>1, <1>2, StepKind DEF Runtime!Step
  <2>3. /\ entries' = [s \in Runtime!Steps |-> entries'[s]]
        /\ \A s \in Runtime!Steps : s # Runtime!Step => entries'[s] = entries[s]
        /\ entries'[Runtime!Step] = new
    BY <1>2, <2>1, <2>2
  <2>4. /\ entries'[Runtime!Step].phase = "COMPLETED"
           /\ entries'[Runtime!Step].state = flow.answer
    BY <2>1, <2>3
  <2>5. ASSUME NEW s \in Runtime!Steps
        PROVE  entries'[s].phase \in {"none", "PREPARED", "COMPLETED"}
    <3>1. CASE s = Runtime!Step
      BY <2>4, <3>1
    <3>2. CASE s # Runtime!Step
      BY <1>2, <2>3, <3>2
    <3> QED BY <3>1, <3>2
  <2>6. Flagged(flow) /\ RuntimeSound(flow, entries', world)
    BY <1>1, <1>2, <2>2, <2>3, <2>4, CompletedSound
  <2>7. flow' \in Flows /\ RuntimeSound(flow', entries', world) /\ flow'.pc = "step"
    BY <1>1, <1>2, <1>4, <2>4, <2>6, ResultedSound, ResultedPc
  <2>8. RuntimeSound(flow', entries', world') /\ world' \in Worlds
        /\ taken' \subseteq Runtime!Steps
    BY <1>1, <1>2, <2>7
  <2> QED BY <1>1, <1>2, <2>3, <2>5, <2>7, <2>8, GoesOn
<1> QED BY <1>1, <1>3, <1>4

LEMMA RuntimeReturnInvariant == ASSUME RuntimeInv, Runtime!Return PROVE RuntimeInv'
<1>1. /\ flow.pc = "step" /\ flow.todo = <<>> /\ flow' = [flow EXCEPT !.pc = "returned"]
      /\ UNCHANGED <<input, entries, world, taken, calls, faults>>
  BY DEF Runtime!Return
<1>2. /\ flow \in Flows /\ input \in Options /\ Progress(flow, entries)
      /\ calls = 1 => Known(flow, entries, world)
  BY <1>1 DEF RuntimeInv, RuntimeTyped, RuntimeSound
<1>3. /\ flow' \in Flows /\ flow'.pc = "returned" /\ flow'.todo = <<>>
      /\ flow'.created = flow.created /\ flow'.guard = flow.guard
      /\ flow'.stored = flow.stored /\ flow'.destroyed = flow.destroyed
      /\ flow'.error = flow.error /\ flow'.residue = flow.residue
      /\ flow'.stopped = flow.stopped
  BY <1>1, <1>2 DEF Flows
<1>4. /\ result'.cleanup \in {"COMPLETE", "RESIDUE", "NOT_NEEDED"}
      /\ result'.cleanup # "RESIDUE" => ~Runtime!Residue(flow)
      /\ result'.cleanup = "COMPLETE" <=> ~Runtime!Residue(flow) /\ flow.destroyed
         /\ flow.stopped
      /\ result'.state = "SUCCEEDED" => ~Runtime!Residue(flow) /\ flow.error = "none"
  BY DEF Runtime!Return
<1>5. RuntimeTyped'
  BY <1>1, <1>3, <1>4 DEF RuntimeInv, RuntimeTyped
<1>6. /\ ~Work(flow) /\ ~Work(flow') /\ \A x : ~InList(x, flow.todo) /\ ~InList(x, flow'.todo)
  BY <1>1, <1>3 DEF Work, InList
<1>7. Progress(flow', entries)
  BY <1>2, <1>3, <1>6 DEF Progress
<1>8. ASSUME calls = 1 PROVE Known(flow', entries, world)
  BY <1>2, <1>3, <1>6, <1>8 DEF Known
<1>9. RuntimeSound(flow, entries, world)'
  BY <1>1, <1>7, <1>8 DEF RuntimeSound, Progress, Known
<1>10. calls' # 0
  BY <1>1 DEF RuntimeInv, Untouched
<1>11. Runtime!FlowIsAccounted'
  <2>1. ASSUME calls = 1, result'.cleanup # "RESIDUE"
        PROVE  /\ world.runtime # "live"
               /\ Runtime!RevokesGranted => ~world.guard /\ ~world.secret
    <3>1. Known(flow, entries, world) /\ ~Runtime!Residue(flow)
      BY <1>2, <1>4, <2>1
    <3>2. Runtime!RevokesGranted => ~Denied("guard-revoke", entries)
          /\ ~Denied("secret-revoke", entries)
      BY DEF Runtime!RevokesGranted, Denied
    <3> QED BY <3>1, <3>2 DEF Known, Runtime!Residue
  <2>2. ASSUME result'.state = "SUCCEEDED"
        PROVE  /\ result'.cleanup = "COMPLETE"
               /\ \A i \in DOMAIN Runtime!Main(input) : entries[Runtime!Main(input)[i]].phase = "COMPLETED"
    <3>1. ~Runtime!Residue(flow) /\ flow.error = "none" /\ flow.created /\ flow.stopped
      BY <1>2, <1>4, <1>6, <2>2 DEF Progress, Runtime!Residue
    <3>2. result'.cleanup = "COMPLETE"
      BY <1>4, <3>1 DEF Runtime!Residue
    <3>3. ASSUME NEW i \in DOMAIN Runtime!Main(input)
          PROVE  entries[Runtime!Main(input)[i]].phase = "COMPLETED"
      <4>1. Runtime!Main(input)[i] \in Runtime!MainSteps
            /\ InList(Runtime!Main(input)[i], Runtime!Main(input))
        BY <1>2, <3>3, MainList DEF InList
      <4> QED BY <1>2, <1>6, <3>1, <4>1 DEF Progress
    <3> QED BY <3>2, <3>3
  <2> QED BY <1>1, <2>1, <2>2 DEF Runtime!FlowIsAccounted, Runtime!RevokesGranted
<1> QED BY <1>5, <1>9, <1>10, <1>11 DEF RuntimeInv

LEMMA RuntimeAbortInvariant == ASSUME RuntimeFaults \in Nat, RuntimeInv,
Runtime!Abort PROVE RuntimeInv'
<1>1. /\ flow.pc \in {"step", "ask", "record"} /\ Runtime!Fault
      /\ flow' = [flow EXCEPT !.aborted = TRUE]
      /\ UNCHANGED <<input, entries, world, taken, result, calls>>
  BY DEF Runtime!Abort
<1>2. flow \in Flows /\ RuntimeSound(flow, entries, world) /\ faults' \in 0..RuntimeFaults
  BY <1>1, FaultTyped DEF RuntimeInv, RuntimeTyped
<1>3. /\ flow' \in Flows /\ flow'.pc = flow.pc /\ flow'.todo = flow.todo
      /\ flow'.created = flow.created /\ flow'.guard = flow.guard
      /\ flow'.stored = flow.stored /\ flow'.destroyed = flow.destroyed
      /\ flow'.error = flow.error /\ flow'.residue = flow.residue
      /\ flow'.stopped = flow.stopped /\ flow'.answer = flow.answer
  BY <1>1, <1>2 DEF Flows
<1>4. Progress(flow', entries)
  BY <1>1, <1>2, <1>3 DEF RuntimeSound, Progress, Work, Flagged
<1>5. ASSUME calls = 1 PROVE Known(flow', entries, world)
  BY <1>1, <1>2, <1>3, <1>5 DEF RuntimeSound, Known, Work
<1>6. RuntimeSound(flow', entries, world)
  BY <1>4, <1>5 DEF RuntimeSound
<1> QED BY <1>1, <1>2, <1>3, <1>6, MovesOn

LEMMA CrashInvariant == ASSUME RuntimeFaults \in Nat, RuntimeInv,
Runtime!Crash PROVE RuntimeInv'
<1>1. /\ flow.pc # "idle"
      /\ Runtime!Fault
      /\ flow' = Runtime!Idle
      /\ result' = Runtime!NoResult
      /\ UNCHANGED <<input, entries, world, taken, calls>>
  BY DEF Runtime!Crash
<1>2. input \in Options /\ faults' \in 0..RuntimeFaults /\ calls # 0
  BY <1>1, FaultTyped DEF RuntimeInv, RuntimeTyped, Untouched
<1>3. flow' \in Flows /\ flow'.pc = "idle"
  BY <1>1, <1>2, FreshFlow
<1>4. RuntimeTyped'
  BY <1>1, <1>2, <1>3 DEF RuntimeInv, RuntimeTyped, Runtime!NoResult
<1>5. RuntimeSound(flow, entries, world)' /\ Runtime!FlowIsAccounted' /\ calls' # 0
  BY <1>1, <1>2, <1>3 DEF RuntimeSound, Runtime!FlowIsAccounted, Runtime!Returned
<1> QED BY <1>4, <1>5 DEF RuntimeInv

LEMMA StutterInvariant == ASSUME RuntimeInv, UNCHANGED Runtime!vars PROVE RuntimeInv'
<1>1. /\ UNCHANGED <<input, entries, world, taken, flow, result, calls, faults>>
      /\ RuntimeTyped /\ RuntimeSound(flow, entries, world) /\ (calls = 0 => Untouched)
         /\ Runtime!FlowIsAccounted
  BY DEF Runtime!vars, RuntimeInv
<1>2. RuntimeTyped' /\ (calls = 0 => Untouched)'
  BY <1>1 DEF RuntimeTyped, Untouched
<1>3. RuntimeSound(flow, entries, world)'
  BY <1>1 DEF RuntimeSound, Progress, Known
<1>4. Runtime!FlowIsAccounted'
  BY <1>1 DEF Runtime!FlowIsAccounted, Runtime!Returned, Runtime!RevokesGranted
<1> QED BY <1>2, <1>3, <1>4 DEF RuntimeInv

LEMMA FlowInvariant == Runtime!Spec => []RuntimeInv
<1>1. Runtime!Init => RuntimeInv
  BY RuntimeAssumption, RuntimeInitInvariant
<1>2. RuntimeInv /\ [Runtime!Next]_(Runtime!vars) => RuntimeInv'
  BY RuntimeAssumption, RuntimeStartInvariant, SkipInvariant, RuntimeStopInvariant,
     ReplayInvariant,
     PendingInvariant, PrepareInvariant, AskInvariant, RecordInvariant,
     RuntimeReturnInvariant,
     RuntimeAbortInvariant, CrashInvariant, StutterInvariant DEF Runtime!Next
<1> QED BY <1>1, <1>2, PTL DEF Runtime!Spec

\* The entries, the process and what exists keep their types.
THEOREM FlowTypes == Runtime!Spec => []Runtime!TypeOK
<1>1. RuntimeInv => Runtime!TypeOK
  <2>1. RuntimeTyped => DOMAIN entries = Runtime!Steps
    BY DEF RuntimeTyped
  <2>2. RuntimeTyped => Runtime!TypeOK
    BY <2>1 DEF RuntimeTyped, Runtime!TypeOK, Flows, Worlds
  <2> QED BY <2>2 DEF RuntimeInv
<1> QED BY <1>1, FlowInvariant, PTL

\* A result without residue leaves nothing in the first process, unless a revocation
\* was answered with a failed result; SUCCEEDED means that every command was answered.
THEOREM AccountedFlow == Runtime!Spec => []Runtime!FlowIsAccounted
<1>1. RuntimeInv => Runtime!FlowIsAccounted
  BY DEF RuntimeInv
<1> QED BY <1>1, FlowInvariant, PTL

-----------------------------------------------------------------------------
(***************************************************************************)
(* A snapshot is an instant of the source, for any directory and any       *)
(* changes while it is walked.                                             *)
(*                                                                         *)
(* Two equal walks agree with what the source was when the second began:   *)
(* a change since then has a version that no entry of the first walk has,  *)
(* and entries that came or went have changed the directory's own version. *)
(* So the invariant of a second walk is about an instant between the two.  *)
(***************************************************************************)

Walked == UNION {[some -> [content : EntryContents, version : Nat]] : some \in SUBSET EntryNames}
Trees == UNION {[some -> EntryContents] : some \in SUBSET EntryNames}
Protocols == {"snapshot", "identity", "resolver"}
Published ==
    [tree : Trees, manifest : BOOLEAN, by : Nat, instants : SUBSET Trees,
    protocol : Protocols]

\* No entry is of a later version.
Within(tree, v) == \A n \in DOMAIN tree : tree[n].version \in 0..v

CaptureTyped ==
    /\ protocol \in Protocols /\ pc \in {"idle", "walk", "freeze", "manifest"}
    /\ changes \in Nat /\ calls \in Nat /\ root \in 0..changes /\ opened \in 0..root
    /\ source \in Walked /\ Within(source, changes)
    /\ walks \in Seq(Walked) /\ seen \subseteq Trees /\ store \subseteq Published

\* Each content that was read is of an instant of the capture.
Witnessed(tree, instants) ==
    \A n \in DOMAIN tree : \E i \in instants : n \in DOMAIN i /\ i[n] = tree[n]

\* What has a version up to v is as it was at the instant x.
Since(tree, x, v) == \A n \in DOMAIN tree : tree[n].version <= v => n \in DOMAIN x
/\ tree[n] = x[n]

\* The source was x, at version v, when the first walk was over and the second not begun.
Between(x, v) ==
    /\ Capture!Content(x) \in seen /\ Within(walks[1], v)
    /\ Since(source, x, v) /\ Since(walks[2], x, v)
    /\ root = opened => DOMAIN x = DOMAIN walks[1]

WalkIsTrue ==
    /\ Capture!Content(source) \in seen /\ Len(walks) \in 1..Capture!Walks
    /\ \A k \in 1..Len(walks) : Within(walks[k], changes)
       /\ Witnessed(Capture!Content(walks[k]), seen)
    /\ Len(walks) = 1 /\ root = opened => DOMAIN source = todo \cup DOMAIN walks[1]
    /\ Len(walks) = 2 /\ protocol # "resolver" => \E x \in Walked,
       v \in 0..changes : Between(x, v)

TreeIsTrue(from, tree, instants) ==
    IF from = "resolver" THEN Witnessed(tree, instants) ELSE tree \in instants

CaptureInv ==
    /\ CaptureTyped
    /\ pc = "walk" => WalkIsTrue
    /\ pc = "freeze" => Len(walks) = Capture!Walks
       /\ TreeIsTrue(protocol, Capture!Content(Capture!Copied), seen)
    /\ pc = "manifest" => Len(walks) = Capture!Walks
    /\ \A s \in store : TreeIsTrue(s.protocol, s.tree, s.instants)

LEMMA EmptyIsWalked == Capture!Empty \in Walked /\ DOMAIN Capture!Empty = {}
<1>1. Capture!Empty \in [{} -> [content : EntryContents, version : Nat]] BY DEF Capture!Empty
<1> QED BY <1>1 DEF Walked

LEMMA ContentIsTree ==
  ASSUME NEW tree \in Walked
  PROVE  /\ Capture!Content(tree) \in Trees /\ DOMAIN Capture!Content(tree) = DOMAIN tree
         /\ \A n \in DOMAIN tree : Capture!Content(tree)[n] = tree[n].content
<1>1. PICK some \in SUBSET EntryNames : tree \in [some -> [content : EntryContents, version : Nat]]
  BY DEF Walked
<1>2. Capture!Content(tree) \in [some -> EntryContents]
  BY <1>1 DEF Capture!Content
<1> QED BY <1>2 DEF Trees, Capture!Content

\* An entry more, or another one, or one less.
LEMMA EntryIsWalked ==
  ASSUME NEW tree \in Walked, NEW n \in EntryNames, NEW e \in [content : EntryContents, version : Nat]
  PROVE  [m \in DOMAIN tree \cup {n} |-> IF m = n THEN e ELSE tree[m]] \in Walked
<1>1. PICK some \in SUBSET EntryNames : tree \in [some -> [content : EntryContents, version : Nat]]
  BY DEF Walked
<1>2. /\ [m \in DOMAIN tree \cup {n} |-> IF m = n THEN e ELSE tree[m]]
            \in [some \cup {n} -> [content : EntryContents, version : Nat]]
      /\ some \cup {n} \in SUBSET EntryNames
  BY <1>1
<1> QED BY <1>2 DEF Walked

LEMMA RemovalIsWalked ==
  ASSUME NEW tree \in Walked, NEW n \in EntryNames
  PROVE  [m \in DOMAIN tree \ {n} |-> tree[m]] \in Walked
<1>1. PICK some \in SUBSET EntryNames : tree \in [some -> [content : EntryContents, version : Nat]]
  BY DEF Walked
<1>2. /\ [m \in DOMAIN tree \ {n} |-> tree[m]]
            \in [some \ {n} -> [content : EntryContents, version : Nat]]
      /\ some \ {n} \in SUBSET EntryNames
  BY <1>1
<1> QED BY <1>2 DEF Walked

LEMMA EntryIsEntry ==
  ASSUME NEW tree \in Walked, NEW n \in DOMAIN tree
  PROVE  n \in EntryNames /\ tree[n] \in [content : EntryContents, version : Nat]
  BY DEF Walked

LEMMA CaptureInitInvariant == ASSUME Capture!Init PROVE CaptureInv
<1>1. source \in [EntryNames -> [content : EntryContents, version : Nat]] /\ Within(source, 0)
  BY DEF Capture!Init, Within
<1>2. source \in Walked
  BY <1>1 DEF Walked
<1> QED BY <1>1, <1>2 DEF Capture!Init, CaptureInv, CaptureTyped, Protocols

\* Any end of a capture.
LEMMA CaptureStopInvariant ==
  ASSUME CaptureInv, Capture!Stop, UNCHANGED Capture!Working, calls' \in Nat,
         store' \subseteq Published,
         \A s \in store' : TreeIsTrue(s.protocol, s.tree, s.instants)
  PROVE  CaptureInv'
  BY DEF CaptureInv, CaptureTyped, Capture!Stop, Capture!Working

LEMMA CaptureBeginInvariant == ASSUME CaptureInv, Capture!Begin PROVE CaptureInv'
<1>1. /\ pc' = "walk" /\ walks' = <<Capture!Empty>> /\ todo' = DOMAIN source /\ opened' = root
      /\ seen' = {Capture!Content(source)}
      /\ UNCHANGED <<Capture!Working, store>>
      /\ calls' \in Nat
  BY DEF Capture!Begin, CaptureInv, CaptureTyped
<1>2. CaptureTyped'
  BY <1>1, EmptyIsWalked, ContentIsTree DEF CaptureInv, CaptureTyped, Capture!Working
<1>3. WalkIsTrue'
  BY <1>1, EmptyIsWalked, ContentIsTree DEF CaptureInv, CaptureTyped, Capture!Working,
     WalkIsTrue, Within, Witnessed, Capture!Walks
<1> QED BY <1>1, <1>2, <1>3 DEF CaptureInv, Capture!Working

\* What a walk has so far, and one entry more.
LEMMA CaptureReadInvariant == ASSUME CaptureInv, NEW n \in EntryNames,
Capture!Read(n) PROVE CaptureInv'
<1>1. CASE n \notin DOMAIN source
  BY <1>1, CaptureStopInvariant DEF Capture!Read, CaptureInv, CaptureTyped
<1>2. CASE n \in DOMAIN source
  <2>1. WalkIsTrue /\ CaptureTyped /\ n \in todo /\ pc = "walk"
    BY DEF Capture!Read, CaptureInv
  <2>2. PICK k : k = Len(walks) OBVIOUS
  <2>3. k \in Nat \ {0} /\ k <= 3 /\ walks[k] \in Walked
        /\ \A j \in 1..k : walks[j] \in Walked
    BY <2>1, <2>2 DEF WalkIsTrue, CaptureTyped, Capture!Walks
  <2>4. PICK w : w = [m \in DOMAIN walks[k]
        \cup {n} |-> IF m = n THEN source[n] ELSE walks[k][m]]
    OBVIOUS
  <2>5. /\ walks' = [walks EXCEPT ![k] = w] /\ todo' = todo \ {n}
        /\ UNCHANGED <<protocol, source, root, changes, pc, seen, opened, store, calls>>
    BY <1>2, <2>2, <2>4 DEF Capture!Read, Capture!Working
  <2>6. w \in Walked
    BY <1>2, <2>1, <2>3, <2>4, EntryIsEntry, EntryIsWalked DEF CaptureTyped
  <2>7. /\ walks' \in Seq(Walked) /\ Len(walks') = k /\ walks'[k] = w
        /\ \A j \in 1..k : j # k => walks'[j] = walks[j]
    BY <2>1, <2>2, <2>3, <2>5, <2>6 DEF CaptureTyped
  <2>8. DOMAIN w = DOMAIN walks[k] \cup {n} /\ w[n] = source[n]
    BY <2>4
  <2>9. \A m \in DOMAIN walks[k] : m # n => w[m] = walks[k][m]
    BY <2>4
  <2>10. Within(w, changes)
    BY <1>2, <2>1, <2>2, <2>3, <2>8, <2>9 DEF WalkIsTrue, Within, CaptureTyped
  <2>11. Witnessed(Capture!Content(w), seen)
    <3>1. ASSUME NEW m \in DOMAIN w
          PROVE  \E i \in seen : m \in DOMAIN i /\ i[m] = w[m].content
      <4>1. CASE m = n
        BY <1>2, <2>1, <2>8, <4>1, ContentIsTree DEF WalkIsTrue, CaptureTyped
      <4>2. CASE m # n
        <5>1. Witnessed(Capture!Content(walks[k]), seen) /\ m \in DOMAIN walks[k]
              /\ w[m] = walks[k][m]
          BY <2>1, <2>2, <2>3, <2>8, <2>9, <4>2 DEF WalkIsTrue
        <5> QED BY <2>3, <5>1, ContentIsTree DEF Witnessed
      <4> QED BY <4>1, <4>2
    <3> QED BY <2>6, <3>1, ContentIsTree DEF Witnessed
  <2>12. CaptureTyped'
    BY <2>1, <2>5, <2>7 DEF CaptureTyped
  <2>13. \A j \in 1..Len(walks') : Within(walks'[j], changes)
         /\ Witnessed(Capture!Content(walks'[j]), seen)
    BY <2>1, <2>2, <2>7, <2>10, <2>11 DEF WalkIsTrue
  <2>14. Len(walks') = 1 /\ root = opened => DOMAIN source = todo' \cup DOMAIN walks'[1]
    BY <1>2, <2>1, <2>2, <2>5, <2>7, <2>8 DEF WalkIsTrue
  <2>15. ASSUME Len(walks') = 2, protocol # "resolver"
         PROVE  \E x \in Walked, v \in 0..changes : Between(x, v)'
    <3>1. PICK x \in Walked, v \in 0..changes : Between(x, v)
      BY <2>1, <2>2, <2>7, <2>15 DEF WalkIsTrue
    <3>2. k = 2 /\ walks'[1] = walks[1]
      BY <2>7, <2>15
    <3>3. Since(w, x, v)
      BY <1>2, <2>8, <2>9, <3>1, <3>2 DEF Between, Since
    <3>4. Between(x, v)'
      BY <2>5, <2>7, <3>1, <3>2, <3>3 DEF Between
    <3> QED BY <3>4
  <2>16. WalkIsTrue'
    BY <2>1, <2>2, <2>5, <2>7, <2>13, <2>14, <2>15 DEF WalkIsTrue, Capture!Walks
  <2> QED BY <2>5, <2>12, <2>16, <2>1 DEF CaptureInv
<1> QED BY <1>1, <1>2

\* The first walk is over: the source is the instant that the second will be about.
LEMMA NextWalkInvariant == ASSUME CaptureInv, Capture!NextWalk PROVE CaptureInv'
<1>1. /\ WalkIsTrue /\ CaptureTyped /\ todo = {} /\ pc = "walk"
      /\ Len(walks) < Capture!Walks /\ walks' = Append(walks, Capture!Empty)
      /\ UNCHANGED <<protocol, source, root, changes, pc, seen, opened, store, calls>>
  BY DEF Capture!NextWalk, CaptureInv, Capture!Working
<1>8. PICK e \in Walked : e = Capture!Empty
  BY EmptyIsWalked
<1>9. walks \in Seq(Walked) /\ Len(walks) \in 1..3
  <2>1. Capture!Walks \in {2, 3} BY DEF Capture!Walks
  <2>2. PICK k : k = Len(walks) OBVIOUS
  <2>3. k \in 1..Capture!Walks BY <1>1, <2>2 DEF WalkIsTrue
  <2>4. k \in 1..3 BY <2>1, <2>3
  <2> QED BY <1>1, <2>2, <2>4 DEF CaptureTyped
<1>2. /\ walks' \in Seq(Walked) /\ Len(walks') = Len(walks) + 1 /\ Len(walks) \in 1..3
      /\ walks'[Len(walks) + 1] = Capture!Empty
         /\ \A k \in 1..Len(walks) : walks'[k] = walks[k]
  <2>1. walks' = Append(walks, e)
    BY <1>1, <1>8
  <2>2. walks' \in Seq(Walked) /\ Len(walks') = Len(walks) + 1
    BY <1>9, <2>1
  <2>3. walks'[Len(walks) + 1] = e
    BY <1>9, <2>1
  <2>4. \A k \in 1..Len(walks) : walks'[k] = walks[k]
    BY <1>9, <2>1
  <2> QED BY <1>8, <1>9, <2>2, <2>3, <2>4
<1>3. CaptureTyped'
  BY <1>1, <1>2 DEF CaptureTyped
<1>4. Within(Capture!Empty, changes) /\ Witnessed(Capture!Content(Capture!Empty), seen)
  BY EmptyIsWalked, ContentIsTree DEF Within, Witnessed
<1>5. \A k \in 1..Len(walks') : Within(walks'[k], changes)
      /\ Witnessed(Capture!Content(walks'[k]), seen)
  BY <1>1, <1>2, <1>4 DEF WalkIsTrue
<1>6. ASSUME Len(walks') = 2 PROVE \E x \in Walked, v \in 0..changes : Between(x, v)'
  <2>1. Len(walks) = 1 /\ walks'[1] = walks[1] /\ walks'[2] = Capture!Empty
    <3>1. Len(walks) = 1
      <4>1. PICK k : k = Len(walks) OBVIOUS
      <4>2. k \in 1..3 /\ k + 1 = 2 BY <1>2, <1>6, <4>1
      <4> QED BY <4>1, <4>2
    <3> QED BY <1>2, <3>1
  <2>2. PICK x, v : x = source /\ v = changes OBVIOUS
  <2>3. x \in Walked /\ v \in 0..changes
    BY <1>1, <2>2 DEF CaptureTyped
  <2>4. Within(walks[1], changes) /\ Capture!Content(source) \in seen
    BY <1>1, <2>1 DEF WalkIsTrue
  <2>5. root = opened => DOMAIN source = DOMAIN walks[1]
    BY <1>1, <2>1 DEF WalkIsTrue
  <2>6. Since(source, x, v) /\ Since(Capture!Empty, x, v)
    BY <2>2, EmptyIsWalked DEF Since
  <2>7. Between(x, v)'
    BY <1>1, <2>1, <2>2, <2>4, <2>5, <2>6 DEF Between
  <2> QED BY <2>3, <2>7
<1>7. WalkIsTrue'
  BY <1>1, <1>2, <1>5, <1>6 DEF WalkIsTrue, Capture!Walks
<1> QED BY <1>1, <1>3, <1>7 DEF CaptureInv

\* Two walks that agree are of the instant between them.
LEMMA CompareInvariant == ASSUME CaptureInv, Capture!Compare PROVE CaptureInv'
<1>1. CASE Capture!Stop
  BY <1>1, CaptureStopInvariant DEF Capture!Compare, CaptureInv, CaptureTyped
<1>2. CASE Capture!Unchanged /\ pc' = "freeze" /\ UNCHANGED <<todo, walks, seen, opened>>
  <2>1. WalkIsTrue /\ CaptureTyped /\ Len(walks) = Capture!Walks
        /\ UNCHANGED <<protocol, source, root, changes>>
    BY DEF Capture!Compare, CaptureInv, Capture!Working
  <2>2. TreeIsTrue(protocol, Capture!Content(Capture!Copied), seen)
    <3>1. CASE protocol = "resolver"
      BY <2>1, <3>1 DEF Capture!Copied, TreeIsTrue, WalkIsTrue, Capture!Walks
    <3>2. CASE protocol # "resolver"
      <4>0. /\ Len(walks) = 2 /\ walks[1] = walks[2] /\ root = opened
            /\ Capture!Copied = walks[1]
        BY <1>2, <2>1, <3>2 DEF Capture!Unchanged, Capture!Walks, Capture!Copied
      <4>1. walks[1] \in Walked
        <5>1. walks \in Seq(Walked)
          BY <2>1 DEF CaptureTyped
        <5> QED BY <4>0, <5>1
      <4>2. PICK x \in Walked, v \in 0..changes : Between(x, v)
        BY <2>1, <3>2, <4>0, <4>1 DEF WalkIsTrue
      <4>3. DOMAIN x = DOMAIN walks[1]
        BY <4>0, <4>1, <4>2 DEF Between
      <4>4. \A n \in DOMAIN walks[1] : walks[1][n].version <= v
        BY <4>2 DEF Between, Within
      <4>5. \A n \in DOMAIN walks[1] : walks[1][n] = x[n]
        BY <4>0, <4>1, <4>2, <4>4 DEF Between, Since
      <4>6. Capture!Content(walks[1]) = Capture!Content(x)
        BY <4>3, <4>5 DEF Capture!Content
      <4> QED BY <3>2, <4>0, <4>1, <4>2, <4>6 DEF TreeIsTrue, Between
    <3> QED BY <3>1, <3>2
  <2> QED BY <1>2, <2>1, <2>2 DEF Capture!Compare, CaptureInv, CaptureTyped, Capture!Working,
      Capture!Copied, Capture!Walks
<1> QED BY <1>1, <1>2 DEF Capture!Compare

LEMMA PublishInvariant == ASSUME CaptureInv, Capture!Publish PROVE CaptureInv'
<1>1. /\ CaptureTyped /\ Len(walks) = Capture!Walks
         /\ TreeIsTrue(protocol, Capture!Content(Capture!Copied), seen)
      /\ UNCHANGED <<protocol, source, root, changes, calls>>
  BY DEF Capture!Publish, CaptureInv, Capture!Working
<1>2. CASE Capture!Stop /\ UNCHANGED store
  BY <1>1, <1>2, CaptureStopInvariant DEF CaptureInv, CaptureTyped, Capture!Working
<1>3. CASE store' = store \cup {[Capture!Snapshot EXCEPT !.manifest = protocol # "snapshot"]}
  <2>1. PICK s : s = [Capture!Snapshot EXCEPT !.manifest = protocol # "snapshot"] OBVIOUS
  <2>2. Capture!Copied \in Walked
    BY <1>1 DEF CaptureTyped, Capture!Copied, Capture!Walks
  <2>3. /\ s \in Published
        /\ s.tree = Capture!Content(Capture!Copied)
        /\ s.protocol = protocol
        /\ s.instants = seen
    BY <1>1, <2>1, <2>2, ContentIsTree DEF Capture!Snapshot, Published, CaptureTyped
  <2>4. TreeIsTrue(s.protocol, s.tree, s.instants)
    BY <1>1, <2>3
  <2>5. /\ store' \subseteq Published
        /\ \A z \in store' : TreeIsTrue(z.protocol, z.tree, z.instants)
    BY <1>3, <2>1, <2>3, <2>4 DEF CaptureInv, CaptureTyped
  <2>6. CASE Capture!Stop
    BY <1>1, <2>5, <2>6, CaptureStopInvariant DEF CaptureTyped, Capture!Working
  <2>7. CASE pc' = "manifest" /\ UNCHANGED <<todo, walks, seen, opened>>
    BY <1>1, <2>5, <2>7 DEF CaptureInv, CaptureTyped, Capture!Walks
  <2> QED BY <1>3, <2>6, <2>7 DEF Capture!Publish
<1> QED BY <1>2, <1>3 DEF Capture!Publish

LEMMA ManifestInvariant == ASSUME CaptureInv, Capture!PublishManifest PROVE CaptureInv'
<1>1. ASSUME NEW s \in store
      PROVE  /\ [s EXCEPT !.manifest = TRUE] \in Published
             /\ [s EXCEPT !.manifest = TRUE].tree = s.tree
             /\ [s EXCEPT !.manifest = TRUE].protocol = s.protocol
             /\ [s EXCEPT !.manifest = TRUE].instants = s.instants
  BY DEF CaptureInv, CaptureTyped, Published
<1>2. ASSUME NEW z \in store'
      PROVE  z \in Published /\ TreeIsTrue(z.protocol, z.tree, z.instants)
  <2>1. PICK s \in store : z = IF s.by = calls THEN [s EXCEPT !.manifest = TRUE] ELSE s
    BY DEF Capture!PublishManifest
  <2> QED BY <1>1, <2>1 DEF CaptureInv, CaptureTyped
<1> QED BY <1>2, CaptureStopInvariant DEF Capture!PublishManifest, CaptureInv, CaptureTyped,
    Capture!Working

LEMMA CaptureFailInvariant == ASSUME CaptureInv, Capture!Fail
\/ Capture!Crash PROVE CaptureInv'
<1>1. store' \subseteq store /\ Capture!Stop /\ UNCHANGED <<Capture!Working, calls>>
  BY DEF Capture!Fail, Capture!Crash
<1> QED BY <1>1, CaptureStopInvariant DEF CaptureInv, CaptureTyped

\* A change is of a version that nothing has had.
LEMMA ChangeInvariant == ASSUME CaptureInv, Capture!Change PROVE CaptureInv'
<1>1. /\ WalkIsTrue /\ CaptureTyped /\ pc = "walk" /\ changes' = changes + 1
      /\ seen' = seen \cup {Capture!Content(source')}
      /\ UNCHANGED <<protocol, pc, todo, walks, opened, store, calls>>
  BY DEF Capture!Change, CaptureInv
<1>2. /\ source' \in Walked
      /\ \A n \in DOMAIN source' : source'[n].version = changes + 1
                                    \/ (n \in DOMAIN source /\ source'[n] = source[n])
      /\ root' = changes + 1 \/ (root' = root /\ DOMAIN source' = DOMAIN source)
  <2>1. PICK n \in EntryNames :
          \/ \E c \in EntryContents :
               /\ source' = [m \in DOMAIN source \cup {n} |->
                               IF m = n THEN [content |-> c,
                               version |-> changes'] ELSE source[m]]
               /\ root' = IF n \in DOMAIN source THEN root ELSE changes'
          \/ /\ n \in DOMAIN source
             /\ source' = [m \in DOMAIN source \ {n} |-> source[m]]
             /\ root' = changes'
    BY DEF Capture!Change
  <2>2. ASSUME NEW c \in EntryContents,
               source' = [m \in DOMAIN source \cup {n} |->
                             IF m = n THEN [content |-> c,
                             version |-> changes'] ELSE source[m]],
               root' = IF n \in DOMAIN source THEN root ELSE changes'
        PROVE  /\ source' \in Walked
               /\ \A m \in DOMAIN source' : source'[m].version = changes + 1
                                    \/ (m \in DOMAIN source /\ source'[m] = source[m])
               /\ root' = changes + 1 \/ (root' = root /\ DOMAIN source' = DOMAIN source)
    <3>1. PICK e \in [content : EntryContents, version : Nat] : e = [content |-> c,
          version |-> changes']
      <4>1. changes' \in Nat BY <1>1 DEF CaptureTyped
      <4> QED BY <4>1
    <3>2. source' = [m \in DOMAIN source \cup {n} |-> IF m = n THEN e ELSE source[m]]
      BY <2>2, <3>1
    <3>3. source' \in Walked
      BY <1>1, <3>2, EntryIsWalked DEF CaptureTyped
    <3>4. e.version = changes + 1
      BY <1>1, <3>1
    <3> QED BY <1>1, <2>2, <3>2, <3>3, <3>4
  <2>3. CASE /\ n \in DOMAIN source
             /\ source' = [m \in DOMAIN source \ {n} |-> source[m]]
             /\ root' = changes'
    BY <1>1, <2>3, RemovalIsWalked DEF CaptureTyped
  <2> QED BY <2>1, <2>2, <2>3
<1>3. Capture!Content(source') \in seen' /\ seen' \subseteq Trees /\ seen \subseteq seen'
  BY <1>1, <1>2, ContentIsTree DEF CaptureTyped
<1>4. \A tree : Within(tree, changes) => Within(tree, changes')
  BY <1>1 DEF Within, CaptureTyped
<1>5. Within(source', changes')
  BY <1>1, <1>2 DEF Within, CaptureTyped
<1>6. CaptureTyped'
  BY <1>1, <1>2, <1>3, <1>5 DEF CaptureTyped
<1>7. root' = opened => root = opened /\ DOMAIN source' = DOMAIN source
  BY <1>1, <1>2 DEF CaptureTyped
<1>8. \A tree : Witnessed(tree, seen) => Witnessed(tree, seen')
  BY <1>3 DEF Witnessed
<1>9. ASSUME NEW x, NEW v \in 0..changes, Between(x, v) PROVE Between(x, v)'
  <2>1. Since(source', x, v)
    BY <1>1, <1>2, <1>9 DEF Between, Since, CaptureTyped
  <2> QED BY <1>1, <1>3, <1>7, <1>9, <2>1 DEF Between
<1>10. WalkIsTrue'
  <2>1. Capture!Content(source') \in seen' /\ Len(walks) \in 1..Capture!Walks
    BY <1>1, <1>3 DEF WalkIsTrue
  <2>2. \A k \in 1..Len(walks) : Within(walks[k], changes')
        /\ Witnessed(Capture!Content(walks[k]), seen')
    BY <1>1, <1>4, <1>8 DEF WalkIsTrue
  <2>3. Len(walks) = 1 /\ root' = opened => DOMAIN source' = todo \cup DOMAIN walks[1]
    BY <1>1, <1>7 DEF WalkIsTrue
  <2>4. ASSUME Len(walks) = 2, protocol # "resolver"
        PROVE  \E x \in Walked, v \in 0..changes' : Between(x, v)'
    <3>1. PICK x \in Walked, v \in 0..changes : Between(x, v)
      BY <1>1, <2>4 DEF WalkIsTrue
    <3>2. v \in 0..changes'
      BY <1>1 DEF CaptureTyped
    <3> QED BY <1>9, <3>1, <3>2
  <2> QED BY <1>1, <2>1, <2>2, <2>3, <2>4 DEF WalkIsTrue, Capture!Walks
<1> QED BY <1>1, <1>6, <1>10 DEF CaptureInv

LEMMA CaptureStepInvariant == ASSUME CaptureInv,
[Capture!Next]_(Capture!vars) PROVE CaptureInv'
<1>1. CASE UNCHANGED Capture!vars
  BY <1>1 DEF Capture!vars, CaptureInv, CaptureTyped, WalkIsTrue, Between, Capture!Walks,
     Capture!Copied
<1> QED BY <1>1, CaptureBeginInvariant, CaptureReadInvariant, NextWalkInvariant,
    CompareInvariant,
           PublishInvariant, ManifestInvariant, CaptureFailInvariant, ChangeInvariant
           DEF Capture!Next

(***************************************************************************)
(* A snapshot or an identity is what the source held at one instant of its *)
(* capture, and what the resolver publishes is made of contents each entry *)
(* had: for any directory, any changes while it is read, any refusal and   *)
(* any death (createImmutableLocalSnapshot, captureImmutableLocalIdentity, *)
(* the resolver's three walks).                                            *)
(***************************************************************************)
THEOREM InstantSnapshot == Capture!Spec => []Capture!SnapshotIsAnInstant
<1>1. Capture!Init => CaptureInv BY CaptureInitInvariant
<1>2. CaptureInv /\ [Capture!Next]_(Capture!vars) => CaptureInv' BY CaptureStepInvariant
<1>3. CaptureInv => Capture!SnapshotIsAnInstant
  BY DEF CaptureInv, TreeIsTrue, Witnessed, Capture!SnapshotIsAnInstant
<1> QED BY <1>1, <1>2, <1>3, PTL DEF Capture!Spec

-----------------------------------------------------------------------------
(***************************************************************************)
(* The helper's sources are accounted for, for any number of runs of a     *)
(* configuration and any number of crashes, errors and lost answers.       *)
(*                                                                         *)
(* The invariant ties the process to its acquisition's journal: while it   *)
(* may still write the journal, that does not say RELEASED, and whatever   *)
(* says RELEASED was written after the helper let the source go.           *)
(***************************************************************************)

SshStates == [phase : Ssh!Phases, command : BOOLEAN, root : BOOLEAN]
Working == {"acquire", "resume-status", "poll", "finalize", "import", "release"}
Leaving == {"capture", "prepare", "unlink"}
SshPcs == {"idle", "failed"} \cup Working \cup Leaving

SshTyped ==
    /\ index \in 0..SshCalls /\ calls \in 0..SshCalls
    /\ journal \in [Ssh!Acquisitions -> SshStates]
    /\ held \subseteq Ssh!Acquisitions /\ imported \subseteq Ssh!Acquisitions
    /\ captured \subseteq Ssh!Acquisitions /\ prepared \subseteq Ssh!Acquisitions
    /\ proc \in [pc : SshPcs, acq : 0..SshCalls, state : SshStates, identity : BOOLEAN,
                 error : BOOLEAN]

\* What the journal of an acquisition says is so.
JournalIsTrue ==
    \A a \in Ssh!Acquisitions :
        /\ journal[a].phase = "RELEASED" => a \notin held
        /\ journal[a].root => a \in imported
        /\ journal[a].phase = "IMPORTED" => journal[a].root

\* What the process believes of its acquisition is so, and the index names it.
ProcessIsRight ==
    ~Ssh!At("idle") =>
        /\ Ssh!Acq \in Ssh!Acquisitions /\ index = Ssh!Acq
        /\ Ssh!State.root => Ssh!Acq \in imported
        /\ Ssh!State.phase = "RELEASED" => Ssh!Acq \notin held
        /\ proc.pc \in Working =>
             journal[Ssh!Acq].phase # "RELEASED" /\ Ssh!State.phase # "RELEASED"
        /\ Ssh!At("release") /\ ~proc.error => Ssh!State.root
        /\ proc.pc \in Leaving =>
             journal[Ssh!Acq].phase = "RELEASED" /\ Ssh!Acq \in imported
        /\ proc.pc \in {"prepare", "unlink"} => Ssh!Acq \in captured

SshInv == SshTyped /\ JournalIsTrue /\ ProcessIsRight /\ Ssh!SourceIsAccounted

LEMMA SshInitInvariant == ASSUME SshCalls \in Nat, Ssh!Init PROVE SshInv
<1>1. Ssh!Initial \in SshStates /\ Ssh!Initial.phase = "INITIAL" /\ Ssh!Initial.root = FALSE
  BY DEF Ssh!Initial, SshStates, Ssh!Phases
<1>2. SshTyped
  BY <1>1 DEF Ssh!Init, SshTyped, Ssh!Idle, SshPcs
<1> QED BY <1>1, <1>2 DEF Ssh!Init, SshInv, Ssh!Idle, JournalIsTrue, ProcessIsRight,
    Ssh!SourceIsAccounted, Ssh!At

\* An error leads to the release or to the end, with the state that was taken over.
LEMMA RaisedIsRight ==
  ASSUME NEW p \in [pc : SshPcs, acq : 0..SshCalls, state : SshStates, identity : BOOLEAN,
                    error : BOOLEAN]
  PROVE  /\ Ssh!Raised(p) \in [pc : SshPcs, acq : 0..SshCalls, state : SshStates,
                           identity : BOOLEAN, error : BOOLEAN]
         /\ Ssh!Raised(p).acq = p.acq /\ Ssh!Raised(p).state = p.state /\ Ssh!Raised(p).error
         /\ Ssh!Raised(p).pc \in {"release", "failed"}
         /\ Ssh!Raised(p).pc = "release" => p.state.phase # "RELEASED"
  BY DEF Ssh!Raised, SshPcs, Working

LEMMA StartIsTyped ==
  ASSUME SshCalls \in Nat, NEW at \in SshPcs, NEW a \in 0..SshCalls, NEW s \in SshStates,
         NEW e \in BOOLEAN
  PROVE  LET p == [Ssh!Idle EXCEPT !.pc = at, !.acq = a, !.state = s, !.error = e]
         IN /\ p \in [pc : SshPcs, acq : 0..SshCalls, state : SshStates, identity : BOOLEAN,
                      error : BOOLEAN]
            /\ p.pc = at /\ p.acq = a /\ p.state = s
<1>1. Ssh!Idle \in [pc : SshPcs, acq : 0..SshCalls, state : SshStates, identity : BOOLEAN,
                error : BOOLEAN]
  BY DEF Ssh!Idle, Ssh!Initial, SshStates, Ssh!Phases, SshPcs
<1> QED BY <1>1

LEMMA SshBeginInvariant == ASSUME SshCalls \in Nat, SshInv, Ssh!Begin PROVE SshInv'
<1> DEFINE state == journal[index']
           lost == state.phase = "RELEASED" /\ ~state.root
           new == [Ssh!Idle EXCEPT !.pc = Ssh!Resumed(state), !.acq = index', !.state = state,
                               !.error = lost]
<1>1. /\ calls' \in 0..SshCalls /\ index' \in Ssh!Acquisitions
      /\ held # {} => index' = index
  BY DEF Ssh!Begin, SshInv, SshTyped, Ssh!Acquisitions, Ssh!SourceIsAccounted
<1>2. state \in SshStates
  BY <1>1 DEF SshInv, SshTyped
<1>3. /\ Ssh!Resumed(state) \in SshPcs
      /\ Ssh!Resumed(state) \in Working => state.phase # "RELEASED"
      /\ Ssh!Resumed(state) = "release" => state.phase = "IMPORTED"
      /\ Ssh!Resumed(state) \in Leaving =>
           Ssh!Resumed(state) = "capture" /\ state.phase = "RELEASED" /\ state.root
  BY <1>2 DEF Ssh!Resumed, SshStates, Ssh!Phases, SshPcs, Working, Leaving
<1>4. /\ proc' = new
      /\ UNCHANGED <<journal, held, imported, captured, prepared>>
  BY DEF Ssh!Begin
<1>5. /\ new \in [pc : SshPcs, acq : 0..SshCalls, state : SshStates, identity : BOOLEAN,
                  error : BOOLEAN]
      /\ new.pc = Ssh!Resumed(state) /\ new.acq = index' /\ new.state = state
  <2>1. lost \in BOOLEAN /\ index' \in 0..SshCalls
    BY <1>1 DEF Ssh!Acquisitions
  <2> HIDE DEF lost, state
  <2> QED BY <1>2, <1>3, <2>1, StartIsTyped
<1> HIDE DEF new, state
<1>6. SshTyped'
  BY <1>1, <1>4, <1>5 DEF SshInv, SshTyped, Ssh!Acquisitions
<1>7. Ssh!SourceIsAccounted'
  BY <1>1, <1>4 DEF SshInv, Ssh!SourceIsAccounted
<1>8. JournalIsTrue'
  BY <1>4 DEF SshInv, JournalIsTrue
<1>9. ProcessIsRight'
  BY <1>1, <1>3, <1>4, <1>5 DEF SshInv, JournalIsTrue, ProcessIsRight, Ssh!At, Ssh!Acq,
     Ssh!State, state,
     Leaving
<1> QED BY <1>6, <1>7, <1>8, <1>9 DEF SshInv

\* The process goes on, after writing a state into the journal or not.
LEMMA WorkInvariant ==
  ASSUME SshInv, proc.pc \in Working, UNCHANGED <<index, calls, captured, prepared>>,
         held' \subseteq held \cup {Ssh!Acq}, imported' = imported \/ imported' = imported
         \cup {Ssh!Acq},
         Ssh!Acq \in held' \/ held' = held \/ held' = held \ {Ssh!Acq},
         NEW p \in [pc : SshPcs, acq : 0..SshCalls, state : SshStates, identity : BOOLEAN,
                    error : BOOLEAN],
         proc' = p, p.acq = Ssh!Acq, p.pc # "idle",
         p.pc \in {"failed"} \cup Working \/ (p.pc = "capture" /\ p.state.root),
         p.state.root => Ssh!Acq \in imported',
         p.pc \in Working => p.state.phase # "RELEASED",
         p.pc = "release" /\ ~p.error => p.state.root,
         \/ /\ journal' = journal /\ p.pc # "capture"
            /\ p.state.phase = "RELEASED" => Ssh!Acq \notin held'
         \/ /\ journal' = [journal EXCEPT ![Ssh!Acq] = p.state]
            /\ p.state.phase = "IMPORTED" => p.state.root
            /\ p.state.phase = "RELEASED" => Ssh!Acq \notin held'
            /\ p.pc = "capture" => p.state.phase = "RELEASED"
  PROVE  SshInv'
<1>1. Ssh!Acq \in Ssh!Acquisitions /\ index = Ssh!Acq /\ journal[Ssh!Acq].phase # "RELEASED"
  BY DEF SshInv, ProcessIsRight, Ssh!At, Working
<1>2. /\ \A a \in Ssh!Acquisitions \ {Ssh!Acq} : journal'[a] = journal[a]
      /\ journal' = journal \/ journal'[Ssh!Acq] = p.state
      /\ journal' \in [Ssh!Acquisitions -> SshStates]
  BY <1>1 DEF SshInv, SshTyped
<1>3. SshTyped'
  BY <1>1, <1>2 DEF SshInv, SshTyped
<1>4. JournalIsTrue'
  BY <1>1, <1>2 DEF SshInv, JournalIsTrue, Ssh!SourceIsAccounted
<1>5. Ssh!SourceIsAccounted'
  <2>1. Ssh!Acq \notin prepared
    BY <1>1 DEF SshInv, Ssh!SourceIsAccounted
  <2>2. \A a \in held' : index' = a
    BY <1>1 DEF SshInv, Ssh!SourceIsAccounted
  <2>3. ASSUME NEW a \in prepared'
        PROVE  a \notin held' /\ a \in imported' \cap captured'
               /\ journal'[a].phase = "RELEASED"
    BY <2>1, <2>3, <1>1, <1>2 DEF SshInv, SshTyped, Ssh!SourceIsAccounted
  <2> QED BY <2>2, <2>3 DEF Ssh!SourceIsAccounted
<1>6. ProcessIsRight'
  <2>1. p.pc \in Working => journal'[Ssh!Acq].phase # "RELEASED"
    BY <1>1, <1>2
  <2>2. p.state.phase = "RELEASED" => Ssh!Acq \notin held'
    OBVIOUS
  <2>3. p.pc \in Leaving => p.pc = "capture" /\ journal'[Ssh!Acq].phase = "RELEASED"
                            /\ Ssh!Acq \in imported'
    BY <1>1, <1>2 DEF Leaving, Working, SshInv, SshTyped
  <2> QED BY <1>1, <2>1, <2>2, <2>3 DEF ProcessIsRight, Ssh!At, Ssh!Acq, Ssh!State, Leaving
<1> QED BY <1>3, <1>4, <1>5, <1>6 DEF SshInv

\* What WorkInvariant asks of the states that Enter goes to.
LEMMA EnterInvariant ==
  ASSUME SshInv, proc.pc \in Working, UNCHANGED <<index, calls, captured, prepared, held>>,
         imported' = imported \/ imported' = imported \cup {Ssh!Acq},
         NEW state \in SshStates, NEW at \in Working, Ssh!Enter(state, at),
         state.phase # "RELEASED", state.root => Ssh!Acq \in imported',
         at = "release" \/ state.phase = "IMPORTED" => state.root
  PROVE  SshInv'
<1> DEFINE p == [proc EXCEPT !.state = state, !.pc = at]
<1>1. /\ p \in [pc : SshPcs, acq : 0..SshCalls, state : SshStates, identity : BOOLEAN,
                error : BOOLEAN]
      /\ p.acq = Ssh!Acq /\ p.state = state /\ p.pc = at
  BY DEF SshInv, SshTyped, SshPcs, Ssh!Acq
<1>2. \/ proc' = p /\ journal' = [journal EXCEPT ![Ssh!Acq] = state]
      \/ proc' = Ssh!Raised(p) /\ journal' = journal
  BY DEF Ssh!Enter, Ssh!Emit
<1> HIDE DEF p
<1>3. CASE proc' = p /\ journal' = [journal EXCEPT ![Ssh!Acq] = state]
  <2>1. at # "idle" /\ at # "capture" BY DEF Working
  <2> QED BY <1>1, <1>3, <2>1, WorkInvariant
<1>4. CASE proc' = Ssh!Raised(p) /\ journal' = journal
  <2>1. /\ Ssh!Raised(p) \in [pc : SshPcs, acq : 0..SshCalls, state : SshStates,
           identity : BOOLEAN,
                          error : BOOLEAN]
        /\ Ssh!Raised(p).acq = Ssh!Acq /\ Ssh!Raised(p).state = state /\ Ssh!Raised(p).error
        /\ Ssh!Raised(p).pc \in {"release", "failed"}
    BY <1>1, RaisedIsRight
  <2>2. Ssh!Raised(p).pc \in {"failed"} \cup Working /\ Ssh!Raised(p).pc # "idle"
        /\ Ssh!Raised(p).pc # "capture"
    BY <2>1 DEF Working
  <2> QED BY <1>4, <2>1, <2>2, WorkInvariant
<1> QED BY <1>2, <1>3, <1>4

\* The flow ends in an error; what the helper holds may have changed.
LEMMA FailsInvariant ==
  ASSUME SshInv, proc.pc \in Working,
         UNCHANGED <<index, calls, captured, prepared, imported>>,
         held' = held \/ held' = held \cup {Ssh!Acq}, Ssh!Fails
  PROVE  SshInv'
<1>1. proc \in [pc : SshPcs, acq : 0..SshCalls, state : SshStates, identity : BOOLEAN,
                error : BOOLEAN]
  BY DEF SshInv, SshTyped
<1>2. /\ Ssh!State.root => Ssh!Acq \in imported
      /\ Ssh!State.phase # "RELEASED"
  BY DEF SshInv, ProcessIsRight, Ssh!At, Working
<1>3. /\ Ssh!Raised(proc) \in [pc : SshPcs, acq : 0..SshCalls, state : SshStates,
         identity : BOOLEAN,
                           error : BOOLEAN]
      /\ Ssh!Raised(proc).acq = Ssh!Acq /\ Ssh!Raised(proc).state = Ssh!State
         /\ Ssh!Raised(proc).error
      /\ Ssh!Raised(proc).pc \in {"release", "failed"}
  BY <1>1, RaisedIsRight DEF Ssh!Acq, Ssh!State
<1>4. Ssh!Raised(proc).pc \in {"failed"} \cup Working /\ Ssh!Raised(proc).pc # "idle"
      /\ Ssh!Raised(proc).pc # "capture"
  BY <1>3 DEF Working
<1>5. proc' = Ssh!Raised(proc) /\ journal' = journal
  BY DEF Ssh!Fails
<1> QED BY <1>2, <1>3, <1>4, <1>5, WorkInvariant

LEMMA AcquireInvariant == ASSUME SshInv, Ssh!Acquire PROVE SshInv'
<1>1. proc.pc \in Working /\ UNCHANGED <<index, calls, captured, prepared, imported>>
  BY DEF Ssh!Acquire, Ssh!Outside, Ssh!At, Working
<1>2. CASE Ssh!Fails /\ (held' = held \/ held' = held \cup {Ssh!Acq})
  BY <1>1, <1>2, FailsInvariant
<1>3. ASSUME NEW identity \in BOOLEAN, held' = held \cup {Ssh!Acq},
             LET state == [Ssh!State EXCEPT !.phase = "ACQUIRING", !.command = TRUE]
             IN \/ /\ Ssh!Emit(state) /\ UNCHANGED faults
                   /\ proc' = [proc EXCEPT !.state = state, !.pc = "poll",
                                           !.identity = identity]
                \/ /\ Ssh!Fault /\ UNCHANGED journal
                   /\ proc' = Ssh!Raised([proc EXCEPT !.state = state])
      PROVE  SshInv'
  <2> DEFINE state == [Ssh!State EXCEPT !.phase = "ACQUIRING", !.command = TRUE]
             p == [proc EXCEPT !.state = state, !.pc = "poll", !.identity = identity]
             q == [proc EXCEPT !.state = state]
  <2>1. /\ state \in SshStates /\ state.phase = "ACQUIRING" /\ state.root = Ssh!State.root
        /\ Ssh!State.root => Ssh!Acq \in imported
    BY <1>1 DEF SshInv, SshTyped, SshStates, Ssh!Phases, Ssh!State, ProcessIsRight, Ssh!At,
       Working
  <2> HIDE DEF state
  <2>2. CASE journal' = [journal EXCEPT ![Ssh!Acq] = state] /\ proc' = p
    <3>1. /\ p \in [pc : SshPcs, acq : 0..SshCalls, state : SshStates, identity : BOOLEAN,
                    error : BOOLEAN]
          /\ p.acq = Ssh!Acq /\ p.state = state /\ p.pc = "poll"
      BY <2>1 DEF SshInv, SshTyped, SshPcs, Working, Ssh!Acq
    <3> HIDE DEF p
    <3>2. "poll" \in Working
      BY DEF Working
    <3> QED BY <1>1, <1>3, <2>1, <2>2, <3>1, <3>2, WorkInvariant
  <2>3. CASE journal' = journal /\ proc' = Ssh!Raised(q)
    <3>1. /\ q \in [pc : SshPcs, acq : 0..SshCalls, state : SshStates, identity : BOOLEAN,
                    error : BOOLEAN]
          /\ q.acq = Ssh!Acq /\ q.state = state
      BY <2>1 DEF SshInv, SshTyped, Ssh!Acq
    <3> HIDE DEF q
    <3>2. /\ Ssh!Raised(q) \in [pc : SshPcs, acq : 0..SshCalls, state : SshStates,
                            identity : BOOLEAN, error : BOOLEAN]
          /\ Ssh!Raised(q).acq = Ssh!Acq /\ Ssh!Raised(q).state = state /\ Ssh!Raised(q).error
          /\ Ssh!Raised(q).pc \in {"release", "failed"}
      BY <3>1, RaisedIsRight
    <3>3. Ssh!Raised(q).pc \in {"failed"} \cup Working /\ Ssh!Raised(q).pc # "idle"
          /\ Ssh!Raised(q).pc # "capture"
      BY <3>2 DEF Working
    <3> QED BY <1>1, <1>3, <2>1, <2>3, <3>2, <3>3, WorkInvariant
  <2> QED BY <1>3, <2>2, <2>3 DEF Ssh!Emit, state
<1> QED BY <1>2, <1>3 DEF Ssh!Acquire, Ssh!Lose

LEMMA PollInvariant == ASSUME SshInv, Ssh!ResumeStatus \/ Ssh!Poll
\/ Ssh!Finalize PROVE SshInv'
<1>1. /\ proc.pc \in Working /\ UNCHANGED <<index, calls, captured, prepared, imported, held>>
  BY DEF Ssh!ResumeStatus, Ssh!Poll, Ssh!Finalize, Ssh!Outside, Ssh!At, Working
<1>2. CASE Ssh!Fails
  BY <1>1, <1>2, FailsInvariant
<1>3. /\ Ssh!State \in SshStates /\ Ssh!State.phase # "RELEASED"
      /\ Ssh!State.root => Ssh!Acq \in imported
      /\ proc.acq = Ssh!Acq /\ proc.state = Ssh!State
  BY <1>1 DEF SshInv, SshTyped, Ssh!State, Ssh!Acq, ProcessIsRight, Ssh!At, Working
<1>4. CASE proc' = [proc EXCEPT !.pc = "poll"] /\ journal' = journal
  <2> DEFINE p == [proc EXCEPT !.pc = "poll"]
  <2>1. /\ p \in [pc : SshPcs, acq : 0..SshCalls, state : SshStates, identity : BOOLEAN,
                  error : BOOLEAN]
        /\ p.acq = Ssh!Acq /\ p.state = Ssh!State /\ p.pc = "poll" /\ proc' = p
    BY <1>3, <1>4 DEF SshInv, SshTyped, SshPcs, Working
  <2> HIDE DEF p
  <2>2. "poll" \in Working
    BY DEF Working
  <2> QED BY <1>1, <1>3, <1>4, <2>1, <2>2, WorkInvariant DEF SshInv, ProcessIsRight, Ssh!At,
      Working
<1>5. ASSUME NEW phase \in {"ACQUIRED", "FINALIZED"}, NEW at \in {"finalize", "import"},
             Ssh!Enter([Ssh!State EXCEPT !.phase = phase], at)
      PROVE  SshInv'
  <2> DEFINE state == [Ssh!State EXCEPT !.phase = phase]
  <2>1. /\ state \in SshStates /\ state.phase = phase /\ state.root = Ssh!State.root
    BY <1>3 DEF SshStates, Ssh!Phases
  <2> HIDE DEF state
  <2>2. at \in Working
    BY DEF Working
  <2>3. Ssh!State.root => Ssh!Acq \in imported
    BY <1>1 DEF SshInv, ProcessIsRight, Ssh!At, Working
  <2> QED BY <1>1, <1>5, <2>1, <2>2, <2>3, EnterInvariant DEF state
<1> QED BY <1>2, <1>4, <1>5 DEF Ssh!ResumeStatus, Ssh!Poll, Ssh!Finalize

LEMMA SshImportInvariant == ASSUME SshInv, Ssh!Import PROVE SshInv'
<1>1. /\ proc.pc \in Working /\ UNCHANGED <<index, calls, captured, prepared, held>>
  BY DEF Ssh!Import, Ssh!Outside, Ssh!At, Working
<1>2. CASE Ssh!Fails /\ imported' = imported
  BY <1>1, <1>2, FailsInvariant
<1>3. CASE /\ imported' = imported \cup {Ssh!Acq}
           /\ Ssh!Enter([Ssh!State EXCEPT !.phase = "IMPORTED", !.root = TRUE], "release")
  <2> DEFINE state == [Ssh!State EXCEPT !.phase = "IMPORTED", !.root = TRUE]
  <2>1. state \in SshStates /\ state.phase = "IMPORTED" /\ state.root
    BY DEF SshInv, SshTyped, Ssh!State, SshStates, Ssh!Phases
  <2> HIDE DEF state
  <2>2. "release" \in Working
    BY DEF Working
  <2> QED BY <1>1, <1>3, <2>1, <2>2, EnterInvariant DEF state
<1> QED BY <1>2, <1>3 DEF Ssh!Import

LEMMA ReleaseInvariant == ASSUME SshInv, Ssh!Release PROVE SshInv'
<1>1. /\ proc.pc \in Working /\ UNCHANGED <<index, calls, captured, prepared, imported>>
  BY DEF Ssh!Release, Ssh!Outside, Ssh!At, Working
<1>2. /\ Ssh!State \in SshStates /\ Ssh!State.phase # "RELEASED"
         /\ (Ssh!State.root => Ssh!Acq \in imported)
      /\ (~proc.error => Ssh!State.root)
  BY <1>1 DEF Ssh!Release, SshInv, SshTyped, Ssh!State, ProcessIsRight, Ssh!At, Working
<1>3. CASE /\ journal' = journal
           /\ held' = held \/ held' = held \ {Ssh!Acq}
           /\ proc' = [proc EXCEPT !.pc = "failed", !.error = TRUE]
  <2> DEFINE p == [proc EXCEPT !.pc = "failed", !.error = TRUE]
  <2>1. /\ p \in [pc : SshPcs, acq : 0..SshCalls, state : SshStates, identity : BOOLEAN,
                  error : BOOLEAN]
        /\ p.acq = Ssh!Acq /\ p.state = Ssh!State /\ p.pc = "failed" /\ proc' = p
    BY <1>3 DEF SshInv, SshTyped, SshPcs, Ssh!Acq, Ssh!State
  <2> HIDE DEF p
  <2> QED BY <1>1, <1>2, <1>3, <2>1, WorkInvariant DEF Working
<1>4. CASE LET state == [Ssh!State EXCEPT !.phase = "RELEASED"]
           IN /\ held' = held \ {Ssh!Acq} /\ Ssh!Emit(state)
              /\ proc' = Ssh!Released([proc EXCEPT !.state = state])
  <2> DEFINE state == [Ssh!State EXCEPT !.phase = "RELEASED"]
             q == [proc EXCEPT !.state = state]
             p == Ssh!Released(q)
  <2>1. state \in SshStates /\ state.phase = "RELEASED" /\ state.root = Ssh!State.root
    BY <1>2 DEF SshStates, Ssh!Phases
  <2> HIDE DEF state
  <2>2. /\ q \in [pc : SshPcs, acq : 0..SshCalls, state : SshStates, identity : BOOLEAN,
                  error : BOOLEAN]
        /\ q.acq = Ssh!Acq /\ q.state = state /\ q.error = proc.error
    BY <2>1 DEF SshInv, SshTyped, Ssh!Acq
  <2> HIDE DEF q
  <2>3. /\ p \in [pc : SshPcs, acq : 0..SshCalls, state : SshStates, identity : BOOLEAN,
                  error : BOOLEAN]
        /\ p.acq = Ssh!Acq /\ p.state = state
           /\ p.pc = IF q.error THEN "failed" ELSE "capture"
    BY <2>2 DEF Ssh!Released, SshPcs, Leaving
  <2>4. proc' = p /\ journal' = [journal EXCEPT ![Ssh!Acq] = state]
        /\ held' = held \ {Ssh!Acq}
    BY <1>4 DEF Ssh!Emit, state, q
  <2> HIDE DEF p
  <2>5. p.pc \notin Working /\ p.pc \in {"failed", "capture"}
        /\ (p.pc = "capture" => p.state.root)
    BY <1>2, <2>1, <2>2, <2>3 DEF Working
  <2> QED BY <1>1, <1>2, <2>1, <2>3, <2>4, <2>5, WorkInvariant
<1>5. CASE LET state == [Ssh!State EXCEPT !.phase = "RELEASED"]
           IN /\ held' = held \ {Ssh!Acq} /\ journal' = journal
              /\ proc' = [proc EXCEPT !.state = state, !.pc = "failed", !.error = TRUE]
  <2> DEFINE state == [Ssh!State EXCEPT !.phase = "RELEASED"]
             p == [proc EXCEPT !.state = state, !.pc = "failed", !.error = TRUE]
  <2>1. state \in SshStates /\ state.phase = "RELEASED" /\ state.root = Ssh!State.root
    BY <1>2 DEF SshStates, Ssh!Phases
  <2>2. proc' = p /\ held' = held \ {Ssh!Acq} /\ journal' = journal
    BY <1>5
  <2> HIDE DEF state
  <2>3. /\ p \in [pc : SshPcs, acq : 0..SshCalls, state : SshStates, identity : BOOLEAN,
                  error : BOOLEAN]
        /\ p.acq = Ssh!Acq /\ p.state = state /\ p.pc = "failed"
    BY <2>1 DEF SshInv, SshTyped, SshPcs, Ssh!Acq
  <2> HIDE DEF p
  <2> QED BY <1>1, <1>2, <2>1, <2>2, <2>3, WorkInvariant DEF Working
<1> QED BY <1>3, <1>4, <1>5 DEF Ssh!Release

\* Where nothing but the process, the index and the run directory changes.
LEMMA SshCloseInvariant ==
  ASSUME SshCalls \in Nat, SshInv, UNCHANGED <<journal, held, imported, calls>>,
         \/ Ssh!Forget \/ Ssh!Capture \/ Ssh!Prepare \/ Ssh!Unlink \/ Ssh!Crash
  PROVE  SshInv'
<1> USE DEF Ssh!At
<1>1. Ssh!Idle \in [pc : SshPcs, acq : 0..SshCalls, state : SshStates, identity : BOOLEAN,
                error : BOOLEAN] /\ Ssh!Idle.pc = "idle"
  BY DEF Ssh!Idle, Ssh!Initial, SshStates, Ssh!Phases, SshPcs
<1>2. JournalIsTrue'
  BY DEF SshInv, JournalIsTrue
<1>3. CASE Ssh!Forget
  <2>1. index' = index \/ (index' = 0 /\ held = {})
    BY <1>3 DEF Ssh!Forget, Ssh!Forgettable, SshInv, Ssh!SourceIsAccounted, ProcessIsRight
  <2> QED BY <1>1, <1>2, <1>3, <2>1
          DEF Ssh!Forget, SshInv, SshTyped, ProcessIsRight, Ssh!SourceIsAccounted
<1>4. CASE Ssh!Crash
  BY <1>1, <1>2, <1>4 DEF Ssh!Crash, SshInv, SshTyped, ProcessIsRight, Ssh!SourceIsAccounted
<1>5. CASE Ssh!Unlink
  <2>1. held = {}
    BY <1>5 DEF Ssh!Unlink, SshInv, SshTyped, JournalIsTrue, ProcessIsRight,
       Ssh!SourceIsAccounted, Leaving
  <2> QED BY <1>1, <1>2, <1>5, <2>1 DEF Ssh!Unlink, SshInv, SshTyped, ProcessIsRight,
      Ssh!SourceIsAccounted
<1>6. CASE Ssh!Capture
  <2>1. Ssh!Acq \in Ssh!Acquisitions
    BY <1>6 DEF Ssh!Capture, SshInv, ProcessIsRight
  <2>2. CASE Ssh!Acq \in captured
    BY <1>1, <1>2, <1>6, <2>2 DEF Ssh!Capture, SshInv, SshTyped, ProcessIsRight,
       Ssh!SourceIsAccounted
  <2>3. CASE Ssh!Acq \notin captured
    <3> DEFINE p == [proc EXCEPT !.pc = "prepare"]
    <3>1. /\ p \in [pc : SshPcs, acq : 0..SshCalls, state : SshStates, identity : BOOLEAN,
                    error : BOOLEAN]
          /\ p.acq = Ssh!Acq /\ p.state = Ssh!State /\ p.pc = "prepare"
      BY DEF SshInv, SshTyped, SshPcs, Leaving, Ssh!Acq, Ssh!State
    <3>2. proc' = p /\ captured' = captured \cup {Ssh!Acq}
          /\ UNCHANGED <<index, journal, held, imported, prepared>>
      BY <1>6, <2>3 DEF Ssh!Capture
    <3> HIDE DEF p
    <3>3. SshTyped' /\ Ssh!SourceIsAccounted'
      BY <2>1, <3>1, <3>2 DEF SshInv, SshTyped, Ssh!SourceIsAccounted
    <3>4. ProcessIsRight'
      BY <1>6, <3>1, <3>2 DEF Ssh!Capture, SshInv, ProcessIsRight, Leaving, Working, Ssh!Acq,
         Ssh!State
    <3> QED BY <1>2, <3>3, <3>4 DEF SshInv
  <2> QED BY <2>2, <2>3
<1>7. CASE Ssh!Prepare
  <2> DEFINE p == [proc EXCEPT !.pc = "unlink"]
  <2>1. /\ p \in [pc : SshPcs, acq : 0..SshCalls, state : SshStates, identity : BOOLEAN,
                  error : BOOLEAN]
        /\ p.acq = Ssh!Acq /\ p.state = Ssh!State /\ p.pc = "unlink"
    BY DEF SshInv, SshTyped, SshPcs, Leaving, Ssh!Acq, Ssh!State
  <2>2. proc' = p /\ prepared' = prepared \cup {Ssh!Acq}
        /\ UNCHANGED <<index, journal, held, imported, captured>>
    BY <1>7 DEF Ssh!Prepare
  <2> HIDE DEF p
  <2>3. /\ Ssh!Acq \in Ssh!Acquisitions /\ Ssh!Acq \in imported /\ Ssh!Acq \in captured
        /\ journal[Ssh!Acq].phase = "RELEASED" /\ Ssh!Acq \notin held
    BY <1>7 DEF Ssh!Prepare, SshInv, ProcessIsRight, JournalIsTrue, Leaving
  <2>4. SshTyped' /\ Ssh!SourceIsAccounted'
    BY <2>1, <2>2, <2>3 DEF SshInv, SshTyped, Ssh!SourceIsAccounted
  <2>5. ProcessIsRight'
    BY <1>7, <2>1, <2>2 DEF Ssh!Prepare, SshInv, ProcessIsRight, Leaving, Working, Ssh!Acq,
       Ssh!State
  <2> QED BY <1>2, <2>4, <2>5 DEF SshInv
<1> QED BY <1>3, <1>4, <1>5, <1>6, <1>7

LEMMA SshStepInvariant == ASSUME SshCalls \in Nat, SshInv, [Ssh!Next]_(Ssh!vars) PROVE SshInv'
<1>1. CASE Ssh!Forget \/ Ssh!Capture \/ Ssh!Prepare \/ Ssh!Unlink \/ Ssh!Crash
  BY <1>1, SshCloseInvariant DEF Ssh!Forget, Ssh!Capture, Ssh!Prepare, Ssh!Unlink, Ssh!Crash
<1>2. CASE UNCHANGED Ssh!vars
  BY <1>2 DEF Ssh!vars, SshInv, SshTyped, JournalIsTrue, ProcessIsRight,
     Ssh!SourceIsAccounted, Ssh!At, Ssh!Acq,
              Ssh!State
<1> QED BY <1>1, <1>2, SshBeginInvariant, AcquireInvariant, PollInvariant, SshImportInvariant,
           ReleaseInvariant DEF Ssh!Next

(***************************************************************************)
(* The helper never holds a source that the index does not name, and a run *)
(* that has its journal comes from an imported and captured snapshot whose *)
(* source was let go, wherever processes die, throw or miss an answer and  *)
(* however often the configuration is run again (execute, prepareNewRun).  *)
(***************************************************************************)
THEOREM AccountedSource == Ssh!Spec => []Ssh!SourceIsAccounted
<1>1. Ssh!Init => SshInv BY SshInitInvariant, SshAssumption
<1>2. SshInv /\ [Ssh!Next]_(Ssh!vars) => SshInv' BY SshStepInvariant, SshAssumption
<1>3. SshInv => Ssh!SourceIsAccounted BY DEF SshInv
<1> QED BY <1>1, <1>2, <1>3, PTL DEF Ssh!Spec

-----------------------------------------------------------------------------
(***************************************************************************)
(* The runtime broker is asked for authorised plans only, for any plans,   *)
(* callers, attempts and times.                                            *)
(*                                                                         *)
(* Two facts carry the interleavings.  A record of the journal may be      *)
(* revoked but never forgets its plan, so what a dispatch read is still    *)
(* there when it probes; and the nonce of every recorded plan leads back   *)
(* to its id, so a nonce has one plan however the lookups overlapped.      *)
(***************************************************************************)

Records == [state : {"admitted", "revoked"}, payload : Payloads]
Durable == Records \cup {Control!NoRecord}
Times == [now : Nat, fence : Nat]

CallTypes ==
    {Control!NoCall} \cup [op : {"admit"}, at : {"nonce", "id", "append"}, payload : Payloads]
    \cup [op : {"dispatch"}, envelope : [payload : Payloads, covers : Payloads],
          admission : Payloads, authority : Times, durable : Durable]
    \cup [op : {"reconcile"}, expected : Payloads, at : Nat, durable : Durable]

ControlTyped ==
    /\ now \in Nat
    /\ fence \in Nat
    /\ signed \subseteq Payloads
    /\ admitted \subseteq Payloads
    /\ records \in [Control!Ids -> Durable]
    /\ nonces \in [Control!Nonces -> Control!Ids \cup {"none"}]
    /\ call \in [Callers -> CallTypes]
    /\ probes \subseteq [payload : Payloads, at : Times, revoked : BOOLEAN]

ControlRecorded(i) == records[i].state # "none"

\* The journal holds the plan under its id, and its nonce leads to it.
JournalAgrees ==
    \A i \in Control!Ids : ControlRecorded(i) =>
        records[i].payload.id = i /\ nonces[records[i].payload.nonce] = i

\* What a dispatch has read still is the plan of the id; what it was handed was signed.
ReadAgrees(c) ==
    /\ call[c].envelope.covers \in signed
    /\ call[c].durable.state # "none" =>
         /\ ControlRecorded(call[c].envelope.payload.id)
         /\ records[call[c].envelope.payload.id].payload = call[c].durable.payload

DispatchAgrees == \A c \in Callers : call[c].op = "dispatch" => ReadAgrees(c)

ProbesAgree ==
    \A x \in probes :
        /\ x.payload \in signed /\ ControlRecorded(x.payload.id)
        /\ records[x.payload.id].payload = x.payload
        /\ Control!Within(x.payload, x.at) /\ Control!Strict(x.payload) /\ ~x.revoked

ControlInv == ControlTyped /\ JournalAgrees /\ DispatchAgrees /\ ProbesAgree

LEMMA ControlInitInvariant == ASSUME Control!Init PROVE ControlInv
<1>1. ControlTyped
  BY DEF Control!Init, ControlTyped, CallTypes, Durable
<1> QED BY <1>1 DEF Control!Init, ControlInv, JournalAgrees, DispatchAgrees, ReadAgrees,
    ProbesAgree, ControlRecorded,
                    Control!NoRecord, Control!NoCall

\* No step makes the journal forget a plan.
RecordsStay ==
    \A i \in Control!Ids : ControlRecorded(i) => ControlRecorded(i)'
    /\ records'[i].payload = records[i].payload

LEMMA RevokedStays ==
  ASSUME ControlTyped, NEW i \in Control!Ids, records' = Control!Revoked(i), UNCHANGED nonces,
         JournalAgrees
  PROVE  records' \in [Control!Ids -> Durable] /\ RecordsStay /\ JournalAgrees'
<1>1. \A r \in Records :
        /\ [r EXCEPT !.state = "revoked"] \in Records
        /\ [r EXCEPT !.state = "revoked"].state = "revoked"
        /\ [r EXCEPT !.state = "revoked"].payload = r.payload
  BY DEF Records
<1>2. records' = [records EXCEPT ![i] =
                    IF records[i] = Control!NoRecord THEN Control!NoRecord
                    ELSE [records[i] EXCEPT !.state = "revoked"]]
  BY DEF Control!Revoked, ControlTyped
<1>3. records' \in [Control!Ids -> Durable]
  BY <1>1, <1>2 DEF ControlTyped, Durable
<1>4. \A j \in Control!Ids : j # i => records'[j] = records[j]
  BY <1>2 DEF ControlTyped
<1>5. CASE records[i] = Control!NoRecord
  BY <1>2, <1>3, <1>4, <1>5 DEF ControlTyped, RecordsStay, JournalAgrees, ControlRecorded
<1>6. CASE records[i] # Control!NoRecord
  <2>1. records[i] \in Records /\ records'[i] = [records[i] EXCEPT !.state = "revoked"]
    BY <1>2, <1>6 DEF ControlTyped, Durable
  <2>2. records'[i].state = "revoked" /\ records'[i].payload = records[i].payload
        /\ ControlRecorded(i)
    BY <1>1, <2>1 DEF Records, ControlRecorded
  <2> QED BY <1>3, <1>4, <2>2 DEF RecordsStay, JournalAgrees, ControlRecorded
<1> QED BY <1>5, <1>6

\* When the journal forgets nothing, dispatches and probes keep what they agreed on.
LEMMA OthersAgree ==
  ASSUME ControlInv, RecordsStay, signed \subseteq signed', UNCHANGED probes,
         \A c \in Callers : call'[c].op = "dispatch" => call'[c] = call[c]
  PROVE  DispatchAgrees' /\ ProbesAgree'
<1>1. \A p \in Payloads : p.id \in Control!Ids
  BY DEF Control!Ids
<1>2. DispatchAgrees'
  <2> SUFFICES ASSUME NEW c \in Callers, call'[c].op = "dispatch" PROVE ReadAgrees(c)'
    BY DEF DispatchAgrees
  <2>1. call'[c] = call[c] /\ call[c].op = "dispatch"
    OBVIOUS
  <2>2. call[c].envelope.payload \in Payloads
    BY <2>1 DEF ControlInv, ControlTyped, CallTypes, Control!NoCall
  <2>3. ReadAgrees(c)
    BY <2>1 DEF ControlInv, DispatchAgrees
  <2> QED BY <1>1, <2>1, <2>2, <2>3 DEF ReadAgrees, RecordsStay, ControlRecorded
<1>3. ProbesAgree'
  BY <1>1 DEF ControlInv, ControlTyped, ProbesAgree, RecordsStay, ControlRecorded
<1> QED BY <1>2, <1>3

\* A step that leaves the journal alone.
LEMMA ControlQuietInvariant ==
  ASSUME ControlInv, UNCHANGED <<records, nonces, admitted, probes>>, now' \in Nat,
         fence' \in Nat,
         signed \subseteq signed', signed' \subseteq Payloads,
         call' \in [Callers -> CallTypes],
         \A c \in Callers : call'[c].op = "dispatch" => call'[c] = call[c]
  PROVE  ControlInv'
<1>1. RecordsStay
  BY DEF RecordsStay, ControlRecorded
<1>2. DispatchAgrees' /\ ProbesAgree'
  BY <1>1, OthersAgree
<1> QED BY <1>2 DEF ControlInv, ControlTyped, JournalAgrees, ControlRecorded

LEMMA AppendInvariant ==
  ASSUME IdsAreNames, ControlInv, NEW c \in Callers, Control!Append(c) PROVE ControlInv'
<1> DEFINE p == call[c].payload
<1>1. p \in Payloads /\ p.id \in Control!Ids /\ p.nonce \in Control!Nonces
  BY DEF Control!Append, ControlInv, ControlTyped, CallTypes, Control!NoCall, Control!Ids,
     Control!Nonces
<1>2. call' = [call EXCEPT ![c] = Control!NoCall]
      /\ UNCHANGED <<now, fence, signed, probes, calls>>
  BY DEF Control!Append, Control!Return, Control!World
<1>3. /\ call' \in [Callers -> CallTypes]
      /\ \A d \in Callers : call'[d].op = "dispatch" => call'[d] = call[d]
  BY <1>2 DEF ControlInv, ControlTyped, CallTypes, Control!NoCall
<1>4. CASE Control!Duplicate(p)
  BY <1>2, <1>3, <1>4, ControlQuietInvariant DEF Control!Append, Control!Journal, ControlInv,
     ControlTyped
<1>5. CASE ~Control!Duplicate(p)
  <2>1. /\ records[p.id] = Control!NoRecord /\ nonces[p.nonce] = "none"
        /\ records' = [records EXCEPT ![p.id] = Control!Admission(p)]
        /\ nonces' = [nonces EXCEPT ![p.nonce] = p.id]
        /\ admitted' = admitted \cup {p}
    BY <1>5 DEF Control!Append, Control!Duplicate
  <2>2. Control!Admission(p) \in Records /\ Control!Admission(p).state = "admitted"
        /\ Control!Admission(p).payload = p
    BY <1>1 DEF Control!Admission, Records
  <2>3. /\ records'[p.id] = Control!Admission(p) /\ nonces'[p.nonce] = p.id
        /\ \A i \in Control!Ids : i # p.id => records'[i] = records[i]
        /\ \A n \in Control!Nonces : n # p.nonce => nonces'[n] = nonces[n]
    BY <1>1, <2>1 DEF ControlInv, ControlTyped
  <2>4. ControlTyped'
    BY <1>1, <1>2, <1>3, <2>1, <2>2 DEF ControlInv, ControlTyped, Durable
  <2>5. RecordsStay
    BY <2>1, <2>3 DEF RecordsStay, ControlRecorded, Control!NoRecord
  <2>6. JournalAgrees'
    <3> SUFFICES ASSUME NEW i \in Control!Ids, ControlRecorded(i)'
                 PROVE  records'[i].payload.id = i /\ nonces'[records'[i].payload.nonce] = i
      BY DEF JournalAgrees, ControlRecorded
    <3>1. CASE i = p.id
      BY <2>2, <2>3, <3>1
    <3>2. CASE i # p.id
      <4>1. records'[i] = records[i] /\ ControlRecorded(i)
        BY <2>3, <3>2 DEF ControlRecorded
      <4>2. records[i].payload.id = i /\ nonces[records[i].payload.nonce] = i
        BY <4>1 DEF ControlInv, JournalAgrees
      <4>3. records[i].payload \in Payloads
        BY <4>1 DEF ControlInv, ControlTyped, Durable, Records, ControlRecorded,
           Control!NoRecord
      <4>4. records[i].payload.nonce \in Control!Nonces /\ records[i].payload.nonce # p.nonce
        BY <2>1, <4>2, <4>3 DEF Control!Nonces, IdsAreNames
      <4> QED BY <2>3, <4>1, <4>2, <4>4
    <3> QED BY <3>1, <3>2
  <2> QED BY <1>2, <1>3, <2>4, <2>5, <2>6, OthersAgree DEF ControlInv
<1> QED BY <1>4, <1>5

LEMMA DispatchInvariant == ASSUME ControlInv, NEW c \in Callers,
Control!Dispatch(c) PROVE ControlInv'
<1>1. PICK e \in Control!Envelopes, a \in admitted :
        call' = [call EXCEPT ![c] =
            [op |-> "dispatch", envelope |-> e, admission |-> a,
            authority |-> Control!Authority,
             durable |-> records[e.payload.id]]]
  BY DEF Control!Dispatch
<1> DEFINE new == [op |-> "dispatch", envelope |-> e, admission |-> a,
                   authority |-> Control!Authority, durable |-> records[e.payload.id]]
<1>2. e.payload \in Payloads /\ e.covers \in signed /\ e.covers \in Payloads
      /\ e.payload.id \in Control!Ids /\ a \in Payloads
      /\ e \in [payload : Payloads, covers : Payloads]
  BY DEF Control!Envelopes, ControlInv, ControlTyped, Control!Ids
<1>3. new \in [op : {"dispatch"}, envelope : [payload : Payloads, covers : Payloads],
               admission : Payloads, authority : Times, durable : Durable]
  BY <1>2 DEF ControlInv, ControlTyped, Control!Authority, Times
<1>4. /\ new.op = "dispatch" /\ new.envelope = e /\ new.durable = records[e.payload.id]
      /\ call' = [call EXCEPT ![c] = new]
  BY <1>1
<1> HIDE DEF new
<1>5. call' \in [Callers -> CallTypes] /\ call'[c] = new
      /\ \A d \in Callers \ {c} : call'[d] = call[d]
  BY <1>3, <1>4 DEF ControlInv, ControlTyped, CallTypes
<1>6. UNCHANGED <<now, fence, signed, records, nonces, admitted, probes>>
  BY DEF Control!Dispatch, Control!World, Control!Journal
<1>7. ASSUME NEW d \in Callers, call'[d].op = "dispatch" PROVE ReadAgrees(d)'
  <2>1. CASE d = c
    BY <1>2, <1>4, <1>5, <1>6, <2>1 DEF ReadAgrees, ControlRecorded
  <2>2. CASE d # c
    BY <1>5, <1>6, <1>7, <2>2 DEF ControlInv, DispatchAgrees, ReadAgrees, ControlRecorded
  <2> QED BY <2>1, <2>2
<1>8. DispatchAgrees'
  BY <1>7 DEF DispatchAgrees
<1> QED BY <1>5, <1>6, <1>8 DEF ControlInv, ControlTyped, JournalAgrees, ProbesAgree,
    ControlRecorded

LEMMA ProbeInvariant == ASSUME ControlInv, NEW c \in Callers,
Control!Probe(c) PROVE ControlInv'
<1> DEFINE d == call[c]
           x == [payload |-> d.envelope.payload, at |-> d.authority,
                 revoked |-> d.durable.state = "revoked"]
<1>1. /\ call' = [call EXCEPT ![c] = Control!NoCall]
      /\ UNCHANGED <<now, fence, signed, records, nonces, admitted>>
  BY DEF Control!Probe, Control!Return, Control!World, Control!Journal
<1>2. /\ call' \in [Callers -> CallTypes]
      /\ \A e \in Callers : call'[e].op = "dispatch" => call'[e] = call[e]
  BY <1>1 DEF ControlInv, ControlTyped, CallTypes, Control!NoCall
<1>3. CASE ~(Control!Verified(d.envelope, d.authority) /\ Control!Exact(d))
  <2>1. probes' = probes BY <1>3 DEF Control!Probe
  <2> QED BY <1>1, <1>2, <2>1, ControlQuietInvariant DEF ControlInv, ControlTyped
<1>4. CASE Control!Verified(d.envelope, d.authority) /\ Control!Exact(d)
  <2>1. probes' = probes \cup {x}
    BY <1>4 DEF Control!Probe
  <2>2. d \in [op : {"dispatch"}, envelope : [payload : Payloads, covers : Payloads],
               admission : Payloads, authority : Times, durable : Durable]
    BY DEF Control!Probe, ControlInv, ControlTyped, CallTypes, Control!NoCall
  <2>3. /\ d.envelope.payload \in Payloads /\ d.envelope.covers = d.envelope.payload
        /\ d.durable.state = "admitted" /\ d.durable.payload = d.envelope.payload
        /\ Control!Strict(d.envelope.payload)
           /\ Control!Within(d.envelope.payload, d.authority)
    BY <1>4, <2>2 DEF Control!Verified, Control!Exact, Control!Admission
  <2>4. /\ d.envelope.payload \in signed /\ ControlRecorded(d.envelope.payload.id)
        /\ records[d.envelope.payload.id].payload = d.envelope.payload
    BY <2>3 DEF Control!Probe, ControlInv, DispatchAgrees, ReadAgrees
  <2>5. /\ x \in [payload : Payloads, at : Times, revoked : BOOLEAN]
        /\ x.payload = d.envelope.payload /\ x.at = d.authority /\ x.revoked = FALSE
    BY <2>2, <2>3
  <2> HIDE DEF x, d
  <2>6. ControlTyped'
    BY <1>1, <1>2, <2>1, <2>5 DEF ControlInv, ControlTyped
  <2>7. ProbesAgree'
    BY <1>1, <2>1, <2>3, <2>4, <2>5 DEF ControlInv, ProbesAgree, ControlRecorded
  <2>8. DispatchAgrees'
    BY <1>1, <1>2 DEF ControlInv, DispatchAgrees, ReadAgrees, ControlRecorded
  <2> QED BY <1>1, <2>6, <2>7, <2>8 DEF ControlInv, JournalAgrees, ControlRecorded
<1> QED BY <1>3, <1>4

LEMMA ControlRevokeInvariant ==
  ASSUME ControlInv, NEW i \in Control!Ids, records' = Control!Revoked(i),
         UNCHANGED <<now, fence, signed, nonces, admitted, probes>>,
         call' \in [Callers -> CallTypes],
         \A c \in Callers : call'[c].op = "dispatch" => call'[c] = call[c]
  PROVE  ControlInv'
<1>1. records' \in [Control!Ids -> Durable] /\ RecordsStay /\ JournalAgrees'
  BY RevokedStays DEF ControlInv
<1>2. DispatchAgrees' /\ ProbesAgree'
  BY <1>1, OthersAgree
<1> QED BY <1>1, <1>2 DEF ControlInv, ControlTyped

LEMMA ControlStepInvariant ==
  ASSUME IdsAreNames, ControlInv, [Control!Next]_(Control!vars) PROVE ControlInv'
<1>1. CASE Control!Tick
  BY <1>1, ControlQuietInvariant DEF Control!Tick, Control!Journal, ControlInv, ControlTyped
<1>2. CASE Control!NewAttempt
  BY <1>2, ControlQuietInvariant DEF Control!NewAttempt, Control!Journal, ControlInv,
     ControlTyped
<1>3. ASSUME NEW p \in Payloads, Control!Sign(p) PROVE ControlInv'
  BY <1>3, ControlQuietInvariant DEF Control!Sign, Control!Journal, ControlInv, ControlTyped
<1>4. ASSUME NEW c \in Callers, Control!Admit(c) PROVE ControlInv'
  <2>1. PICK e \in Control!Envelopes :
          call' = [call EXCEPT ![c] = [op |-> "admit", at |-> "nonce", payload |-> e.payload]]
    BY <1>4 DEF Control!Admit
  <2>2. e.payload \in Payloads
    BY DEF Control!Envelopes
  <2>3. /\ call' \in [Callers -> CallTypes]
        /\ \A d \in Callers : call'[d].op = "dispatch" => call'[d] = call[d]
    BY <2>1, <2>2 DEF ControlInv, ControlTyped, CallTypes
  <2> QED BY <1>4, <2>3, ControlQuietInvariant DEF Control!Admit, Control!World,
      Control!Journal, ControlInv, ControlTyped
<1>5. ASSUME NEW c \in Callers, Control!Look(c) PROVE ControlInv'
  <2>1. /\ call[c] \in [op : {"admit"}, at : {"nonce", "id", "append"}, payload : Payloads]
        /\ call' = [call EXCEPT ![c].at = "id"] \/ call' = [call EXCEPT ![c].at = "append"]
             \/ call' = [call EXCEPT ![c] = Control!NoCall]
    BY <1>5 DEF Control!Look, Control!Return, ControlInv, ControlTyped, CallTypes,
       Control!NoCall
  <2>2. \A at \in {"id", "append"} :
          /\ [call[c] EXCEPT !.at = at]
                \in [op : {"admit"}, at : {"nonce", "id", "append"}, payload : Payloads]
          /\ [call[c] EXCEPT !.at = at].op = "admit"
    BY <2>1
  <2>3. PICK new \in CallTypes : new.op # "dispatch" /\ call' = [call EXCEPT ![c] = new]
    BY <2>1, <2>2 DEF CallTypes, Control!NoCall
  <2>4. /\ call' \in [Callers -> CallTypes]
        /\ \A d \in Callers : call'[d].op = "dispatch" => call'[d] = call[d]
    BY <2>3 DEF ControlInv, ControlTyped
  <2> QED BY <1>5, <2>4, ControlQuietInvariant DEF Control!Look, Control!World,
      Control!Journal, ControlInv, ControlTyped
<1>6. ASSUME NEW c \in Callers, Control!Append(c) PROVE ControlInv'
  BY <1>6, AppendInvariant
<1>7. ASSUME NEW c \in Callers, Control!Dispatch(c) PROVE ControlInv'
  BY <1>7, DispatchInvariant
<1>8. ASSUME NEW c \in Callers, Control!Probe(c) PROVE ControlInv'
  BY <1>8, ProbeInvariant
<1>9. ASSUME NEW c \in Callers, Control!Reconcile(c) PROVE ControlInv'
  <2>1. PICK p \in Payloads :
          call' = [call EXCEPT ![c] = [op |-> "reconcile", expected |-> p, at |-> now,
                                       durable |-> records[p.id]]]
    BY <1>9 DEF Control!Reconcile
  <2>2. p.id \in Control!Ids
    BY DEF Control!Ids
  <2>3. /\ call' \in [Callers -> CallTypes]
        /\ \A d \in Callers : call'[d].op = "dispatch" => call'[d] = call[d]
    BY <2>1, <2>2 DEF ControlInv, ControlTyped, CallTypes
  <2> QED BY <1>9, <2>3, ControlQuietInvariant DEF Control!Reconcile, Control!World,
      Control!Journal, ControlInv, ControlTyped
<1>10. ASSUME NEW c \in Callers, Control!Reconciled(c) PROVE ControlInv'
  <2>1. call[c].expected.id \in Control!Ids
    BY <1>10 DEF Control!Reconciled, ControlInv, ControlTyped, CallTypes, Control!NoCall,
       Control!Ids
  <2>2. /\ call' \in [Callers -> CallTypes]
        /\ \A d \in Callers : call'[d].op = "dispatch" => call'[d] = call[d]
    BY <1>10 DEF Control!Reconciled, Control!Return, ControlInv, ControlTyped, CallTypes,
       Control!NoCall
  <2>3. records' = Control!Revoked(call[c].expected.id) \/ records' = records
    BY <1>10 DEF Control!Reconciled
  <2> QED BY <1>10, <2>1, <2>2, <2>3, ControlQuietInvariant, ControlRevokeInvariant
          DEF Control!Reconciled, Control!World, ControlInv, ControlTyped
<1>11. ASSUME NEW i \in Control!Ids, Control!Revoke(i) PROVE ControlInv'
  <2>1. records' = Control!Revoked(i)
        /\ UNCHANGED <<now, fence, signed, nonces, admitted, call, probes>>
    BY <1>11 DEF Control!Revoke, Control!World
  <2> QED BY <2>1, ControlRevokeInvariant DEF ControlInv, ControlTyped
<1>12. CASE UNCHANGED Control!vars
  BY <1>12, ControlQuietInvariant DEF Control!vars, ControlInv, ControlTyped
<1> QED BY <1>1, <1>2, <1>3, <1>4, <1>5, <1>6, <1>7, <1>8, <1>9, <1>10, <1>11, <1>12
    DEF Control!Next

LEMMA InvariantImpliesAuthorised == ASSUME ControlInv PROVE Control!ProbesAreAuthorised
<1> SUFFICES ASSUME NEW x \in probes, NEW y \in probes,
                    x.payload.nonce = y.payload.nonce
             PROVE  x.payload = y.payload
  BY DEF ControlInv, ProbesAgree, Control!ProbesAreAuthorised
<1>1. x.payload.id \in Control!Ids /\ y.payload.id \in Control!Ids
  BY DEF ControlInv, ControlTyped, Control!Ids
<1> QED BY <1>1 DEF ControlInv, ProbesAgree, JournalAgrees

(***************************************************************************)
(* What the broker is asked was signed, is the plan its id was admitted    *)
(* for, belonged to the attempt and time of its dispatch and was not       *)
(* revoked when that began, and no nonce is spent on two plans: however    *)
(* admissions, dispatches, revocations and reconciliations of any number   *)
(* of callers overtake each other (packages/runtime).                      *)
(***************************************************************************)
THEOREM AuthorisedProbes == Control!Spec => []Control!ProbesAreAuthorised
<1>1. Control!Init => ControlInv BY ControlInitInvariant
<1>2. ControlInv /\ [Control!Next]_(Control!vars) => ControlInv' BY ControlStepInvariant,
      ControlAssumption
<1>3. ControlInv => Control!ProbesAreAuthorised BY InvariantImpliesAuthorised
<1> QED BY <1>1, <1>2, <1>3, PTL DEF Control!Spec

\* The journal of control plans, what was signed and the calls keep their types.
THEOREM ControlTypes == Control!Spec => []Control!TypeOK
<1>1. Control!Init => ControlInv BY ControlInitInvariant
<1>2. ControlInv /\ [Control!Next]_(Control!vars) => ControlInv' BY ControlStepInvariant,
      ControlAssumption
<1>3. ControlInv => Control!TypeOK
  <2> SUFFICES ASSUME ControlInv PROVE Control!TypeOK OBVIOUS
  <2>1. /\ signed \subseteq Payloads /\ DOMAIN records = Control!Ids
        /\ nonces \in [Control!Nonces -> Control!Ids \cup {"none"}]
    BY DEF ControlInv, ControlTyped
  <2>2. ASSUME NEW i \in Control!Ids, records[i] # Control!NoRecord
        PROVE  records[i].payload.id = i
    <3>1. records[i] \in Records BY <2>2 DEF ControlInv, ControlTyped, Durable
    <3>2. ControlRecorded(i) BY <3>1 DEF Records, ControlRecorded
    <3> QED BY <3>2 DEF ControlInv, JournalAgrees
  <2>3. ASSUME NEW c \in Callers
        PROVE  call[c].op \in {"none", "admit", "dispatch", "reconcile"}
    BY DEF ControlInv, ControlTyped, CallTypes, Control!NoCall
  <2> QED BY <2>1, <2>2, <2>3 DEF Control!TypeOK
<1> QED BY <1>1, <1>2, <1>3, PTL DEF Control!Spec
=============================================================================
