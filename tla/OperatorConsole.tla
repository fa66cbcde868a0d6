---------------------------- MODULE OperatorConsole ----------------------------
(***************************************************************************)
(* apps/web: browser tabs that read runs, change them under If-Match and   *)
(* follow their events, against the part of apps/server they talk to.      *)
(* Requests of a tab overlap, their answers come late, or never; the event *)
(* stream breaks and resumes; other tabs and the engine change the same    *)
(* run.  A tab learns the row of its run when it loads and from the answers*)
(* to what it saved, not from events.                                      *)
(***************************************************************************)
EXTENDS Naturals, Sequences, SequencesExt, FiniteSets

CONSTANTS
    Tabs,
    Shown,                      \* events a tab shows: the last 50
    MaxRuns, MaxChanges, MaxLoads   \* bounds: runs, changes of them all, loads of a tab

VARIABLES
    rows,     \* the runs on the server, oldest first: the row of each (its events: 0..row)
    token,    \* is the one-time bootstrap token unused?
    cookie,   \* does the browser hold the session's cookie?
    tabs,     \* the state of each tab
    answers,  \* answers on their way: [tab, load, kind, run, row]
    informed, \* history: was every accepted change made on what the tab had seen?
    crossed   \* tabs that took something of one run for another's

vars == <<rows, token, cookie, tabs, answers, informed, crossed>>

Runs == 1..Len(rows)
Changes == UNION {{r} \X (1..rows[r]) : r \in Runs}
Room == Cardinality(Changes) < MaxChanges

\* view: what the page shows of a run; seen: the row that is of; stream: run and last event id.
Blank ==
    [page |-> "closed", run |-> 0, row |-> 0, seen |-> 0, events |-> <<>>,
     stream |-> [run |-> 0, last |-> 0, open |-> FALSE], loads |-> 0, link |-> FALSE]

TypeOK ==
    /\ rows \in Seq(0..MaxChanges) /\ crossed \subseteq Tabs
    /\ \A t \in Tabs :
          /\ tabs[t].page \in {"closed", "session", "list", "detail", "live", "failed"}
          /\ tabs[t].run \in 0..Len(rows)

Init ==
    /\ rows = <<>> /\ token = TRUE /\ cookie = FALSE /\ tabs = [t \in Tabs |-> Blank]
    /\ answers = {} /\ informed = TRUE /\ crossed = {}

Show(t, page) == tabs' = [tabs EXCEPT ![t].page = page]

(***************************************************************************)
(* Loading: the token of the link is posted once, then the newest run is   *)
(* picked, then its detail is read.  What the page was before is gone.     *)
(***************************************************************************)
Open(t) ==
    /\ tabs[t].loads < MaxLoads
    /\ \E link \in BOOLEAN :
          tabs' = [tabs EXCEPT ![t] = [Blank EXCEPT !.page = "session", !.link = link,
                                                    !.loads = tabs[t].loads + 1]]
    /\ crossed' = crossed \ {t}
    /\ UNCHANGED <<rows, token, cookie, answers, informed>>

\* A token that was used before fails the page, although the cookie would do.
Bootstrap(t) ==
    /\ tabs[t].page = "session"
    /\ IF tabs[t].link
       THEN /\ token' = FALSE /\ cookie' = (cookie \/ token)
            /\ Show(t, IF token THEN "list" ELSE "failed")
       ELSE Show(t, IF cookie THEN "list" ELSE "failed") /\ UNCHANGED <<token, cookie>>
    /\ UNCHANGED <<rows, answers, informed, crossed>>

List(t) ==
    /\ tabs[t].page = "list"
    /\ tabs' = [tabs EXCEPT ![t].page = IF rows = <<>> THEN "live" ELSE "detail",
                            ![t].run = Len(rows)]
    /\ UNCHANGED <<rows, token, cookie, answers, informed, crossed>>

Detail(t) ==
    /\ tabs[t].page = "detail"
    /\ LET row == rows[tabs[t].run]
       IN  tabs' = [tabs EXCEPT ![t].page = "live", ![t].row = row, ![t].seen = row]
    /\ UNCHANGED <<rows, token, cookie, answers, informed, crossed>>

(***************************************************************************)
(* Changing: a request carries the row the page holds, and is accepted if  *)
(* that is the run's.  The handlers of a page that is left still run when  *)
(* the answer comes.                                                       *)
(***************************************************************************)
Live(t) == tabs[t].page = "live"
Answer(t, kind, run, row) == [tab |-> t, load |-> tabs[t].loads, kind |-> kind, run |-> run,
                              row |-> row]

\* An answer may be lost, and of an action's only the status is looked at.
Replied(a) == answers' \in {answers, answers \cup {a}}

CreateRun(t) ==
    /\ Live(t) /\ Len(rows) < MaxRuns /\ rows' = Append(rows, 0)
    /\ Replied(Answer(t, "created", Len(rows) + 1, 0))
    /\ UNCHANGED <<token, cookie, tabs, informed, crossed>>

\* Mutant: the request is accepted whatever row it carries.
MatchUnchecked(t) == TRUE

\* If-Match.
Match(t) == tabs[t].row = rows[tabs[t].run]

\* Inputs that are saved, and actions.
Change(t) ==
    /\ Live(t) /\ tabs[t].run # 0 /\ Room /\ Match(t)
    /\ rows' = [rows EXCEPT ![tabs[t].run] = @ + 1]
    /\ informed' = (informed /\ (t \in crossed \/ tabs[t].seen = rows[tabs[t].run]))
    /\ Replied(Answer(t, "saved", tabs[t].run, rows[tabs[t].run] + 1))
    /\ UNCHANGED <<token, cookie, tabs, crossed>>

\* The engine and the recovery of the server change a run as well.
Engine ==
    /\ Room /\ \E r \in Runs : rows' = [rows EXCEPT ![r] = @ + 1]
    /\ UNCHANGED <<token, cookie, tabs, answers, informed, crossed>>

\* onCreated puts the new run on the page; the effect changes the stream later.
Created(a) ==
    tabs' = [tabs EXCEPT ![a.tab].run = a.run, ![a.tab].row = 0, ![a.tab].seen = 0,
                         ![a.tab].events = <<>>]

\* onSaved sets the row of whatever run is on the page.
Saved(a) ==
    /\ tabs' = [tabs EXCEPT ![a.tab].row = a.row,
                            ![a.tab].seen = IF tabs[a.tab].run = a.run THEN a.row ELSE @]
    /\ crossed' = IF tabs[a.tab].run = a.run THEN crossed ELSE crossed \cup {a.tab}

Take(a) ==
    /\ a \in answers /\ answers' = answers \ {a}
    /\ IF ~Live(a.tab) \/ tabs[a.tab].loads # a.load THEN UNCHANGED <<tabs, crossed>>
       ELSE IF a.kind = "created" THEN Created(a) /\ UNCHANGED crossed ELSE Saved(a)
    /\ UNCHANGED <<rows, token, cookie, informed>>

(***************************************************************************)
(* Following: an effect opens a stream for the run on the page; the server *)
(* sends every event after the last one this stream delivered.             *)
(***************************************************************************)
Subscribe(t) ==
    /\ Live(t) /\ tabs[t].run # 0 /\ tabs[t].stream.run # tabs[t].run
    /\ tabs' = [tabs EXCEPT ![t].stream = [run |-> tabs[t].run, last |-> 0, open |-> TRUE]]
    /\ UNCHANGED <<rows, token, cookie, answers, informed, crossed>>

Break(t) ==
    /\ tabs[t].stream.open /\ tabs' = [tabs EXCEPT ![t].stream.open = FALSE]
    /\ UNCHANGED <<rows, token, cookie, answers, informed, crossed>>

\* Last-Event-ID: a stream resumes after what it delivered.
Resume(t) ==
    /\ Live(t) /\ tabs[t].stream.run # 0 /\ ~tabs[t].stream.open
    /\ tabs' = [tabs EXCEPT ![t].stream.open = TRUE]
    /\ UNCHANGED <<rows, token, cookie, answers, informed, crossed>>

Latest(s) == IF Len(s) > Shown THEN SubSeq(s, Len(s) - Shown + 1, Len(s)) ELSE s

Sorted(S) ==
    CHOOSE s \in [1..Cardinality(S) -> S] : \A i, j \in DOMAIN s : i < j => s[i] < s[j]

\* receive: one event for each number, in order, the last of them.
Received(events, e) ==
    Latest(Sorted(ToSet(events) \cup {e}))

Event(t) ==
    LET s == tabs[t].stream
        e == s.last + 1
    IN  /\ Live(t) /\ s.open /\ e <= rows[s.run] + 1
        /\ tabs' = [tabs EXCEPT ![t].stream.last = e, ![t].events = Received(@, e)]
        /\ crossed' = IF s.run = tabs[t].run THEN crossed ELSE crossed \cup {t}
        /\ UNCHANGED <<rows, token, cookie, answers, informed>>

Next ==
    \/ Engine \/ \E a \in answers : Take(a)
    \/ \E t \in Tabs : Open(t) \/ Bootstrap(t) \/ List(t) \/ Detail(t) \/ CreateRun(t) \/ Change(t)
                       \/ Subscribe(t) \/ Break(t) \/ Resume(t) \/ Event(t)

Spec == Init /\ [][Next]_vars

(***************************************************************************)
(* As long as nothing of another run got in: no tab changes a run it does  *)
(* not show as it is, and the events it shows are the last of those its    *)
(* stream delivered, without a gap.                                        *)
(***************************************************************************)
ConsoleIsInformed ==
    /\ informed
    /\ \A t \in Tabs \ crossed :
          LET n == Len(tabs[t].events)
              last == IF tabs[t].stream.run = tabs[t].run THEN tabs[t].stream.last ELSE 0
          IN  tabs[t].events = [i \in 1..n |-> last - n + i] /\ (n < Shown => n = last)
=============================================================================
