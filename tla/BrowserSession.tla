--------------------------- MODULE BrowserSession ---------------------------
(***************************************************************************)
(* The browser of one research session: PlaywrightBrowserSession, and the  *)
(* Node process it drives over a pipe.  Python waits for one line after    *)
(* each line it writes, or gives up; Node begins to handle every line it   *)
(* is sent, and answers in the order it gets done.  The worker creates the *)
(* session without starting it, and closes it: start is called by the      *)
(* tests (tests/unit/test_browser_worker.py).                              *)
(***************************************************************************)
EXTENDS Naturals, Sequences

CONSTANTS MaxLaunches,        \* bound on processes launched
          MaxBrowserCalls,    \* bound on requests with an id
          MaxBrowserFaults,   \* bound on calls given up and processes that die
          MaxPageEvents       \* bound on denials and downloads

ASSUME BrowserAssumption ==
  /\ MaxLaunches \in Nat /\ MaxBrowserCalls \in Nat
  /\ MaxBrowserFaults \in Nat /\ MaxPageEvents \in Nat

VARIABLES
  driver,        \* _WorkerState: process, whether a posture is held, next_id, and the call under way
  chrome,        \* the processes launched: what each handles, has written and has still to report
  recorded,      \* denials and downloads drained so far
  browserFaults, pageEvents

browserVars == <<driver, chrome, recorded, browserFaults, pageEvents>>

Launched == 1..Len(chrome)

Idle == [kind |-> "none", id |-> 0]

(* guarded: the context's route guard and download hooks exist.  happened  *)
(* is what they have noted, waiting what no answer carried yet.            *)
NewProcess == [up |-> TRUE, proven |-> FALSE, guarded |-> FALSE, handles |-> {}, out |-> <<>>,
               happened |-> {}, waiting |-> {}, givenUp |-> FALSE]

BrowserInit ==
  /\ driver = [process |-> 0, posture |-> FALSE, next |-> 0, call |-> Idle]
  /\ chrome = <<>>
  /\ recorded = {}
  /\ browserFaults = 0 /\ pageEvents = 0

-----------------------------------------------------------------------------
(* The Python side.                                                        *)

Waiting(kind) == driver.call.kind = kind

(* A line reaches the process unless it is gone.                           *)
Send(p, kind, id) ==
  chrome' = [chrome EXCEPT ![p].handles = IF chrome[p].up THEN @ \cup {[kind |-> kind, id |-> id]} ELSE @]

(* _rpc with a new id on the current process.                              *)
Ask(kind) ==
  /\ driver.next < MaxBrowserCalls
  /\ driver' = [driver EXCEPT !.next = @ + 1, !.call = [kind |-> kind, id |-> driver.next + 1]]
  /\ Send(driver.process, kind, driver.next + 1)

(* start: a posture that is held is returned, even after aclose.  A        *)
(* process an earlier start failed on is replaced without being stopped.   *)
Launch ==
  /\ driver.call = Idle /\ ~driver.posture
  /\ Len(chrome) < MaxLaunches
  /\ chrome' = Append(chrome, [NewProcess EXCEPT !.handles = {[kind |-> "init", id |-> 0]}])
  /\ driver' = [driver EXCEPT !.process = Len(chrome) + 1, !.call = [kind |-> "init", id |-> 0]]
  /\ UNCHANGED <<recorded, browserFaults, pageEvents>>

HasProcess == driver.process # 0                         \* mutated form
PostureHeld == driver.posture /\ driver.process # 0

(* open, observe and interact; _validate_navigation_target, which open     *)
(* runs first, is modelled with the other fetches (WebFetch).              *)
Operate ==
  /\ driver.call = Idle /\ PostureHeld
  /\ Ask("op")
  /\ UNCHANGED <<recorded, browserFaults, pageEvents>>

(* The process is stopped and reaped; the posture stays.                   *)
Reap ==
  /\ chrome' = [chrome EXCEPT ![driver.process] = [@ EXCEPT !.up = FALSE, !.handles = {}]]
  /\ driver' = [driver EXCEPT !.process = 0, !.call = Idle]

(* aclose asks a process that still runs to close, and stops it anyway.    *)
Close ==
  /\ driver.call = Idle /\ driver.process # 0
  /\ IF chrome[driver.process].up THEN Ask("close") ELSE Reap
  /\ UNCHANGED <<recorded, browserFaults, pageEvents>>

EndCallWith(d) == driver' = [d EXCEPT !.call = Idle]

(* The next line, whatever request it answers.  start goes on to the       *)
(* startup check; what is not ok is raised.  aclose does not drain.        *)
Receive ==
  /\ driver.call # Idle
  /\ LET p == driver.process
         answer == Head(chrome[p].out)
         taken == [chrome EXCEPT ![p].out = Tail(@)]
     IN /\ chrome[p].out # <<>>
        /\ recorded' = IF Waiting("close") THEN recorded ELSE recorded \cup answer.events
        /\ CASE Waiting("init") /\ answer.ok ->
                  /\ driver.next < MaxBrowserCalls
                  /\ driver' = [driver EXCEPT !.next = @ + 1,
                                              !.call = [kind |-> "check", id |-> driver.next + 1]]
                  /\ chrome' = [taken EXCEPT ![p].handles =
                       IF chrome[p].up THEN @ \cup {[kind |-> "check", id |-> driver.next + 1]} ELSE @]
             [] Waiting("check") /\ answer.ok ->
                  EndCallWith([driver EXCEPT !.posture = TRUE]) /\ chrome' = taken
             [] Waiting("close") -> Reap
             [] OTHER -> EndCallWith(driver) /\ chrome' = taken
  /\ UNCHANGED <<browserFaults, pageEvents>>

(* fail_after: the call is given up, its answer is not.                    *)
GiveUp ==
  /\ driver.call # Idle
  /\ browserFaults < MaxBrowserFaults
  /\ browserFaults' = browserFaults + 1
  /\ IF Waiting("close") THEN Reap
     ELSE /\ EndCallWith(driver)
          /\ chrome' = [chrome EXCEPT ![driver.process].givenUp = TRUE]
  /\ UNCHANGED <<recorded, pageEvents>>

(* The pipe ends.                                                          *)
Break ==
  /\ driver.call # Idle
  /\ ~chrome[driver.process].up /\ chrome[driver.process].out = <<>>
  /\ IF Waiting("close") THEN Reap ELSE EndCallWith(driver) /\ UNCHANGED chrome
  /\ UNCHANGED <<recorded, browserFaults, pageEvents>>

-----------------------------------------------------------------------------
(* The Node side.                                                          *)

EventsLeft(p) == {}

(* writeMessage: every answer carries what has been noted since the last.  *)
Write(p, r, ok, process) ==
  chrome' = [chrome EXCEPT ![p] =
    [process EXCEPT !.handles = IF process.up THEN @ \ {r} ELSE {},
                    !.waiting = EventsLeft(p),
                    !.out = Append(@, [id |-> r.id, ok |-> ok, events |-> chrome[p].waiting])]]

(* init and startup_check: the launch or the proof of the sandbox may      *)
(* fail, and the process may exit on it.  An answer that is ok holds a     *)
(* posture that is proven, so start never closes on what it parses.        *)
AnswerStartup(p, r) ==
  /\ r.kind \in {"init", "check"}
  /\ \/ Write(p, r, TRUE, [chrome[p] EXCEPT !.proven = @ \/ r.kind = "check"])
     \/ \E up \in BOOLEAN : Write(p, r, FALSE, [chrome[p] EXCEPT !.up = up])

AnswerOperation(p, r) ==
  /\ r.kind = "op"
  /\ \E ok \in BOOLEAN : Write(p, r, ok, [chrome[p] EXCEPT !.guarded = TRUE])

(* The context and the browser are closed, the line is written, and the    *)
(* process exits with whatever else it was handling.                       *)
AnswerClose(p, r) ==
  /\ r.kind = "close"
  /\ Write(p, r, TRUE, [chrome[p] EXCEPT !.up = FALSE])

(* ensureContext, at the first operation.                                  *)
OpenContext(p) ==
  /\ chrome[p].up /\ ~chrome[p].guarded
  /\ \E r \in chrome[p].handles : r.kind = "op"
  /\ chrome' = [chrome EXCEPT ![p].guarded = TRUE]
  /\ UNCHANGED <<driver, recorded, browserFaults, pageEvents>>

(* routeGuard denies a request of the page, or captureDownload has one.    *)
Note(p) ==
  /\ chrome[p].up /\ chrome[p].guarded
  /\ pageEvents < MaxPageEvents
  /\ pageEvents' = pageEvents + 1
  /\ chrome' = [chrome EXCEPT ![p].happened = @ \cup {pageEvents + 1}, ![p].waiting = @ \cup {pageEvents + 1}]
  /\ UNCHANGED <<driver, recorded, browserFaults>>

Exit(p) ==
  /\ chrome[p].up
  /\ browserFaults < MaxBrowserFaults
  /\ browserFaults' = browserFaults + 1
  /\ chrome' = [chrome EXCEPT ![p] = [@ EXCEPT !.up = FALSE, !.handles = {}]]
  /\ UNCHANGED <<driver, recorded, pageEvents>>

NodeAnswers(p) ==
  /\ chrome[p].up
  /\ \E r \in chrome[p].handles : AnswerStartup(p, r) \/ AnswerOperation(p, r) \/ AnswerClose(p, r)
  /\ UNCHANGED <<driver, recorded, browserFaults, pageEvents>>

BrowserNext ==
  \/ Launch \/ Operate \/ Close \/ Receive \/ GiveUp \/ Break
  \/ \E p \in Launched : NodeAnswers(p) \/ OpenContext(p) \/ Note(p) \/ Exit(p)

BrowserSpec == BrowserInit /\ [][BrowserNext]_browserVars

-----------------------------------------------------------------------------
(* Properties.                                                             *)

(* No page is opened in a process that has not shown its sandbox           *)
(* (browser_worker.py: "a failed proof refuses the session instead of      *)
(* weakening it"), whatever failed, was given up or was started again.     *)
ProvenBeforeUse ==
  \A p \in Launched : (\E r \in chrome[p].handles : r.kind = "op") \/ chrome[p].guarded => chrome[p].proven

(* A process in which a page was opened is the one the session drives: the *)
(* session that is closed leaves none running, whatever start it was.      *)
UsedIsDriven == \A p \in Launched : chrome[p].up /\ chrome[p].guarded => p = driver.process

EventsOut(p) == UNION {chrome[p].out[i].events : i \in DOMAIN chrome[p].out}

(* A denial or a download of a process that runs is in one place: waiting  *)
(* for an answer to carry it, on the pipe, or recorded, and is never       *)
(* reported twice, whatever was given up in between (browser_worker.mjs:   *)
(* "so nothing is lost between ops").                                      *)
ReportedOnce ==
  \A p \in Launched :
    /\ chrome[p].waiting \cap (EventsOut(p) \cup recorded) = {}
    /\ EventsOut(p) \cap recorded = {}
    /\ \A i, j \in DOMAIN chrome[p].out : i # j => chrome[p].out[i].events \cap chrome[p].out[j].events = {}
    /\ chrome[p].up => chrome[p].happened = chrome[p].waiting \cup EventsOut(p) \cup (chrome[p].happened \cap recorded)

(* A call gets its own answer from a process on which no call was given    *)
(* up.  (On any other one every later call may get the answer to an        *)
(* earlier one: ids are not compared.)                                     *)
AnswersOwnRequest ==
  \A p \in Launched :
    p = driver.process /\ ~chrome[p].givenUp =>
      \A i \in DOMAIN chrome[p].out : driver.call # Idle /\ chrome[p].out[i].id = driver.call.id

Lines == [kind : {"init", "check", "op", "close"}, id : 0..MaxBrowserCalls]

BrowserTypeOK ==
  /\ driver \in [process : 0..Len(chrome), posture : BOOLEAN, next : 0..MaxBrowserCalls,
                 call : Lines \cup {Idle}]
  /\ chrome \in Seq([up : BOOLEAN, proven : BOOLEAN, guarded : BOOLEAN, handles : SUBSET Lines,
                     out : Seq([id : 0..MaxBrowserCalls, ok : BOOLEAN, events : SUBSET (1..pageEvents)]),
                     happened : SUBSET (1..pageEvents), waiting : SUBSET (1..pageEvents), givenUp : BOOLEAN])
  /\ recorded \subseteq 1..pageEvents
  /\ browserFaults \in 0..MaxBrowserFaults
  /\ pageEvents \in 0..MaxPageEvents

(* Together, with the types.                                               *)
BrowserSafe ==
  /\ BrowserTypeOK
  /\ ProvenBeforeUse
  /\ UsedIsDriven
  /\ ReportedOnce
  /\ AnswersOwnRequest
=============================================================================
