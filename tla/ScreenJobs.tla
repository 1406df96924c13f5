----------------------------- MODULE ScreenJobs -----------------------------
(***************************************************************************)
(* Background screen jobs: api/jobs.py (JobStore, JobRunner), the stages   *)
(* of core/service.py run_screen they drive, and the routes of api/app.py  *)
(* that start, cancel and read them.                                       *)
(*                                                                         *)
(* Two kinds of process share one SQLite table: the web app, whose runner  *)
(* gates its own screens with one in-memory slot and runs each on a daemon *)
(* thread, and the cron'd command line (refresh-screen), which runs one    *)
(* screen in its own process with no gate.  Opening the table is itself an *)
(* operation on it: JobStore.__init__ reconciles and prunes.               *)
(*                                                                         *)
(* A job is one control point, at[j].  The web path is                     *)
(*   fresh, claimed, recorded, its stages, a verdict, cleanup, releasing,  *)
(*   gone                                                                  *)
(* and the command line's is fresh, its stages, a verdict, cleanup, gone.  *)
(***************************************************************************)
EXTENDS Integers, FiniteSets

CONSTANTS Job,        \* job ids: uuid4().hex, so never used twice
          NoJob,      \* None, for the runner's _active
          MaxCli,     \* bound: command-line processes between opening and creating
          MaxClock,   \* bound: the clock ticks only below this
          Retention   \* _JOB_RETENTION_DAYS, in ticks

ASSUME NoJobAssumption == NoJob \notin Job
ASSUME BoundsAssumption == MaxCli \in Nat /\ MaxClock \in Nat /\ Retention \in Nat

VARIABLES
  status, result, error, created,  \* the jobs table, a column each
  source,     \* SOURCE_WEB or SOURCE_REFRESH, known from the first step of a job
  at,         \* control point of the code that runs the job
  hand,       \* what run_screen has returned to _run, not yet stored
  active,     \* JobRunner._active: the single-in-flight slot
  events,     \* keys of the web runner's _cancels
  pressed,    \* jobs whose cancel event has been set
  clicks,     \* cancel requests that have read "running" and not yet set the event
  web,        \* is the web process up
  clis,       \* command-line processes that have opened the table, no job yet
  clock       \* datetime.now(), a tick per new job and per day

table == <<status, result, error, created>>
runner == <<active, events, pressed, clicks>>
procs == <<web, clis, clock>>
vars == <<status, result, error, created, source, at, hand,
          active, events, pressed, clicks, web, clis, clock>>

Status  == {"absent", "running", "done", "cancelled", "failed"}
Results == {"none", "nothing", "cut", "late", "all"}
Errors  == {"none", "Interrupted", "ProviderOrInternal"}
Source  == {"unknown", "web", "refresh"}
Verdict == {"done", "cancelled", "failed"}
Stages  == {"guard", "fundamentals", "etfs", "chains", "returned"}
\* control points at which a web job owns the slot
Holding == {"claimed", "recorded", "cleanup", "releasing"} \cup Stages \cup Verdict
Points  == {"fresh", "gone"} \cup Holding

Init ==
  /\ status = [j \in Job |-> "absent"] /\ result = [j \in Job |-> "none"]
  /\ error = [j \in Job |-> "none"] /\ created = [j \in Job |-> 0]
  /\ source = [j \in Job |-> "unknown"]
  /\ at = [j \in Job |-> "fresh"] /\ hand = [j \in Job |-> "none"]
  /\ active = NoJob /\ events = {} /\ pressed = {} /\ clicks = {}
  /\ web = "up" /\ clis = 0 /\ clock = 1
-----------------------------------------------------------------------------
(* The table *)

\* rows the retention DELETE of an opening process removes
Old == {j \in Job : status[j] # "absent" /\ created[j] + Retention < clock}

\* Variants of OpenStore: the UPDATE without its WHERE; the prune without the
\* reconciliation.
OpenStoreFailsAll ==
  /\ status' = [j \in Job |-> IF status[j] = "absent" THEN "absent" ELSE "failed"]
  /\ error' = [j \in Job |-> IF status[j] = "absent" THEN "none" ELSE "Interrupted"]
  /\ UNCHANGED <<result, created>>

OpenStoreOnlyPrunes ==
  /\ status' = [j \in Job |-> IF j \in Old THEN "absent" ELSE status[j]]
  /\ error' = [j \in Job |-> IF j \in Old THEN "none" ELSE error[j]]
  /\ result' = [j \in Job |-> IF j \in Old THEN "none" ELSE result[j]]
  /\ UNCHANGED created

\* JobStore.__init__: every running row is failed, the old rows are deleted.
OpenStore ==
  LET stuck == {j \in Job : status[j] = "running"} IN
  /\ status' = [j \in Job |-> IF j \in Old THEN "absent"
                              ELSE IF j \in stuck THEN "failed" ELSE status[j]]
  /\ error' = [j \in Job |-> IF j \in Old THEN "none"
                             ELSE IF j \in stuck THEN "Interrupted" ELSE error[j]]
  /\ result' = [j \in Job |-> IF j \in Old THEN "none" ELSE result[j]]
  /\ UNCHANGED created

\* JobStore.create
InsertRow(j) ==
  /\ status' = [status EXCEPT ![j] = "running"]
  /\ created' = [created EXCEPT ![j] = clock]
  /\ clock' = clock + 1
  /\ UNCHANGED <<result, error>>

\* JobStore.finish: one UPDATE of status, result and error, of no row if pruned
WriteRow(j, as) ==
  /\ UNCHANGED created
  /\ IF status[j] = "absent"
     THEN UNCHANGED <<status, result, error>>
     ELSE /\ status' = [status EXCEPT ![j] = as]
          /\ result' = [result EXCEPT ![j] = IF as = "failed" THEN "none" ELSE hand[j]]
          /\ error' = [error EXCEPT ![j] =
                         IF as = "failed" THEN "ProviderOrInternal" ELSE "none"]

\* Variant: ORDER BY created_at without DESC.
FirstDone(sources) ==
  LET served == {j \in Job : status[j] \in {"done", "cancelled"} /\ source[j] \in sources}
  IN  {j \in served : \A k \in served : created[k] >= created[j]}

\* JobStore.latest_done: the jobs it may return (one, since created is unique)
LatestDone(sources) ==
  LET served == {j \in Job : status[j] \in {"done", "cancelled"} /\ source[j] \in sources}
  IN  {j \in served : \A k \in served : created[k] <= created[j]}
-----------------------------------------------------------------------------
(* JobRunner.start, on a request thread of the web process *)

\* Variant: the slot is taken without looking whether it is free.
StartUngated(j) ==
  /\ web = "up" /\ at[j] = "fresh"
  /\ active' = j /\ events' = events \cup {j}
  /\ at' = [at EXCEPT ![j] = "claimed"]
  /\ source' = [source EXCEPT ![j] = "web"]
  /\ UNCHANGED <<table, hand, pressed, clicks, procs>>

Start(j) ==
  /\ web = "up" /\ at[j] = "fresh"
  /\ active = NoJob                       \* else JobBusyError
  /\ active' = j /\ events' = events \cup {j}
  /\ at' = [at EXCEPT ![j] = "claimed"]
  /\ source' = [source EXCEPT ![j] = "web"]
  /\ UNCHANGED <<table, hand, pressed, clicks, procs>>

Create(j) ==
  /\ at[j] = "claimed"
  /\ InsertRow(j)
  /\ at' = [at EXCEPT ![j] = "recorded"]
  /\ UNCHANGED <<source, hand, runner, web, clis>>

\* store.create or thread.start raised: the slot is freed, a row already
\* written stays as it is
LaunchFails(j) ==
  /\ at[j] \in {"claimed", "recorded"}
  /\ active' = NoJob /\ events' = events \ {j}
  /\ at' = [at EXCEPT ![j] = "gone"]
  /\ UNCHANGED <<table, source, hand, pressed, clicks, procs>>

ThreadStarts(j) ==
  /\ at[j] = "recorded"
  /\ at' = [at EXCEPT ![j] = "guard"]
  /\ UNCHANGED <<table, source, hand, runner, procs>>
-----------------------------------------------------------------------------
(* run_screen, called by _run in either kind of process *)

Following == [guard |-> "fundamentals", fundamentals |-> "etfs", etfs |-> "chains"]

\* A stage ends and the cancel event is looked at before the next one.
StageEnds(j) ==
  /\ at[j] \in {"guard", "fundamentals", "etfs"}
  /\ IF j \in pressed
     THEN /\ at' = [at EXCEPT ![j] = "returned"]
          /\ hand' = [hand EXCEPT ![j] = "nothing"]
     ELSE /\ at' = [at EXCEPT ![j] = Following[at[j]]]
          /\ UNCHANGED hand
  /\ UNCHANGED <<table, source, runner, procs>>

\* The pull ends whole, at its deadline, or cut by a cancel it happened to see.
ChainsEnd(j) ==
  /\ at[j] = "chains"
  /\ \E got \in {"all", "late"} \cup (IF j \in pressed THEN {"cut"} ELSE {}) :
       hand' = [hand EXCEPT ![j] = got]
  /\ at' = [at EXCEPT ![j] = "returned"]
  /\ UNCHANGED <<table, source, runner, procs>>

\* Any stage may raise: _run turns it into a failed verdict.
StageRaises(j) ==
  /\ at[j] \in Stages \ {"returned"}
  /\ at' = [at EXCEPT ![j] = "failed"]
  /\ UNCHANGED <<table, source, hand, runner, procs>>

\* Variant: the status is read off the result, as if only an empty one could
\* have been cut by a cancel.
DecideByResult(j) ==
  /\ at[j] = "returned"
  /\ at' = [at EXCEPT ![j] = IF hand[j] = "nothing" THEN "cancelled" ELSE "done"]
  /\ UNCHANGED <<table, source, hand, runner, procs>>

\* status = "cancelled" if cancel.is_set() else "done"
Decide(j) ==
  /\ at[j] = "returned"
  /\ at' = [at EXCEPT ![j] = IF j \in pressed THEN "cancelled" ELSE "done"]
  /\ UNCHANGED <<table, source, hand, runner, procs>>

Finish(j) ==
  /\ at[j] \in Verdict
  /\ WriteRow(j, at[j])
  /\ at' = [at EXCEPT ![j] = "cleanup"]
  /\ hand' = [hand EXCEPT ![j] = "none"]
  /\ UNCHANGED <<source, runner, procs>>

\* Variant: when a failure cannot be recorded either, the verdict is taken anew.
FinishRetries(j) ==
  /\ at[j] \in Verdict
  /\ at' = [at EXCEPT ![j] = IF @ = "failed" THEN "returned" ELSE "failed"]
  /\ hand' = [hand EXCEPT ![j] = "none"]
  /\ UNCHANGED <<table, source, runner, procs>>

\* finish raised: from the body it is one more failure to record, from an
\* except branch it goes straight to the finally block
FinishRaises(j) ==
  /\ at[j] \in Verdict
  /\ at' = [at EXCEPT ![j] = IF @ = "failed" THEN "cleanup" ELSE "failed"]
  /\ hand' = [hand EXCEPT ![j] = "none"]
  /\ UNCHANGED <<table, source, runner, procs>>

\* the finally block of _run
Cleanup(j) ==
  /\ at[j] = "cleanup"
  /\ events' = events \ {j}
  /\ at' = [at EXCEPT ![j] = IF source[j] = "web" THEN "releasing" ELSE "gone"]
  /\ UNCHANGED <<table, source, hand, active, pressed, clicks, procs>>

\* Variant: the worker ends without freeing the slot.
ReleaseForgets(j) ==
  /\ at[j] = "releasing"
  /\ at' = [at EXCEPT ![j] = "gone"]
  /\ UNCHANGED <<table, source, hand, runner, procs>>

\* the finally block of _run_and_release
Release(j) ==
  /\ at[j] = "releasing"
  /\ active' = NoJob
  /\ at' = [at EXCEPT ![j] = "gone"]
  /\ UNCHANGED <<table, source, hand, events, pressed, clicks, procs>>
-----------------------------------------------------------------------------
(* Other requests of the web process *)

\* cancel_screen and cancel_run: the status is read...
ClickRead(j) ==
  /\ web = "up" /\ status[j] = "running" /\ j \notin clicks
  /\ clicks' = clicks \cup {j}
  /\ UNCHANGED <<table, source, at, hand, active, events, pressed, procs>>

\* ...and then JobRunner.cancel sets the event, if this process still has it
ClickSet(j) ==
  /\ j \in clicks
  /\ clicks' = clicks \ {j}
  /\ pressed' = pressed \cup ({j} \cap events)
  /\ UNCHANGED <<table, source, at, hand, active, events, procs>>
-----------------------------------------------------------------------------
(* Processes *)

\* The web process dies: its request and worker threads go with it.
WebCrash ==
  /\ web = "up" /\ web' = "down"
  /\ active' = NoJob /\ events' = {} /\ clicks' = {}
  /\ at' = [j \in Job |-> IF source[j] = "web" THEN "gone" ELSE at[j]]
  /\ hand' = [j \in Job |-> IF source[j] = "web" THEN "none" ELSE hand[j]]
  /\ UNCHANGED <<table, source, pressed, clis, clock>>

\* lifespan: JobRunner(service, JobStore(...), ...)
WebStart ==
  /\ web = "down" /\ web' = "up"
  /\ OpenStore
  /\ UNCHANGED <<source, at, hand, runner, clis, clock>>

\* refresh-screen opens the same table...
CliOpen ==
  /\ clis < MaxCli /\ clis' = clis + 1
  /\ OpenStore
  /\ UNCHANGED <<source, at, hand, runner, web, clock>>

\* ...and run_blocking creates its job and runs it
CliCreate(j) ==
  /\ clis > 0 /\ at[j] = "fresh"
  /\ clis' = clis - 1
  /\ InsertRow(j)
  /\ at' = [at EXCEPT ![j] = "guard"]
  /\ source' = [source EXCEPT ![j] = "refresh"]
  /\ UNCHANGED <<hand, runner, web>>

\* store.create raised, or the process was killed before it
CliQuits ==
  /\ clis > 0 /\ clis' = clis - 1
  /\ UNCHANGED <<table, source, at, hand, runner, web, clock>>

CliKilled(j) ==
  /\ source[j] = "refresh" /\ at[j] # "gone"
  /\ at' = [at EXCEPT ![j] = "gone"]
  /\ hand' = [hand EXCEPT ![j] = "none"]
  /\ UNCHANGED <<table, source, runner, procs>>

Tick ==
  /\ clock < MaxClock /\ clock' = clock + 1
  /\ UNCHANGED <<table, source, at, hand, runner, web, clis>>

\* what the code running job j does next, left alone
Work(j) ==
  \/ Create(j) \/ LaunchFails(j) \/ ThreadStarts(j)
  \/ StageEnds(j) \/ ChainsEnd(j) \/ StageRaises(j) \/ Decide(j)
  \/ Finish(j) \/ FinishRaises(j) \/ Cleanup(j) \/ Release(j)

Next ==
  \/ \E j \in Job : \/ Start(j) \/ Work(j) \/ ClickRead(j) \/ ClickSet(j)
                    \/ CliCreate(j) \/ CliKilled(j)
  \/ WebCrash \/ WebStart \/ CliOpen \/ CliQuits \/ Tick

Spec == Init /\ [][Next]_vars

\* A started thread or process keeps running; the container is restarted
\* (docker-compose "unless-stopped"); cron keeps starting refresh-screen.
Fairness ==
  /\ \A j \in Job : WF_vars(Work(j))
  /\ WF_vars(WebStart) /\ WF_vars(CliOpen)
  /\ WF_vars(CliQuits \/ \E j \in Job : CliCreate(j))

FairSpec == Spec /\ Fairness
-----------------------------------------------------------------------------
TypeOK ==
  /\ status \in [Job -> Status] /\ result \in [Job -> Results]
  /\ error \in [Job -> Errors] /\ created \in [Job -> Nat]
  /\ source \in [Job -> Source]
  /\ at \in [Job -> Points] /\ hand \in [Job -> Results]
  /\ active \in Job \cup {NoJob}
  /\ events \subseteq Job /\ pressed \subseteq Job /\ clicks \subseteq Job
  /\ web \in {"up", "down"}
  /\ clis \in Nat /\ clock \in Nat

\* The slot is held exactly while a web job is between start() taking it and
\* _run_and_release (or start's own except branch) freeing it: so at most one
\* web screen is ever in flight, and no failure on the way wedges the runner.
SlotIsTheWorker ==
  \A j \in Job : active = j <=> (source[j] = "web" /\ at[j] \in Holding)

\* A stored status is true of its result.  "done" is never said of a screen a
\* cancel cut short, whenever the click came; "cancelled" is only said of a web
\* screen somebody cancelled; a failure carries its error and no result.
StatusTellsTruth ==
  \A j \in Job :
    /\ status[j] = "done" => result[j] \in {"late", "all"} /\ error[j] = "none"
    /\ status[j] = "cancelled" =>
         j \in pressed /\ source[j] = "web" /\ result[j] # "none" /\ error[j] = "none"
    /\ status[j] = "failed" => result[j] = "none" /\ error[j] # "none"

\* The runner's table of cancel events holds the jobs in flight and no others,
\* whichever way each ended, so it cannot grow with the jobs ever run.
EventsAreInFlight ==
  events = {j \in Job : source[j] = "web" /\ at[j] \in Holding \ {"releasing"}}

\* A row that says running although nothing runs it was left by a launch or a
\* final write that failed, or by a crash: the row of a job whose worker is
\* still at work is running, interrupted by an opening process, or pruned.
WorkersRow ==
  \A j \in Job :
    at[j] \in {"recorded"} \cup Stages \cup Verdict =>
      \/ status[j] \in {"running", "absent"}
      \/ status[j] = "failed" /\ error[j] = "Interrupted"

\* The refreshed screen the dashboard serves never goes back to an older one:
\* once served, it is replaced only by a later one or removed by retention.
ServedNeverRegresses ==
  [][\A j \in LatestDone({"refresh"}), k \in LatestDone({"refresh"})' :
       status'[j] # "absent" => created'[k] >= created[j]]_vars

\* JobBoard is what a reader of the table sees of this.
ShownAs(j) ==
  IF status[j] = "failed" /\ error[j] = "Interrupted" THEN "interrupted" ELSE status[j]

PostedJobs == {j \in Job : created[j] > 0}
ShownJobs == [j \in Job |-> ShownAs(j)]

Board == INSTANCE JobBoard WITH posted <- PostedJobs, shown <- ShownJobs

\* The table keeps the board's promise: a settled job never changes again, an
\* identifier is posted once, and only opening the table interrupts or prunes.
KeepsTheBoard == Board!Spec

\* Whatever a screen runs into, the slot is given back.
SlotIsFreed == \A j \in Job : active = j ~> active # j

\* No row says running forever, whatever died: the next process to open the
\* table settles what the dead left behind.
RunningSettles == \A j \in Job : status[j] = "running" ~> status[j] # "running"

\* A cancel that reached a running screen before its verdict ends the screen.
CancelEnds == \A j \in Job : j \in pressed ~> at[j] = "gone"

\* The comment at JobStore.__init__: the worker of a job it reconciles is gone.
ReconciledAreDead ==
  \A j \in Job : status[j] = "failed" /\ error[j] = "Interrupted" =>
                   at[j] \in {"fresh", "gone"}
=============================================================================
