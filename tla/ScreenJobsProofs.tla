-------------------------- MODULE ScreenJobsProofs --------------------------
(***************************************************************************)
(* Theorems about ScreenJobs, for any set of jobs and any bounds.          *)
(*                                                                         *)
(* SlotIsTheWorker and EventsAreInFlight are inductive once it is known    *)
(* which control points only a web job reaches (WebPoints).  The verdicts  *)
(* need to be followed back to what run_screen returned (HandTellsTruth);  *)
(* the refinement needs the row of a job nobody has created yet            *)
(* (Unwritten) and the row of a job whose worker is alive (WorkersRow).    *)
(***************************************************************************)
EXTENDS ScreenJobs, TLAPS

\* Only start() leads to these control points; a job with a source has begun.
WebPoints ==
  \A j \in Job : /\ at[j] \in {"claimed", "recorded", "releasing"} => source[j] = "web"
                 /\ at[j] = "fresh" => source[j] = "unknown"

\* Before its INSERT a job has no row, and no created_at.
Unwritten ==
  /\ clock > 0
  /\ \A j \in Job : at[j] \in {"fresh", "claimed"} =>
                      status[j] = "absent" /\ created[j] = 0

\* A row nothing has settled, or no row, holds neither result nor error.
Unsettled ==
  \A j \in Job : status[j] \in {"absent", "running"} =>
                   result[j] = "none" /\ error[j] = "none"

\* A verdict agrees with the cancel event and with what run_screen returned.
HandTellsTruth ==
  /\ \A j \in pressed : source[j] = "web"
  /\ \A j \in Job :
       /\ at[j] \in {"returned", "done", "cancelled"} => hand[j] # "none"
       /\ hand[j] \in {"nothing", "cut"} => j \in pressed
       /\ at[j] = "done" => hand[j] \in {"late", "all"}
       /\ at[j] = "cancelled" => j \in pressed

IInv == /\ TypeOK /\ WebPoints /\ SlotIsTheWorker /\ EventsAreInFlight
        /\ HandTellsTruth /\ StatusTellsTruth /\ Unwritten
        /\ Unsettled /\ WorkersRow

USE DEF Status, Results, Errors, Source, Points, Holding, Stages, Verdict,
        table, runner, procs

\* The initial states satisfy the inductive invariant.
LEMMA InitInvariant == Init => IInv
<1> SUFFICES ASSUME Init PROVE IInv
  OBVIOUS
<1>1. TypeOK
  BY DEF Init, TypeOK
<1>2. SlotIsTheWorker /\ EventsAreInFlight
  BY NoJobAssumption DEF Init, SlotIsTheWorker, EventsAreInFlight
<1>3. WebPoints /\ HandTellsTruth /\ StatusTellsTruth /\ Unwritten /\ Unsettled /\ WorkersRow
  BY DEF Init, WebPoints, HandTellsTruth, StatusTellsTruth, Unwritten, Unsettled, WorkersRow
<1> QED
  BY <1>1, <1>2, <1>3 DEF IInv

\* Every step keeps the inductive invariant.
LEMMA Step == IInv /\ [Next]_vars => IInv'
<1> SUFFICES ASSUME IInv, [Next]_vars PROVE IInv'
  OBVIOUS
<1> USE NoJobAssumption, BoundsAssumption
<1> USE DEF IInv, TypeOK, WebPoints, SlotIsTheWorker, EventsAreInFlight,
            HandTellsTruth, StatusTellsTruth, Unwritten, Unsettled,
            WorkersRow
<1>1. ASSUME NEW j \in Job, Start(j) PROVE IInv'
  BY <1>1 DEF Start
<1>2. ASSUME NEW j \in Job, Create(j) PROVE IInv'
  BY <1>2 DEF Create, InsertRow
<1>3. ASSUME NEW j \in Job, LaunchFails(j) PROVE IInv'
  BY <1>3 DEF LaunchFails
<1>4. ASSUME NEW j \in Job, ThreadStarts(j) PROVE IInv'
  BY <1>4 DEF ThreadStarts
<1>5. ASSUME NEW j \in Job, StageEnds(j) PROVE IInv'
  <2>1. CASE j \in pressed
    BY <1>5, <2>1 DEF StageEnds
  <2>2. CASE j \notin pressed
    <3>1. Following[at[j]] \in {"fundamentals", "etfs", "chains"}
      BY <1>5 DEF StageEnds, Following
    <3> QED
      BY <1>5, <2>2, <3>1 DEF StageEnds
  <2> QED
    BY <2>1, <2>2
<1>6. ASSUME NEW j \in Job, ChainsEnd(j) PROVE IInv'
  BY <1>6 DEF ChainsEnd
<1>7. ASSUME NEW j \in Job, StageRaises(j) PROVE IInv'
  BY <1>7 DEF StageRaises
<1>8. ASSUME NEW j \in Job, Decide(j) PROVE IInv'
  BY <1>8 DEF Decide
<1>9. ASSUME NEW j \in Job, Finish(j) PROVE IInv'
  BY <1>9 DEF Finish, WriteRow
<1>10. ASSUME NEW j \in Job, FinishRaises(j) PROVE IInv'
  BY <1>10 DEF FinishRaises
<1>11. ASSUME NEW j \in Job, Cleanup(j) PROVE IInv'
  BY <1>11 DEF Cleanup
<1>12. ASSUME NEW j \in Job, Release(j) PROVE IInv'
  BY <1>12 DEF Release
<1>13. ASSUME NEW j \in Job, ClickRead(j) PROVE IInv'
  BY <1>13 DEF ClickRead
<1>14. ASSUME NEW j \in Job, ClickSet(j) PROVE IInv'
  BY <1>14 DEF ClickSet
<1>15. ASSUME NEW j \in Job, CliCreate(j) PROVE IInv'
  BY <1>15 DEF CliCreate, InsertRow
<1>16. ASSUME NEW j \in Job, CliKilled(j) PROVE IInv'
  BY <1>16 DEF CliKilled
<1>17. CASE WebCrash
  <2>1. TypeOK'
    BY <1>17 DEF WebCrash
  <2>2. SlotIsTheWorker' /\ EventsAreInFlight'
    <3>1. \A j \in Job : ~(source'[j] = "web" /\ at'[j] \in Holding)
      BY <1>17 DEF WebCrash
    <3> QED
      BY <1>17, <3>1 DEF WebCrash
  <2>3. WebPoints' /\ HandTellsTruth' /\ WorkersRow'
    BY <1>17 DEF WebCrash
  <2>4. StatusTellsTruth' /\ Unwritten' /\ Unsettled'
    BY <1>17 DEF WebCrash
  <2> QED
    BY <2>1, <2>2, <2>3, <2>4
<1>18. CASE WebStart
  BY <1>18 DEF WebStart, OpenStore, Old
<1>19. CASE CliOpen
  BY <1>19 DEF CliOpen, OpenStore, Old
<1>20. CASE CliQuits
  BY <1>20 DEF CliQuits
<1>21. CASE Tick
  BY <1>21 DEF Tick
<1>22. CASE UNCHANGED vars
  BY <1>22 DEF vars
<1> QED
  BY <1>1, <1>2, <1>3, <1>4, <1>5, <1>6, <1>7, <1>8, <1>9, <1>10, <1>11, <1>12, <1>13,
     <1>14, <1>15, <1>16, <1>17, <1>18, <1>19, <1>20, <1>21, <1>22 DEF Next, Work

\* The strengthening holds in every reachable state.
THEOREM Invariance == Spec => []IInv
BY InitInvariant, Step, PTL DEF Spec

\* Every variable keeps its type.
THEOREM TypeCorrect == Spec => []TypeOK
BY Invariance, PTL DEF IInv

\* The slot is exactly the worker in flight, so web screens run one at a time
\* and no failed launch, failed write or crash leaves the slot taken.
THEOREM SlotCorrect == Spec => []SlotIsTheWorker
BY Invariance, PTL DEF IInv

\* The runner's events are those of the jobs in flight.
THEOREM EventsCorrect == Spec => []EventsAreInFlight
BY Invariance, PTL DEF IInv

\* No screen cut short by a cancel is stored as done, and no screen is stored
\* as cancelled that nobody cancelled.
THEOREM StatusCorrect == Spec => []StatusTellsTruth
BY Invariance, PTL DEF IInv

\* The row of a job at work is running, interrupted by an opening, or pruned.
THEOREM RowCorrect == Spec => []WorkersRow
BY Invariance, PTL DEF IInv
-----------------------------------------------------------------------------
(* The jobs table implements the board. *)

\* The table starts as an empty board.
LEMMA BoardInit == Init => Board!Init
  BY DEF Init, Board!Init, PostedJobs, ShownJobs, ShownAs

\* A verdict is written over a running or an interrupted row, or over none.
LEMMA FinishSettles ==
  ASSUME IInv, IInv', NEW j \in Job, Finish(j)
  PROVE  [Board!Next]_<<PostedJobs, ShownJobs>>
<1> USE DEF IInv, TypeOK, WorkersRow, ShownAs
<1>1. PostedJobs' = PostedJobs
  BY DEF Finish, WriteRow, PostedJobs
<1>2. CASE status[j] = "absent"
  BY <1>1, <1>2 DEF Finish, WriteRow, ShownJobs
<1>3. CASE status[j] # "absent"
  <2>1. ShownJobs[j] \in {"running", "interrupted"}
    BY <1>3 DEF Finish, ShownJobs
  <2>2. ShownJobs' = [ShownJobs EXCEPT ![j] = at[j]]
    <3>1. ShownAs(j)' = at[j]
      BY <1>3 DEF Finish, WriteRow
    <3>2. \A k \in Job \ {j} : ShownAs(k)' = ShownAs(k)
      BY <1>3 DEF Finish, WriteRow
    <3>3. ShownJobs' = [k \in Job |-> ShownAs(k)']
      BY DEF ShownJobs
    <3>4. ShownJobs' = [k \in Job |-> IF k = j THEN at[j] ELSE ShownAs(k)]
      BY <3>1, <3>2, <3>3
    <3> HIDE DEF ShownAs
    <3> QED
      BY <3>4 DEF ShownJobs
  <2>3. Board!Settle(j, at[j])
    BY <1>1, <2>1, <2>2 DEF Board!Settle
  <2> QED
    BY <2>3 DEF Finish, Board!Next, Board!Settled
<1> QED
  BY <1>2, <1>3

\* A row is inserted for a job the board has not seen.
LEMMA InsertPosts ==
  ASSUME IInv, NEW j \in Job, at[j] \in {"fresh", "claimed"}, InsertRow(j)
  PROVE  Board!Next
<1> USE DEF IInv, TypeOK, Unwritten
<1>1. j \notin PostedJobs /\ PostedJobs' = PostedJobs \cup {j}
  BY DEF InsertRow, PostedJobs
<1>2. ShownJobs' = [ShownJobs EXCEPT ![j] = "running"]
  BY DEF InsertRow, ShownJobs, ShownAs
<1> QED
  BY <1>1, <1>2 DEF Board!Next, Board!Post

\* Opening the table opens the board.
LEMMA OpenStoreOpens ==
  ASSUME IInv, OpenStore
  PROVE  Board!Next
<1> USE DEF IInv, TypeOK
<1>1. PostedJobs' = PostedJobs
  BY DEF OpenStore, PostedJobs
<1>2. ShownJobs' = [j \in Job |->
                     IF j \in Old THEN "absent"
                     ELSE IF ShownJobs[j] = "running" THEN "interrupted" ELSE ShownJobs[j]]
  BY DEF OpenStore, ShownJobs, ShownAs
<1>3. Old \in SUBSET Job
  BY DEF Old
<1> QED
  BY <1>1, <1>2, <1>3 DEF Board!Next, Board!Open

\* Every step of the runner is a step of the board or leaves it alone.
LEMMA BoardStep == IInv /\ IInv' /\ [Next]_vars => [Board!Next]_<<PostedJobs, ShownJobs>>
<1> SUFFICES ASSUME IInv, IInv', [Next]_vars PROVE [Board!Next]_<<PostedJobs, ShownJobs>>
  OBVIOUS
<1>1. CASE UNCHANGED table
  BY <1>1 DEF PostedJobs, ShownJobs, ShownAs
<1>2. ASSUME NEW j \in Job, Create(j) \/ CliCreate(j) PROVE Board!Next
  BY <1>2, InsertPosts DEF Create, CliCreate
<1>3. ASSUME NEW j \in Job, Finish(j) PROVE [Board!Next]_<<PostedJobs, ShownJobs>>
  BY <1>3, FinishSettles
<1>4. CASE WebStart \/ CliOpen
  BY <1>4, OpenStoreOpens DEF WebStart, CliOpen
<1>5. ASSUME NEW j \in Job,
             \/ Start(j) \/ LaunchFails(j) \/ ThreadStarts(j) \/ StageEnds(j)
             \/ ChainsEnd(j) \/ StageRaises(j) \/ Decide(j) \/ FinishRaises(j)
             \/ Cleanup(j) \/ Release(j) \/ ClickRead(j) \/ ClickSet(j) \/ CliKilled(j)
      PROVE  UNCHANGED table
  BY <1>5 DEF Start, LaunchFails, ThreadStarts, StageEnds, ChainsEnd, StageRaises, Decide,
              FinishRaises, Cleanup, Release, ClickRead, ClickSet, CliKilled
<1>6. CASE WebCrash \/ CliQuits \/ Tick \/ UNCHANGED vars
  BY <1>1, <1>6 DEF WebCrash, CliQuits, Tick, vars
<1> QED
  BY <1>1, <1>2, <1>3, <1>4, <1>5, <1>6 DEF Next, Work

\* The table, written by two kinds of process that fail and crash, keeps the
\* promise made to its readers.
THEOREM BoardCorrect == Spec => KeepsTheBoard
<1>1. Spec => Board!Init /\ [][Board!Next]_<<PostedJobs, ShownJobs>>
  BY BoardInit, BoardStep, Invariance, PTL DEF Spec
<1> QED
  BY <1>1 DEF KeepsTheBoard, Board!Spec
-----------------------------------------------------------------------------
(* What the dashboard serves. *)

\* What is settled keeps its result and its place until it is pruned: no step but
\* an opening of the table touches its row, and no worker has it in hand.
LEMMA ServedStays ==
  ASSUME IInv, [Next]_vars, NEW j \in Job, status[j] \in {"done", "cancelled"},
         source[j] = "refresh"
  PROVE  \/ status'[j] = "absent"
         \/ status'[j] = status[j] /\ source'[j] = "refresh" /\ created'[j] = created[j]
<1> USE DEF IInv, TypeOK
<1>1. at[j] \notin {"fresh", "claimed", "recorded"} /\ at[j] \notin Verdict
  BY DEF WebPoints, WorkersRow
<1>2. ASSUME NEW k \in Job, Create(k) \/ CliCreate(k)
      PROVE  status'[j] = status[j] /\ source'[j] = "refresh" /\ created'[j] = created[j]
  <2>1. k # j
    BY <1>1, <1>2 DEF Create, CliCreate
  <2> QED
    BY <1>2, <2>1 DEF Create, CliCreate, InsertRow
<1>3. ASSUME NEW k \in Job, Finish(k)
      PROVE  status'[j] = status[j] /\ source'[j] = "refresh" /\ created'[j] = created[j]
  <2>1. k # j
    BY <1>1, <1>3 DEF Finish
  <2> QED
    BY <1>3, <2>1 DEF Finish, WriteRow
<1>4. ASSUME NEW k \in Job, Start(k)
      PROVE  UNCHANGED table /\ source'[j] = "refresh"
  <2>1. k # j
    BY <1>1, <1>4 DEF Start
  <2> QED
    BY <1>4, <2>1 DEF Start
<1>5. CASE WebStart \/ CliOpen
  BY <1>5 DEF WebStart, CliOpen, OpenStore
<1>6. ASSUME NEW k \in Job, \/ LaunchFails(k) \/ ThreadStarts(k) \/ StageEnds(k) \/ ChainsEnd(k)
                            \/ StageRaises(k) \/ Decide(k) \/ FinishRaises(k) \/ Cleanup(k)
                            \/ Release(k) \/ ClickRead(k) \/ ClickSet(k) \/ CliKilled(k)
      PROVE  UNCHANGED <<table, source>>
  BY <1>6 DEF LaunchFails, ThreadStarts, StageEnds, ChainsEnd, StageRaises, Decide,
              FinishRaises, Cleanup, Release, ClickRead, ClickSet, CliKilled
<1>7. CASE WebCrash \/ CliQuits \/ Tick \/ UNCHANGED vars
  BY <1>7 DEF WebCrash, CliQuits, Tick, vars
<1> QED
  BY <1>2, <1>3, <1>4, <1>5, <1>6, <1>7 DEF Next, Work

\* JobStore.latest_done never goes back: the refreshed screen it returns is replaced
\* only by a later one, whatever fails, dies or opens the table meanwhile.
THEOREM ServedCorrect == Spec => ServedNeverRegresses
<1>1. ASSUME IInv, [Next]_vars, NEW j \in LatestDone({"refresh"}),
             NEW k \in LatestDone({"refresh"})', status'[j] # "absent"
      PROVE  created'[k] >= created[j]
  <2>1. j \in Job /\ status[j] \in {"done", "cancelled"} /\ source[j] = "refresh"
    BY DEF LatestDone
  <2>2. status'[j] = status[j] /\ source'[j] = "refresh" /\ created'[j] = created[j]
    BY <1>1, <2>1, ServedStays
  <2> QED
    BY <1>1, <2>1, <2>2 DEF LatestDone, IInv, TypeOK
<1>2. IInv /\ [Next]_vars =>
        [\A j \in LatestDone({"refresh"}), k \in LatestDone({"refresh"})' :
           status'[j] # "absent" => created'[k] >= created[j]]_vars
  BY <1>1
<1> QED
  BY <1>2, Invariance, PTL DEF Spec, ServedNeverRegresses
=============================================================================
