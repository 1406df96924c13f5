------------------------------ MODULE JobBoard ------------------------------
(***************************************************************************)
(* What the jobs table promises the people who read it: the progress poll, *)
(* the dashboard and the Close? column.  A job is posted once, is running  *)
(* until its run settles it, and a settled job never changes again.  The   *)
(* one thing that comes between is a process opening the table: it marks   *)
(* the running jobs interrupted and prunes the old ones.  The board says   *)
(* nothing of threads, slots, locks or failed writes: ScreenJobs has those *)
(* and is shown to implement this module.                                  *)
(***************************************************************************)
CONSTANT Job

VARIABLES posted,   \* the jobs that have ever been written to the table
          shown     \* what a reader is told of each job

Settled == {"done", "cancelled", "failed"}

Shown == {"absent", "running", "interrupted"} \cup Settled

Init == posted = {} /\ shown = [j \in Job |-> "absent"]

\* A new job appears, running.  An identifier is never used twice.
Post(j) ==
  /\ j \notin posted
  /\ posted' = posted \cup {j}
  /\ shown' = [shown EXCEPT ![j] = "running"]

\* The run settles its job, once, even if the job was called interrupted.
Settle(j, as) ==
  /\ shown[j] \in {"running", "interrupted"}
  /\ shown' = [shown EXCEPT ![j] = as]
  /\ UNCHANGED posted

\* A process opens the table: running jobs become interrupted, old ones go.
Open(old) ==
  /\ shown' = [j \in Job |->
                 IF j \in old THEN "absent"
                 ELSE IF shown[j] = "running" THEN "interrupted" ELSE shown[j]]
  /\ UNCHANGED posted

Next ==
  \/ \E j \in Job : Post(j)
  \/ \E j \in Job, as \in Settled : Settle(j, as)
  \/ \E old \in SUBSET Job : Open(old)

Spec == Init /\ [][Next]_<<posted, shown>>
=============================================================================
