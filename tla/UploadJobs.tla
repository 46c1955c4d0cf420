----------------------------- MODULE UploadJobs -----------------------------
(***************************************************************************)
(* The reading of an upload (services/receipt.py, process_upload_job_task) *)
(* from the request that accepts the photos to the row the wizard polls.   *)
(*                                                                         *)
(* The request commits a PENDING row and leaves a background task to the   *)
(* application instance that served it.  The task marks the row PROCESSING, *)
(* reads the receipts with at most MaxConcurrency model calls at once,     *)
(* commits one more processed item as each is awaited, and ends the row as *)
(* COMPLETED with the readings or as FAILED.  An instance may die at any   *)
(* point, taking its tasks with it; an instance that starts fails every    *)
(* unfinished row it finds (services/job_recovery.py).                     *)
(***************************************************************************)
EXTENDS Integers, FiniteSets

CONSTANTS
    Jobs,            \* upload jobs that may be accepted
    Items,           \* the receipts photographed in one upload
    Instances,       \* application instances (infra/terraform/run.tf: up to 2)
    Nobody,          \* the owner of a task that does not exist
    MaxConcurrency,  \* llm_max_concurrency: model calls at once within a job
    RefusesEnds,     \* whether the database may refuse the task's first or last write
    MaxCrashes       \* bound: how many instances may die in a behaviour

ASSUME ItemsAssumption == IsFiniteSet(Items) /\ Items # {}
ASSUME NobodyAssumption == Nobody \notin Instances
ASSUME ConcurrencyAssumption == MaxConcurrency \in Nat \ {0}
ASSUME RefusesAssumption == RefusesEnds \in BOOLEAN
ASSUME CrashesAssumption == MaxCrashes \in Nat

VARIABLES
    up,         \* which instances are serving
    status,     \* upload_jobs.status, "absent" before the row is there
    processed,  \* upload_jobs.processed_items
    result,     \* upload_jobs.result_data: the receipts whose reading is in it
    owner,      \* the instance a job's background task runs on
    phase,      \* how far that task has come
    item,       \* how far the reading of each receipt of a job has come
    told,       \* the last status the polling client acted on
    overtaken,  \* history: the jobs a starting instance failed under a living task
    crashes     \* how many instances have died so far

rowVars == <<status, processed, result>>
taskVars == <<owner, phase>>
vars == <<up, rowVars, taskVars, item, told, overtaken, crashes>>

Status == {"absent", "pending", "processing", "completed", "failed"}
Unfinished == {"pending", "processing"}
Final == {"completed", "failed"}

(* A task is queued behind the response, reading its items, publishing what *)
(* they gave, unwinding after an exception, over, or gone with its process. *)
Phase == {"none", "queued", "reading", "publishing", "unwinding", "over", "gone"}
Alive == {"queued", "reading", "publishing", "unwinding"}

(* An item waits for the semaphore, is being read, has been read or has     *)
(* raised, has been awaited and counted, or was cancelled.                  *)
ItemState == {"waiting", "reading", "read", "raised", "counted", "stopped"}

At(j, s) == {k \in Items : item[j][k] = s}

TypeOK ==
    /\ up \in [Instances -> BOOLEAN]
    /\ status \in [Jobs -> Status]
    /\ processed \in [Jobs -> Nat]
    /\ result \in [Jobs -> SUBSET Items]
    /\ owner \in [Jobs -> Instances \cup {Nobody}]
    /\ phase \in [Jobs -> Phase]
    /\ item \in [Jobs -> [Items -> ItemState]]
    /\ told \in [Jobs -> {"nothing"} \cup Final]
    /\ overtaken \in SUBSET Jobs
    /\ crashes \in Nat

Init ==
    /\ up = [i \in Instances |-> FALSE]
    /\ status = [j \in Jobs |-> "absent"]
    /\ processed = [j \in Jobs |-> 0]
    /\ result = [j \in Jobs |-> {}]
    /\ owner = [j \in Jobs |-> Nobody]
    /\ phase = [j \in Jobs |-> "none"]
    /\ item = [j \in Jobs |-> [k \in Items |-> "waiting"]]
    /\ told = [j \in Jobs |-> "nothing"]
    /\ overtaken = {}
    /\ crashes = 0

(***************************************************************************)
(* The requests                                                            *)
(***************************************************************************)

(* upload_receipt: the row is committed before the response, the task is    *)
(* left for afterwards on the same instance.                                *)
Accept(j, i) ==
    /\ up[i]
    /\ status[j] = "absent"
    /\ status' = [status EXCEPT ![j] = "pending"]
    /\ owner' = [owner EXCEPT ![j] = i]
    /\ phase' = [phase EXCEPT ![j] = "queued"]
    /\ UNCHANGED <<up, processed, result, item, told, overtaken, crashes>>

(* get_upload_job_status, as UploadStore.pollJobStatus uses it: it asks     *)
(* until it reads a final status, and acts on that one.  Any instance       *)
(* answers.                                                                 *)
Poll(j) ==
    /\ \E i \in Instances : up[i]
    /\ told[j] = "nothing"
    /\ status[j] \in Final
    /\ told' = [told EXCEPT ![j] = status[j]]
    /\ UNCHANGED <<up, rowVars, taskVars, item, overtaken, crashes>>

(***************************************************************************)
(* The background task                                                     *)
(***************************************************************************)

StartTask(j) ==
    /\ phase[j] = "queued"
    /\ phase' = [phase EXCEPT ![j] = "reading"]
    /\ status' = [status EXCEPT ![j] = "processing"]
    /\ processed' = [processed EXCEPT ![j] = 0]
    /\ UNCHANGED <<up, result, owner, item, told, overtaken, crashes>>

(* bound_process: an item is read once the semaphore lets it through.       *)
StartItem(j, k) ==
    /\ phase[j] = "reading"
    /\ item[j][k] = "waiting"
    /\ Cardinality(At(j, "reading")) < MaxConcurrency
    /\ item' = [item EXCEPT ![j][k] = "reading"]
    /\ UNCHANGED <<up, rowVars, taskVars, told, overtaken, crashes>>

(* A reading ends with an extraction -- a parser's failure is one too -- or *)
(* raises, as storage may.  It may still end while the task is unwinding.   *)
EndItem(j, k) ==
    /\ phase[j] \in {"reading", "unwinding"}
    /\ item[j][k] = "reading"
    /\ \E s \in {"read", "raised"} : item' = [item EXCEPT ![j][k] = s]
    /\ UNCHANGED <<up, rowVars, taskVars, told, overtaken, crashes>>

(* The body of the as_completed loop: processed_items += 1 and commit.      *)
CountItem(j, k) ==
    /\ phase[j] = "reading"
    /\ item[j][k] = "read"
    /\ item' = [item EXCEPT ![j][k] = "counted"]
    /\ processed' = [processed EXCEPT ![j] = @ + 1]
    /\ UNCHANGED <<up, status, result, taskVars, told, overtaken, crashes>>

(* Mutated LeaveLoop: an item that raised is passed over.                   *)
LeaveLoopPastRaised(j) ==
    /\ phase[j] = "reading"
    /\ At(j, "waiting") \cup At(j, "reading") \cup At(j, "read") = {}
    /\ phase' = [phase EXCEPT ![j] = "publishing"]
    /\ UNCHANGED <<up, rowVars, owner, item, told, overtaken, crashes>>

(* The loop is over: every item was awaited, none of them raised.           *)
LeaveLoop(j) ==
    /\ phase[j] = "reading"
    /\ At(j, "counted") = Items
    /\ phase' = [phase EXCEPT ![j] = "publishing"]
    /\ UNCHANGED <<up, rowVars, owner, item, told, overtaken, crashes>>

(* The loop is left by an exception: job_timeout_seconds ran out or the     *)
(* commit of the progress failed.                                           *)
TimeOut(j) ==
    /\ phase[j] = "reading"
    /\ phase' = [phase EXCEPT ![j] = "unwinding"]
    /\ UNCHANGED <<up, rowVars, owner, item, told, overtaken, crashes>>

(* The same for an item that raised, once it is awaited.                    *)
AwaitRaised(j, k) ==
    /\ item[j][k] = "raised"
    /\ TimeOut(j)

(* task.cancel(): an item still waiting or being read stops at its next     *)
(* await.                                                                   *)
StopItem(j, k) ==
    /\ phase[j] = "unwinding"
    /\ item[j][k] \in {"waiting", "reading"}
    /\ item' = [item EXCEPT ![j][k] = "stopped"]
    /\ UNCHANGED <<up, rowVars, taskVars, told, overtaken, crashes>>

(* The readings, in the order they were sent, their duplicates marked, and  *)
(* COMPLETED, in one commit.                                                *)
Publish(j) ==
    /\ phase[j] = "publishing"
    /\ phase' = [phase EXCEPT ![j] = "over"]
    /\ status' = [status EXCEPT ![j] = "completed"]
    /\ result' = [result EXCEPT ![j] = At(j, "counted")]
    /\ UNCHANGED <<up, processed, owner, item, told, overtaken, crashes>>

(* A rate, a duplicate lookup or that commit may raise instead.             *)
PublishRaises(j) ==
    /\ phase[j] = "publishing"
    /\ phase' = [phase EXCEPT ![j] = "unwinding"]
    /\ UNCHANGED <<up, rowVars, owner, item, told, overtaken, crashes>>

(* Mutated RecordFailure: the cancelled items are not waited for.           *)
RecordFailureAtOnce(j) ==
    /\ phase[j] = "unwinding"
    /\ phase' = [phase EXCEPT ![j] = "over"]
    /\ status' = [status EXCEPT ![j] = "failed"]
    /\ UNCHANGED <<up, processed, result, owner, item, told, overtaken, crashes>>

(* asyncio.gather has seen every cancelled item end; the handler rolls back *)
(* and commits FAILED.                                                      *)
RecordFailure(j) ==
    /\ phase[j] = "unwinding"
    /\ At(j, "waiting") \cup At(j, "reading") = {}
    /\ phase' = [phase EXCEPT ![j] = "over"]
    /\ status' = [status EXCEPT ![j] = "failed"]
    /\ UNCHANGED <<up, processed, result, owner, item, told, overtaken, crashes>>

(* What is left of the readings of a task that is gone.                     *)
Remains(j) == [k \in Items |-> IF item[j][k] = "counted" THEN "counted" ELSE "stopped"]

(* The first commit, or the one of the failure, raises out of the task: the *)
(* row stays as it was with nothing left to move it on.                     *)
LoseTask(j) ==
    /\ RefusesEnds
    /\ phase[j] \in {"queued", "unwinding"}
    /\ phase[j] = "unwinding" => At(j, "waiting") \cup At(j, "reading") = {}
    /\ phase' = [phase EXCEPT ![j] = "gone"]
    /\ item' = [item EXCEPT ![j] = Remains(j)]
    /\ UNCHANGED <<up, rowVars, owner, told, overtaken, crashes>>

(***************************************************************************)
(* The instances                                                           *)
(***************************************************************************)

OwnedAlive(i) == {j \in Jobs : owner[j] = i /\ phase[j] \in Alive}

(* A deploy, a scale-down or a crash: the tasks go with their process.      *)
Crash(i) ==
    /\ up[i]
    /\ crashes < MaxCrashes
    /\ crashes' = crashes + 1
    /\ up' = [up EXCEPT ![i] = FALSE]
    /\ phase' = [j \in Jobs |-> IF j \in OwnedAlive(i) THEN "gone" ELSE phase[j]]
    /\ item' = [j \in Jobs |-> IF j \in OwnedAlive(i) THEN Remains(j) ELSE item[j]]
    /\ UNCHANGED <<rowVars, owner, told, overtaken>>

(* Mutated Swept: every row of an earlier process, or only the rows whose   *)
(* task had begun.                                                          *)
SweptWhole == {j \in Jobs : status[j] \in Unfinished \cup {"completed"}}
SweptBegun == {j \in Jobs : status[j] = "processing"}

Swept == {j \in Jobs : status[j] \in Unfinished}

(* Mutated Start: the sweep writes a status of its own.                     *)
StartMarkingOrphaned(i) ==
    /\ ~up[i]
    /\ up' = [up EXCEPT ![i] = TRUE]
    /\ status' = [j \in Jobs |-> IF j \in Swept THEN "orphaned" ELSE status[j]]
    /\ UNCHANGED <<processed, result, taskVars, item, told, overtaken, crashes>>

(* lifespan: fail_orphaned_upload_jobs runs before the instance serves.  A  *)
(* row another instance is still reading is unfinished too.                 *)
Start(i) ==
    /\ ~up[i]
    /\ up' = [up EXCEPT ![i] = TRUE]
    /\ status' = [j \in Jobs |-> IF j \in Swept THEN "failed" ELSE status[j]]
    /\ overtaken' = overtaken \cup {j \in Swept : phase[j] \in Alive}
    /\ UNCHANGED <<processed, result, taskVars, item, told, crashes>>

TaskStep(j) ==
    \/ StartTask(j)
    \/ \E k \in Items : \/ StartItem(j, k)
                        \/ EndItem(j, k)
                        \/ CountItem(j, k)
                        \/ AwaitRaised(j, k)
                        \/ StopItem(j, k)
    \/ LeaveLoop(j)
    \/ TimeOut(j)
    \/ Publish(j)
    \/ PublishRaises(j)
    \/ RecordFailure(j)
    \/ LoseTask(j)

Next ==
    \/ \E j \in Jobs, i \in Instances : Accept(j, i)
    \/ \E j \in Jobs : Poll(j) \/ TaskStep(j)
    \/ \E i \in Instances : Crash(i) \/ Start(i)

(* The event loop runs a task that can run; the timer of asyncio.timeout    *)
(* fires; a cancelled item ends.  A model call need not ever answer, so     *)
(* EndItem is not fair.  The client keeps polling, and its request starts   *)
(* an instance when the service has none.  A row left behind by LoseTask    *)
(* waits for a restart nobody promises: ClientIsTold is checked without.    *)
Revive == /\ \A i \in Instances : ~up[i]
          /\ \E i \in Instances : Start(i)

Fairness ==
    /\ \A j \in Jobs :
        /\ WF_vars(StartTask(j))
        /\ WF_vars(TimeOut(j))
        /\ WF_vars(Publish(j) \/ PublishRaises(j))
        /\ WF_vars(RecordFailure(j))
        /\ WF_vars(Poll(j))
        /\ \A k \in Items : WF_vars(StopItem(j, k))
    /\ WF_vars(Revive)

Spec == Init /\ [][Next]_vars
FairSpec == Spec /\ Fairness

(***************************************************************************)
(* Properties                                                              *)
(***************************************************************************)

(* A result is on a row exactly when the row is COMPLETED, and it is whole: *)
(* every receipt of the upload is in it and was counted, however readings   *)
(* raised, timed out or were swept meanwhile (services/receipt.py:293-305). *)
ResultIsWhole ==
    \A j \in Jobs :
        /\ status[j] = "completed" =>
               result[j] = Items /\ processed[j] = Cardinality(Items)
        /\ status[j] # "completed" => result[j] = {}

(* Nothing goes on reading for a job after its task recorded an end: the    *)
(* survivors are cancelled and waited for before FAILED is committed        *)
(* (services/receipt.py:284-290).                                           *)
NoSurvivors ==
    \A j \in Jobs : phase[j] \in {"over", "gone"} =>
                        At(j, "waiting") \cup At(j, "reading") = {}

(* What the client was told stands, though it stops polling at the first    *)
(* final status it reads (UploadStore.ts pollJobStatus): a job does not end *)
(* twice, differently.  The one way out is a failure announced for a job    *)
(* whose task lived on another instance while this one started: that task   *)
(* still moves the row, to PROCESSING or to COMPLETED.                      *)
ToldIsTrue ==
    \A j \in Jobs :
        told[j] \notin {"nothing", status[j]} => told[j] = "failed" /\ j \in overtaken

(* The start-up sweep fails a job only when its task died with its process  *)
(* (services/job_recovery.py:1, "orphaned by a process restart").  With the *)
(* two instances infra/terraform/run.tf:80 allows it fails living ones too. *)
SweptOrphansOnly ==
    [][\A j \in Jobs :
        (\E i \in Instances : Start(i)) /\ status'[j] # status[j]
            => phase[j] \notin Alive]_vars

(* The row as its client sees it: open while PENDING or PROCESSING.         *)
Outcome ==
    [j \in Jobs |-> CASE status[j] = "absent" -> "none"
                      [] status[j] \in Unfinished -> "open"
                      [] OTHER -> status[j]]

Promise == INSTANCE JobPromise WITH outcome <- Outcome

(* Whatever the tasks, cancellations, crashes and sweeps do, the client      *)
(* sees one life per job: accepted, ended once as completed or failed, told *)
(* that end.                                                                *)
KeepsPromise == Promise!PSpec

(* A job that was accepted does not stay in PROCESSING "for a client to     *)
(* poll forever" (services/receipt.py:221-222, services/job_recovery.py:6): *)
(* the client is told an end.                                               *)
ClientIsTold == \A j \in Jobs : status[j] = "pending" ~> told[j] # "nothing"

=============================================================================
