-------------------------- MODULE UploadJobsProofs --------------------------
(***************************************************************************)
(* Proofs about UploadJobs, for any number of jobs, receipts and crashes.  *)
(* Indexed and Overturned are inductive however many instances there are.  *)
(* Settled, and what rests on it, needs the single instance that           *)
(* services/job_recovery.py assumes.                                       *)
(***************************************************************************)
EXTENDS UploadJobs, FiniteSetTheorems, TLAPS

(* Where a job's row, its task and its items stand to one another.          *)
PhaseInv ==
    \A j \in Jobs :
        /\ phase[j] = "none" <=> status[j] = "absent"
        /\ phase[j] \in {"none", "queued"} => At(j, "waiting") = Items
        /\ phase[j] = "publishing" => At(j, "counted") = Items
        /\ phase[j] \in Alive => owner[j] \in Instances /\ up[owner[j]]
        /\ status[j] = "completed" => phase[j] = "over"

(* The progress shown is the receipts really awaited.                       *)
ProgressIsTrue == \A j \in Jobs : processed[j] = Cardinality(At(j, "counted"))

Indexed == TypeOK /\ PhaseInv /\ ProgressIsTrue /\ ResultIsWhole /\ NoSurvivors

USE DEF Status, Unfinished, Final, Phase, Alive, ItemState

(* A new member of At(j, "counted") adds one to its size.                   *)
LEMMA CountOneMore ==
    ASSUME NEW S \in SUBSET Items, NEW k \in Items, k \notin S
    PROVE  Cardinality(S \cup {k}) = Cardinality(S) + 1
<1>1. IsFiniteSet(S)
  BY ItemsAssumption, FS_Subset
<1> QED BY <1>1, FS_AddElement

LEMMA NobodyCounted == Cardinality({}) = 0
BY FS_EmptySet

(* At depends on nothing but the states of the items.                       *)
LEMMA AtUnchanged ==
    ASSUME UNCHANGED item
    PROVE  \A j \in Jobs : \A s \in ItemState : At(j, s)' = At(j, s)
BY DEF At

(* Every action keeps the types.                                            *)
LEMMA TypeStep == TypeOK /\ [Next]_vars => TypeOK'
<1> SUFFICES ASSUME TypeOK, [Next]_vars PROVE TypeOK'
  OBVIOUS
<1> USE DEF TypeOK, rowVars, taskVars
<1>1. ASSUME NEW j \in Jobs, NEW i \in Instances, Accept(j, i) PROVE TypeOK'
  BY <1>1 DEF Accept
<1>2. ASSUME NEW j \in Jobs, Poll(j) PROVE TypeOK'
  BY <1>2 DEF Poll
<1>3. ASSUME NEW j \in Jobs, TaskStep(j) PROVE TypeOK'
  <2>1. CASE StartTask(j)
    BY <2>1 DEF StartTask
  <2>2. ASSUME NEW k \in Items, StartItem(j, k) PROVE TypeOK'
    BY <2>2 DEF StartItem
  <2>3. ASSUME NEW k \in Items, EndItem(j, k) PROVE TypeOK'
    BY <2>3 DEF EndItem
  <2>4. ASSUME NEW k \in Items, CountItem(j, k) PROVE TypeOK'
    BY <2>4 DEF CountItem
  <2>5. ASSUME NEW k \in Items, StopItem(j, k) PROVE TypeOK'
    BY <2>5 DEF StopItem
  <2>6. CASE TimeOut(j)
    BY <2>6 DEF TimeOut
  <2>7. CASE LeaveLoop(j)
    BY <2>7 DEF LeaveLoop
  <2>8. CASE Publish(j)
    <3>1. At(j, "counted") \in SUBSET Items
      BY DEF At
    <3> QED BY <2>8, <3>1 DEF Publish
  <2>9. CASE PublishRaises(j)
    BY <2>9 DEF PublishRaises
  <2>10. CASE RecordFailure(j)
    BY <2>10 DEF RecordFailure
  <2>11. CASE LoseTask(j)
    BY <2>11 DEF LoseTask, Remains
  <2> QED
    BY <1>3, <2>1, <2>2, <2>3, <2>4, <2>5, <2>6, <2>7, <2>8, <2>9, <2>10, <2>11
    DEF TaskStep, AwaitRaised
<1>4. ASSUME NEW i \in Instances, Crash(i) PROVE TypeOK'
  BY <1>4 DEF Crash, OwnedAlive, Remains
<1>5. ASSUME NEW i \in Instances, Start(i) PROVE TypeOK'
  BY <1>5 DEF Start, Swept
<1>6. CASE UNCHANGED vars
  BY <1>6 DEF vars
<1> QED BY <1>1, <1>2, <1>3, <1>4, <1>5, <1>6 DEF Next

(* UploadJobs.TypeOK: every row, task and item keeps its type.              *)
THEOREM TypeCorrect == Spec => []TypeOK
<1>1. Init => TypeOK
  BY CrashesAssumption DEF Init, TypeOK
<1> QED BY <1>1, TypeStep, PTL DEF Spec

(* Every action keeps rows, tasks and items in step.                        *)
LEMMA PhaseStep == TypeOK /\ PhaseInv /\ [Next]_vars => PhaseInv'
<1> SUFFICES ASSUME TypeOK, PhaseInv, [Next]_vars PROVE PhaseInv'
  OBVIOUS
<1> USE DEF TypeOK, PhaseInv, rowVars, taskVars
<1>1. ASSUME NEW j \in Jobs, NEW i \in Instances, Accept(j, i) PROVE PhaseInv'
  BY <1>1, AtUnchanged DEF Accept
<1>2. ASSUME NEW j \in Jobs, Poll(j) PROVE PhaseInv'
  BY <1>2, AtUnchanged DEF Poll
<1>3. ASSUME NEW j \in Jobs, TaskStep(j) PROVE PhaseInv'
  <2>1. CASE StartTask(j)
    BY <2>1, AtUnchanged DEF StartTask
  <2>2. ASSUME NEW k \in Items, NEW s \in ItemState,
               phase[j] \in {"reading", "unwinding"},
               item' = [item EXCEPT ![j][k] = s],
               UNCHANGED <<up, status, owner, phase>>
        PROVE  PhaseInv'
    <3>1. \A q \in Jobs : q # j => \A t \in ItemState : At(q, t)' = At(q, t)
      BY <2>2 DEF At
    <3> QED BY <2>2, <3>1
  <2>3. CASE LeaveLoop(j)
    BY <2>3, AtUnchanged DEF LeaveLoop
  <2>4. CASE TimeOut(j)
    BY <2>4, AtUnchanged DEF TimeOut
  <2>5. CASE Publish(j)
    BY <2>5, AtUnchanged DEF Publish
  <2>6. CASE PublishRaises(j)
    BY <2>6, AtUnchanged DEF PublishRaises
  <2>7. CASE RecordFailure(j)
    BY <2>7, AtUnchanged DEF RecordFailure
  <2>8. ASSUME NEW k \in Items, StartItem(j, k) \/ EndItem(j, k) \/ CountItem(j, k) \/ StopItem(j, k)
        PROVE  PhaseInv'
    BY <2>8, <2>2 DEF StartItem, EndItem, CountItem, StopItem
  <2>9. CASE LoseTask(j)
    <3>1. \A q \in Jobs : q # j => \A t \in ItemState : At(q, t)' = At(q, t)
      BY <2>9 DEF LoseTask, At
    <3> QED BY <2>9, <3>1 DEF LoseTask
  <2> QED
    BY <1>3, <2>1, <2>3, <2>4, <2>5, <2>6, <2>7, <2>8, <2>9 DEF TaskStep, AwaitRaised
<1>4. ASSUME NEW i \in Instances, Crash(i) PROVE PhaseInv'
  <2>1. \A q \in Jobs : q \notin OwnedAlive(i) => \A t \in ItemState : At(q, t)' = At(q, t)
    BY <1>4 DEF Crash, At
  <2>2. \A q \in OwnedAlive(i) : q \in Jobs /\ phase[q] \in Alive /\ phase'[q] = "gone"
    BY <1>4 DEF Crash, OwnedAlive
  <2> QED BY <1>4, <2>1, <2>2 DEF Crash, OwnedAlive
<1>5. ASSUME NEW i \in Instances, Start(i) PROVE PhaseInv'
  BY <1>5, AtUnchanged DEF Start, Swept
<1>6. CASE UNCHANGED vars
  BY <1>6, AtUnchanged DEF vars
<1> QED BY <1>1, <1>2, <1>3, <1>4, <1>5, <1>6 DEF Next

(* What an action does to one item of one job, and to no other.             *)
LEMMA OneItem ==
    ASSUME TypeOK, NEW j \in Jobs, NEW k \in Items, NEW s \in ItemState,
           item' = [item EXCEPT ![j][k] = s]
    PROVE  /\ \A q \in Jobs : q # j => \A t \in ItemState : At(q, t)' = At(q, t)
           /\ At(j, s)' = At(j, s) \cup {k}
           /\ \A t \in ItemState : t # s => At(j, t)' = At(j, t) \ {k}
BY DEF TypeOK, At

(* Every action keeps the count of the awaited receipts.                    *)
LEMMA ProgressStep ==
    TypeOK /\ PhaseInv /\ ProgressIsTrue /\ [Next]_vars => ProgressIsTrue'
<1> SUFFICES ASSUME TypeOK, PhaseInv, ProgressIsTrue, [Next]_vars
             PROVE  ProgressIsTrue'
  OBVIOUS
<1> USE DEF ProgressIsTrue, rowVars, taskVars
<1>1. ASSUME UNCHANGED <<item, processed>> PROVE ProgressIsTrue'
  BY <1>1, AtUnchanged
<1>2. ASSUME NEW j \in Jobs, StartTask(j) PROVE ProgressIsTrue'
  <2>1. At(j, "counted") = {}
    BY <1>2 DEF StartTask, PhaseInv, At
  <2>2. At(j, "counted")' = {}
    BY <2>1, <1>2, AtUnchanged DEF StartTask
  <2> QED BY <1>2, <2>2, AtUnchanged, NobodyCounted DEF StartTask, TypeOK
<1>3. ASSUME NEW j \in Jobs, NEW k \in Items, NEW s \in ItemState \ {"counted"},
             item[j][k] # "counted", item' = [item EXCEPT ![j][k] = s],
             UNCHANGED processed
      PROVE  ProgressIsTrue'
  <2>1. \A q \in Jobs : At(q, "counted")' = At(q, "counted")
    BY <1>3, OneItem DEF At
  <2> QED BY <1>3, <2>1
<1>4. ASSUME NEW j \in Jobs, NEW k \in Items, CountItem(j, k) PROVE ProgressIsTrue'
  <2>1. At(j, "counted")' = At(j, "counted") \cup {k}
    BY <1>4, OneItem DEF CountItem
  <2>2. \A q \in Jobs : q # j => At(q, "counted")' = At(q, "counted")
    BY <1>4, OneItem DEF CountItem
  <2>3. k \notin At(j, "counted") /\ At(j, "counted") \in SUBSET Items
    BY <1>4 DEF CountItem, At
  <2>4. Cardinality(At(j, "counted")') = Cardinality(At(j, "counted")) + 1
    BY <2>1, <2>3, CountOneMore
  <2>5. processed' = [processed EXCEPT ![j] = @ + 1]
    BY <1>4 DEF CountItem
  <2> QED BY <2>2, <2>4, <2>5 DEF TypeOK
<1>5. ASSUME NEW j \in Jobs, TaskStep(j) PROVE ProgressIsTrue'
  <2>1. ASSUME NEW k \in Items, StartItem(j, k) \/ EndItem(j, k) \/ StopItem(j, k)
        PROVE  ProgressIsTrue'
    BY <2>1, <1>3 DEF StartItem, EndItem, StopItem
  <2>2. CASE LoseTask(j)
    <3>1. \A q \in Jobs : At(q, "counted")' = At(q, "counted")
      BY <2>2 DEF LoseTask, Remains, At, TypeOK
    <3> QED BY <2>2, <3>1 DEF LoseTask
  <2> QED
    BY <1>5, <1>1, <1>2, <1>4, <2>1, <2>2
    DEF TaskStep, AwaitRaised, TimeOut, LeaveLoop, Publish, PublishRaises, RecordFailure
<1>6. ASSUME NEW i \in Instances, Crash(i) PROVE ProgressIsTrue'
  <2>1. \A q \in Jobs : At(q, "counted")' = At(q, "counted")
    BY <1>6 DEF Crash, OwnedAlive, Remains, At, TypeOK
  <2> QED BY <1>6, <2>1 DEF Crash
<1> QED
  BY <1>1, <1>5, <1>6 DEF Next, Accept, Poll, Start, vars

(* Only Publish fills a result, and only Publish completes a job.           *)
LEMMA ResultStep == Indexed /\ [Next]_vars => ResultIsWhole'
<1> SUFFICES ASSUME Indexed, [Next]_vars PROVE ResultIsWhole'
  OBVIOUS
<1> USE DEF Indexed, TypeOK, ResultIsWhole, rowVars, taskVars
<1>1. ASSUME UNCHANGED <<status, processed, result>> PROVE ResultIsWhole'
  BY <1>1
<1>2. ASSUME NEW j \in Jobs, NEW i \in Instances, Accept(j, i) PROVE ResultIsWhole'
  BY <1>2 DEF Accept
<1>3. ASSUME NEW j \in Jobs, TaskStep(j) PROVE ResultIsWhole'
  <2>1. CASE StartTask(j)
    <3>1. status[j] # "completed"
      BY <2>1 DEF StartTask, PhaseInv
    <3> QED BY <2>1, <3>1 DEF StartTask
  <2>2. ASSUME NEW k \in Items, CountItem(j, k) PROVE ResultIsWhole'
    <3>1. status[j] # "completed"
      BY <2>2 DEF CountItem, PhaseInv
    <3> QED BY <2>2, <3>1 DEF CountItem
  <2>3. CASE Publish(j)
    <3>1. At(j, "counted") = Items
      BY <2>3 DEF Publish, PhaseInv
    <3>2. processed[j] = Cardinality(Items)
      BY <3>1 DEF ProgressIsTrue
    <3> QED BY <2>3, <3>1, <3>2 DEF Publish
  <2>4. CASE RecordFailure(j)
    <3>1. status[j] # "completed"
      BY <2>4 DEF RecordFailure, PhaseInv
    <3> QED BY <2>4, <3>1 DEF RecordFailure
  <2> QED
    BY <1>1, <1>3, <2>1, <2>2, <2>3, <2>4
    DEF TaskStep, StartItem, EndItem, AwaitRaised, StopItem, TimeOut, LeaveLoop, PublishRaises,
        LoseTask
<1>4. ASSUME NEW i \in Instances, Start(i) PROVE ResultIsWhole'
  BY <1>4 DEF Start, Swept
<1> QED BY <1>1, <1>2, <1>3, <1>4 DEF Next, Poll, Crash, vars

(* A task ends only when its items did: by reading them all, by waiting for *)
(* those it cancelled, or with its process.                                 *)
LEMMA SurvivorStep == Indexed /\ [Next]_vars => NoSurvivors'
<1> SUFFICES ASSUME Indexed, [Next]_vars PROVE NoSurvivors'
  OBVIOUS
<1> USE DEF Indexed, TypeOK, NoSurvivors, rowVars, taskVars
<1>1. ASSUME UNCHANGED <<phase, item>> PROVE NoSurvivors'
  BY <1>1, AtUnchanged
<1>2. ASSUME NEW j \in Jobs, NEW i \in Instances, Accept(j, i) PROVE NoSurvivors'
  BY <1>2, AtUnchanged DEF Accept
<1>3. ASSUME NEW j \in Jobs, TaskStep(j) PROVE NoSurvivors'
  <2>1. ASSUME NEW k \in Items, NEW s \in ItemState, item' = [item EXCEPT ![j][k] = s],
               phase[j] \notin {"over", "gone"}, UNCHANGED phase
        PROVE  NoSurvivors'
    <3>1. \A q \in Jobs : q # j => \A t \in ItemState : At(q, t)' = At(q, t)
      BY <2>1, OneItem
    <3>2. \A q \in Jobs : phase'[q] \in {"over", "gone"} => q # j /\ phase[q] \in {"over", "gone"}
      BY <2>1
    <3> QED BY <3>1, <3>2
  <2>2. ASSUME NEW k \in Items, StartItem(j, k) \/ EndItem(j, k) \/ CountItem(j, k) \/ StopItem(j, k)
        PROVE  NoSurvivors'
    BY <2>2, <2>1 DEF StartItem, EndItem, CountItem, StopItem
  <2>3. CASE Publish(j)
    <3>1. At(j, "counted") = Items
      BY <2>3 DEF Publish, PhaseInv
    <3>2. At(j, "waiting") \cup At(j, "reading") = {}
      BY <3>1 DEF At
    <3> QED BY <2>3, <3>2, AtUnchanged DEF Publish
  <2>4. CASE RecordFailure(j)
    BY <2>4, AtUnchanged DEF RecordFailure
  <2>5. CASE StartTask(j) \/ LeaveLoop(j) \/ TimeOut(j) \/ PublishRaises(j)
    BY <2>5, AtUnchanged DEF StartTask, LeaveLoop, TimeOut, PublishRaises
  <2>6. CASE LoseTask(j)
    <3>1. At(j, "waiting")' \cup At(j, "reading")' = {}
      BY <2>6 DEF LoseTask, Remains, At
    <3>2. \A q \in Jobs : q # j => \A t \in ItemState : At(q, t)' = At(q, t)
      BY <2>6 DEF LoseTask, At
    <3> QED BY <2>6, <3>1, <3>2 DEF LoseTask
  <2> QED BY <1>3, <2>2, <2>3, <2>4, <2>5, <2>6 DEF TaskStep, AwaitRaised
<1>4. ASSUME NEW i \in Instances, Crash(i) PROVE NoSurvivors'
  <2>1. ASSUME NEW q \in Jobs, q \in OwnedAlive(i)
        PROVE  At(q, "waiting")' \cup At(q, "reading")' = {}
    BY <1>4, <2>1 DEF Crash, Remains, At
  <2>2. ASSUME NEW q \in Jobs, q \notin OwnedAlive(i)
        PROVE  phase'[q] = phase[q] /\ At(q, "waiting")' = At(q, "waiting")
               /\ At(q, "reading")' = At(q, "reading")
    BY <1>4, <2>2 DEF Crash, At
  <2> QED BY <2>1, <2>2
<1> QED BY <1>1, <1>2, <1>3, <1>4 DEF Next, Poll, Start, vars

(* The inductive invariant, established and kept.                           *)
THEOREM IndexedAlways == Spec => []Indexed
<1>1. Init => Indexed
  <2> SUFFICES ASSUME Init PROVE Indexed
    OBVIOUS
  <2>1. TypeOK
    BY CrashesAssumption DEF Init, TypeOK
  <2>2. \A j \in Jobs : At(j, "waiting") = Items /\ At(j, "counted") = {}
    BY DEF Init, At
  <2>3. PhaseInv
    BY <2>2 DEF Init, PhaseInv
  <2>4. ProgressIsTrue
    BY <2>2, NobodyCounted DEF Init, ProgressIsTrue
  <2>5. ResultIsWhole /\ NoSurvivors
    BY DEF Init, ResultIsWhole, NoSurvivors
  <2> QED BY <2>1, <2>3, <2>4, <2>5 DEF Indexed
<1>2. Indexed /\ [Next]_vars => Indexed'
  BY TypeStep, PhaseStep, ProgressStep, ResultStep, SurvivorStep DEF Indexed
<1> QED BY <1>1, <1>2, PTL DEF Spec

(* UploadJobs.ResultIsWhole: COMPLETED is always the whole upload, even when *)
(* a second instance sweeps a job that is still being read.                 *)
THEOREM WholeResults == Spec => []ResultIsWhole
<1>1. Indexed => ResultIsWhole
  BY DEF Indexed
<1> QED BY <1>1, IndexedAlways, PTL

(* UploadJobs.NoSurvivors: no reading outlives the task it belongs to.      *)
THEOREM NoReadingSurvives == Spec => []NoSurvivors
<1>1. Indexed => NoSurvivors
  BY DEF Indexed
<1> QED BY <1>1, IndexedAlways, PTL

(* A task that is alive has an unfinished row, but where a starting         *)
(* instance failed it: no other row is moved again after its client was     *)
(* told an end.                                                             *)
Overturned ==
    /\ \A j \in Jobs : phase[j] \in Alive => status[j] \in Unfinished \/ j \in overtaken
    /\ ToldIsTrue

LEMMA OverturnedStep == Indexed /\ Overturned /\ [Next]_vars => Overturned'
<1> SUFFICES ASSUME Indexed, Overturned, [Next]_vars PROVE Overturned'
  OBVIOUS
<1> USE DEF Indexed, TypeOK, PhaseInv, Overturned, ToldIsTrue, rowVars, taskVars
<1>1. ASSUME UNCHANGED <<status, phase, told, overtaken>> PROVE Overturned'
  BY <1>1
<1>2. ASSUME NEW j \in Jobs, NEW i \in Instances, Accept(j, i) PROVE Overturned'
  BY <1>2 DEF Accept
<1>3. ASSUME NEW j \in Jobs, Poll(j) PROVE Overturned'
  BY <1>3 DEF Poll
<1>4. ASSUME NEW j \in Jobs, TaskStep(j) PROVE Overturned'
  <2>1. ASSUME NEW s \in Status, phase[j] \in Alive, status' = [status EXCEPT ![j] = s],
               UNCHANGED <<told, overtaken>>
        PROVE  ToldIsTrue'
    <3>1. told[j] # "nothing" => told[j] = "failed" /\ j \in overtaken
      BY <2>1
    <3> QED BY <2>1, <3>1
  <2>2. CASE StartTask(j)
    BY <2>1, <2>2 DEF StartTask
  <2>3. CASE LeaveLoop(j) \/ TimeOut(j) \/ PublishRaises(j)
    BY <2>3 DEF LeaveLoop, TimeOut, PublishRaises
  <2>4. CASE Publish(j)
    BY <2>1, <2>4 DEF Publish
  <2>5. CASE RecordFailure(j)
    BY <2>1, <2>5 DEF RecordFailure
  <2>6. CASE LoseTask(j)
    BY <2>6 DEF LoseTask
  <2> QED
    BY <1>1, <1>4, <2>2, <2>3, <2>4, <2>5, <2>6
    DEF TaskStep, StartItem, EndItem, CountItem, AwaitRaised, StopItem
<1>5. ASSUME NEW i \in Instances, Crash(i) PROVE Overturned'
  BY <1>5 DEF Crash, OwnedAlive
<1>6. ASSUME NEW i \in Instances, Start(i) PROVE Overturned'
  <2>1. \A j \in Swept : told[j] # "nothing" => told[j] = "failed" /\ j \in overtaken
    BY DEF Swept
  <2> QED BY <1>6, <2>1 DEF Start, Swept
<1> QED BY <1>1, <1>2, <1>3, <1>4, <1>5, <1>6 DEF Next, vars

(* UploadJobs.ToldIsTrue, for any number of instances: an announced end is  *)
(* overturned only where it was the failure a starting instance gave a job  *)
(* that another one was still reading.                                      *)
THEOREM ToldStands == Spec => []ToldIsTrue
<1>1. Init => Overturned
  BY DEF Init, Overturned, ToldIsTrue
<1>2. Overturned => ToldIsTrue
  BY DEF Overturned
<1> QED BY <1>1, <1>2, OverturnedStep, IndexedAlways, PTL DEF Spec

(***************************************************************************)
(* With one instance                                                       *)
(***************************************************************************)

(* A living task's row is unfinished, and what was told is the row's        *)
(* status.  It is what a sweep by a second instance breaks.                 *)
Settled ==
    /\ \A j \in Jobs : phase[j] \in Alive => status[j] \in Unfinished
    /\ \A j \in Jobs : told[j] # "nothing" => status[j] = told[j]

LEMMA SettledStep ==
    ASSUME NEW only, Instances = {only}
    PROVE  Indexed /\ Settled /\ [Next]_vars => Settled'
<1> SUFFICES ASSUME Indexed, Settled, [Next]_vars PROVE Settled'
  OBVIOUS
<1> USE DEF Indexed, TypeOK, PhaseInv, Settled, rowVars, taskVars
<1>1. ASSUME UNCHANGED <<status, phase, told>> PROVE Settled'
  BY <1>1
<1>2. ASSUME NEW j \in Jobs, NEW i \in Instances, Accept(j, i) PROVE Settled'
  BY <1>2 DEF Accept
<1>3. ASSUME NEW j \in Jobs, Poll(j) PROVE Settled'
  BY <1>3 DEF Poll
<1>4. ASSUME NEW j \in Jobs, TaskStep(j) PROVE Settled'
  <2>1. CASE StartTask(j)
    BY <2>1 DEF StartTask
  <2>2. CASE LeaveLoop(j) \/ TimeOut(j) \/ PublishRaises(j)
    BY <2>2 DEF LeaveLoop, TimeOut, PublishRaises
  <2>3. CASE Publish(j)
    BY <2>3 DEF Publish
  <2>4. CASE RecordFailure(j)
    BY <2>4 DEF RecordFailure
  <2>5. CASE LoseTask(j)
    BY <2>5 DEF LoseTask
  <2> QED
    BY <1>1, <1>4, <2>1, <2>2, <2>3, <2>4, <2>5
    DEF TaskStep, StartItem, EndItem, CountItem, AwaitRaised, StopItem
<1>5. ASSUME NEW i \in Instances, Crash(i) PROVE Settled'
  BY <1>5 DEF Crash, OwnedAlive
<1>6. ASSUME NEW i \in Instances, Start(i) PROVE Settled'
  <2>1. \A j \in Jobs : phase[j] \notin Alive
    BY <1>6 DEF Start
  <2> QED BY <1>6, <2>1 DEF Start, Swept
<1> QED BY <1>1, <1>2, <1>3, <1>4, <1>5, <1>6 DEF Next, vars

(***************************************************************************)
(* The abstract specification                                              *)
(***************************************************************************)

(* Every behaviour of one instance is one life per job, as JobPromise says: *)
(* the safety part of UploadJobs.KeepsPromise.                              *)
THEOREM ImplementsPromise ==
    ASSUME NEW CONSTANT only, Instances = {only}
    PROVE  Spec => Promise!PInit /\ [][Promise!PNext]_(Promise!pvars)
<1> USE DEF Promise!pvars, Promise!PNext, Promise!Open, Promise!End, Promise!Tell, Outcome
<1>1. Init => Promise!PInit
  BY DEF Init, Promise!PInit
<1>2. Indexed /\ Settled /\ [Next]_vars => [Promise!PNext]_(Promise!pvars)
  <2> SUFFICES ASSUME Indexed, Settled, [Next]_vars
               PROVE  [Promise!PNext]_(Promise!pvars)
    OBVIOUS
  <2> USE DEF Indexed, TypeOK, PhaseInv, Settled, rowVars, taskVars
  <2>1. ASSUME NEW j \in Jobs, NEW i \in Instances, Accept(j, i) PROVE Promise!Open(j)
    <3>1. Outcome[j] = "none" /\ UNCHANGED told
      BY <2>1 DEF Accept
    <3>2. Outcome' = [Outcome EXCEPT ![j] = "open"]
      BY <2>1 DEF Accept, Final
    <3> QED BY <3>1, <3>2
  <2>2. ASSUME NEW j \in Jobs, Poll(j) PROVE Promise!Tell(j)
    BY <2>2 DEF Poll
  <2>3. ASSUME NEW j \in Jobs, TaskStep(j)
        PROVE  Promise!End({j}) \/ UNCHANGED Promise!pvars
    <3>1. ASSUME NEW end \in Final, status' = [status EXCEPT ![j] = end],
                 phase[j] \in Alive, UNCHANGED told
          PROVE  Promise!End({j})
      <4>1. Outcome[j] = "open"
        BY <3>1
      <4>2. Outcome' = [q \in Jobs |-> IF q \in {j} THEN end ELSE Outcome[q]]
        BY <3>1
      <4> QED BY <3>1, <4>1, <4>2
    <3>4. CASE Publish(j) \/ RecordFailure(j)
      <4>1. phase[j] \in Alive /\ UNCHANGED told
        BY <3>4 DEF Publish, RecordFailure
      <4>2. \E end \in Final : status' = [status EXCEPT ![j] = end]
        BY <3>4 DEF Publish, RecordFailure
      <4> QED BY <3>1, <4>1, <4>2
    <3>2. CASE StartTask(j)
      BY <3>2 DEF StartTask
    <3>3. CASE UNCHANGED <<status, told>>
      BY <3>3
    <3> QED
      BY <2>3, <3>4, <3>2, <3>3
      DEF TaskStep, StartItem, EndItem, CountItem, AwaitRaised, StopItem, LeaveLoop,
          TimeOut, PublishRaises, LoseTask
  <2>4. ASSUME NEW i \in Instances, Crash(i) PROVE UNCHANGED Promise!pvars
    BY <2>4 DEF Crash
  <2>5. ASSUME NEW i \in Instances, Start(i)
        PROVE  Promise!End(Swept) \/ UNCHANGED Promise!pvars
    <3>1. CASE Swept = {}
      BY <2>5, <3>1 DEF Start, Swept
    <3>2. CASE Swept # {}
      <4>1. \A j \in Swept : Outcome[j] = "open"
        BY DEF Swept
      <4>2. ASSUME NEW j \in Jobs
            PROVE  Outcome'[j] = IF j \in Swept THEN "failed" ELSE Outcome[j]
        <5>1. CASE j \in Swept
          BY <2>5, <5>1 DEF Start
        <5>2. CASE j \notin Swept
          BY <2>5, <5>2 DEF Start
        <5> QED BY <5>1, <5>2
      <4>4. Outcome' = [j \in Jobs |-> IF j \in Swept THEN "failed" ELSE Outcome[j]]
        BY <4>2
      <4>3. UNCHANGED told
        BY <2>5 DEF Start
      <4>5. Swept \in SUBSET Jobs
        BY DEF Swept
      <4> HIDE DEF Outcome
      <4> QED BY <3>2, <4>1, <4>4, <4>3, <4>5
    <3> QED BY <3>1, <3>2
  <2>6. CASE UNCHANGED vars
    BY <2>6 DEF vars
  <2>7. Swept \in SUBSET Jobs
    BY DEF Swept
  <2>8. \A j \in Jobs : {j} \in SUBSET Jobs
    OBVIOUS
  <2> HIDE DEF Promise!pvars, Promise!Open, Promise!End, Promise!Tell, Outcome, Indexed, Settled
  <2> QED BY <2>1, <2>2, <2>3, <2>4, <2>5, <2>6, <2>7, <2>8 DEF Next
<1>3. Init => Settled
  BY DEF Init, Settled
<1>4. Indexed /\ Settled /\ [Next]_vars => Settled'
  BY SettledStep
<1> QED BY <1>1, <1>2, <1>3, <1>4, IndexedAlways, PTL DEF Spec

=============================================================================
