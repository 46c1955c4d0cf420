------------------------------- MODULE Wizard -------------------------------
(***************************************************************************)
(* The upload wizard (api/routers/receipts.py) from the photos that the    *)
(* reading stores, as they go into its row, to the deletion of a stored    *)
(* receipt.  Every edit of the wizard reads the whole result_data of the   *)
(* job and writes the whole of it back; the commit looks up each receipt   *)
(* before it stores those it kept.  A request's awaits are where another   *)
(* request's steps come between.                                           *)
(***************************************************************************)
EXTENDS Receipts

CONSTANTS
    Requests,    \* requests the user's tabs and retries have open at once
    Edits,       \* the kinds of edits made: \subseteq {"answer", "settle", "line"}
    Nothing,     \* no result_data; the copy of a request that holds none
    MaxCommits   \* bound: commits that store receipts

ASSUME EditsAssumption == Edits \subseteq {"answer", "settle", "line"}
ASSUME NothingAssumption == Nothing \notin Jobs

VARIABLES
    status,    \* upload_jobs.status of each job
    readings,  \* upload_jobs.result_data
    named,     \* the jobs whose upload_jobs.file_ids still name their photos
    running,   \* the jobs whose background task lives
    stage,     \* what each request is doing
    job,       \* the job it does it to
    copy,      \* the readings it read, or the ones it will write
    todo,      \* the indices its commit has still to look up
    kept,      \* the indices its commit will store
    since,     \* how many commits had stored receipts when it began
    victim,    \* the receipt it deletes
    stale,     \* history: requests whose copy another has replaced or discarded
    refused,   \* history: receipts whose "skip" was answered with success
    erased,    \* history: receipts whose deletion was answered, and no photo failed to go
    strayed,   \* history: photos that failed to go, which the log says
    overwritten,  \* history: jobs a stale copy was written back to, or stored from
    unwound    \* history: photos erased by a transaction that was rolled back

jobVars == <<status, readings, named, running>>
requestVars == <<stage, job, copy, todo, kept, since, victim, stale>>
history == <<refused, erased, strayed, overwritten, unwound>>
wizardVars == <<jobVars, requestVars, history>>

(* One extraction: is_duplicate, duplicate_resolved, is_skipped and         *)
(* already_stored; whether something else still blocks storing it -- a      *)
(* failed parse, a doubtful total, an open position match; and whether it   *)
(* still carries its file_ids.                                              *)
Reading == [asked : BOOLEAN, answer : {"none", "stored", "skipped"}, skipped : BOOLEAN,
            already : BOOLEAN, doubtful : BOOLEAN, pictured : BOOLEAN]

Stage == {"idle", "editing", "storing", "deleting", "erasing", "erased", "unerased"}
Readings == [Indices -> Reading]

WizardTypeOK ==
    /\ status \in [Jobs -> {"reading", "failed", "completed", "stored"}]
    /\ readings \in [Jobs -> Readings \cup {Nothing}]
    /\ named \subseteq Jobs
    /\ running \subseteq Jobs
    /\ stage \in [Requests -> Stage]
    /\ job \in [Requests -> Jobs \cup {Nothing}]
    /\ copy \in [Requests -> Readings \cup {Nothing}]
    /\ todo \in [Requests -> SUBSET Indices]
    /\ kept \in [Requests -> SUBSET Indices]
    /\ since \in [Requests -> Nat]
    /\ victim \in [Requests -> Receipt \cup {Nothing}]
    /\ stale \subseteq Requests
    /\ refused \subseteq Extractions
    /\ erased \subseteq Sources
    /\ strayed \subseteq Photos
    /\ overwritten \subseteq Jobs
    /\ unwound \subseteq Photos \cup {NoPhoto}

WizardInit ==
    /\ status = [j \in Jobs |-> "reading"]
    /\ readings = [j \in Jobs |-> Nothing]
    /\ named = {}
    /\ running = Jobs
    /\ stage = [q \in Requests |-> "idle"]
    /\ job = [q \in Requests |-> Nothing]
    /\ copy = [q \in Requests |-> Nothing]
    /\ todo = [q \in Requests |-> {}]
    /\ kept = [q \in Requests |-> {}]
    /\ since = [q \in Requests |-> 0]
    /\ victim = [q \in Requests |-> Nothing]
    /\ stale = {}
    /\ refused = {}
    /\ erased = {}
    /\ strayed = {}
    /\ overwritten = {}
    /\ unwound = {}

(* Mutated LeftOut: the answer to the question is not looked at.            *)
LeftOutUnlessAnswered(x) == x.already \/ x.skipped

(* Mutated LeftOut: a skip is not looked at either.                         *)
LeftOutIfAlready(x) == x.already

(* is_left_out: the wizard must not store it, whatever was selected.        *)
LeftOut(x) == x.already \/ x.skipped \/ x.answer = "skipped"

(* An edit or a commit works on the readings it read when it began.         *)
Working(q) == stage[q] \in {"editing", "storing"}

(* The request is over and nothing of it is kept; of the jobs whose         *)
(* result_data it wrote, whoever is at work on one has a stale copy.        *)
Rest(q, written) ==
    /\ stage' = [stage EXCEPT ![q] = "idle"]
    /\ job' = [job EXCEPT ![q] = Nothing]
    /\ copy' = [copy EXCEPT ![q] = Nothing]
    /\ todo' = [todo EXCEPT ![q] = {}]
    /\ kept' = [kept EXCEPT ![q] = {}]
    /\ since' = [since EXCEPT ![q] = 0]
    /\ victim' = [victim EXCEPT ![q] = Nothing]
    /\ stale' = (stale \cup {p \in Requests : Working(p) /\ job[p] \in written}) \ {q}

(* What is written, or stored, from a stale copy ignores what replaced it.  *)
Used(q) == overwritten' = IF q \in stale THEN overwritten \cup {job[q]} ELSE overwritten

(* A deletion holds the rows it has flushed until it commits.               *)
Flushed == {"erasing", "erased", "unerased"}
Clears(q) == {j \in named : victim[q].photo \in {j} \X Indices}
Locked(j) == \E q \in Requests : stage[q] \in Flushed /\ j \in Clears(q)
LockedRow(r) == \E q \in Requests : stage[q] \in Flushed /\ victim[q] = r

(***************************************************************************)
(* The reading (UploadJobs), as far as photos and result_data go           *)
(***************************************************************************)

(* PhotoIngestionAdapter.ingest: the photos of a receipt go into storage    *)
(* before the model reads it, while the row names none of them.             *)
StorePhoto(j, n) ==
    /\ j \in running
    /\ <<j, n>> \notin photos
    /\ photos' = photos \cup {<<j, n>>}
    /\ UNCHANGED <<receipts, commits, carried, jobVars, requestVars, history>>

(* Mutated ReadJob: it does not wait for the photos to be stored.           *)
ReadJobUnstored(j) ==
    /\ j \in running
    /\ \E rs \in Readings :
        /\ \A n \in Indices : /\ rs[n].answer = "none" /\ ~rs[n].skipped /\ rs[n].pictured
                              /\ ~rs[n].already /\ ~rs[n].asked
        /\ readings' = [readings EXCEPT ![j] = rs]
    /\ status' = [status EXCEPT ![j] = "completed"]
    /\ named' = named \cup {j}
    /\ running' = running \ {j}
    /\ UNCHANGED <<sharedVars, requestVars, history>>

(* Every reading has ended: file_ids, result_data and COMPLETED in one      *)
(* commit, over whatever a starting instance made of the row.               *)
(* _mark_duplicates looked each reading up while the job was still being    *)
(* read: what it saw stored since may be missing from the mark.  A likely   *)
(* duplicate is a match of merchant, date and total with a stored receipt.  *)
ReadJob(j) ==
    /\ j \in running
    /\ {j} \X Indices \subseteq photos
    /\ \E rs \in Readings :
        /\ \A n \in Indices :
            /\ rs[n].answer = "none" /\ ~rs[n].skipped /\ rs[n].pictured
            /\ rs[n].already => Identity(<<j, n>>) # Unidentified /\ Stored(Identity(<<j, n>>))
            /\ rs[n].asked => receipts # {} /\ ~rs[n].already
        /\ readings' = [readings EXCEPT ![j] = rs]
    /\ status' = [status EXCEPT ![j] = "completed"]
    /\ named' = named \cup {j}
    /\ running' = running \ {j}
    /\ UNCHANGED <<sharedVars, requestVars, history>>

(* A reading raised, or the time ran out: FAILED, with file_ids unset and   *)
(* the photos stored so far in nobody's hands.                              *)
FailJob(j) ==
    /\ j \in running
    /\ status' = [status EXCEPT ![j] = "failed"]
    /\ running' = running \ {j}
    /\ UNCHANGED <<sharedVars, readings, named, requestVars, history>>

(* The task goes with its process, or its last commit is refused.           *)
LoseJob(j) ==
    /\ j \in running
    /\ running' = running \ {j}
    /\ UNCHANGED <<sharedVars, status, readings, named, requestVars, history>>

(* An instance starts and fails every unfinished row, also one whose task   *)
(* lives on another instance.                                               *)
SweepJobs ==
    /\ \E j \in Jobs : status[j] = "reading"
    /\ status' = [j \in Jobs |-> IF status[j] = "reading" THEN "failed" ELSE status[j]]
    /\ UNCHANGED <<sharedVars, readings, named, running, requestVars, history>>

(* The jobs whose row has been given the names of its photos.               *)
Read == {j \in Jobs : status[j] \in {"completed", "stored"}}

(***************************************************************************)
(* The edits                                                               *)
(***************************************************************************)

(* resolve_duplicate: only what is still asked can be answered.             *)
Answered(x) ==
    IF x.asked
    THEN {[x EXCEPT !.asked = FALSE, !.answer = "stored"],
          [x EXCEPT !.asked = FALSE, !.answer = "skipped", !.skipped = TRUE]}
    ELSE {}

(* resolve_total, resolve_date, resolve_position_match: what still blocks   *)
(* storing is worked out again, the rest of the reading is kept.            *)
Settled(x) == {[x EXCEPT !.doubtful = b] : b \in BOOLEAN}

(* edit_line_item, undo_extracted_correction and add_discount end in        *)
(* _recheck, which round-trips the reading through ExtractedReceipt and     *)
(* puts back only some of the fields that schema does not have.             *)
Rechecked(x) ==
    {[x EXCEPT !.doubtful = b, !.skipped = FALSE, !.already = FALSE, !.pictured = FALSE] :
        b \in BOOLEAN}

Edited(x) ==
    {y \in Answered(x) : "answer" \in Edits} \cup {y \in Settled(x) : "settle" \in Edits}
        \cup {y \in Rechecked(x) : "line" \in Edits}

BeginEdit(q, j) ==
    /\ stage[q] = "idle"
    /\ readings[j] # Nothing
    /\ \E n \in Indices : \E x \in Edited(readings[j][n]) :
        copy' = [copy EXCEPT ![q] = [readings[j] EXCEPT ![n] = x]]
    /\ stage' = [stage EXCEPT ![q] = "editing"]
    /\ job' = [job EXCEPT ![q] = j]
    /\ UNCHANGED <<sharedVars, jobVars, todo, kept, since, victim, stale, history>>

(* flag_modified and commit: the whole column is written.                   *)
FinishEdit(q) ==
    /\ stage[q] = "editing"
    /\ ~Locked(job[q])
    /\ readings' = [readings EXCEPT ![job[q]] = copy[q]]
    /\ refused' = refused \cup
                      {<<job[q], n>> : n \in {m \in Indices : copy[q][m].answer = "skipped"}}
    /\ Used(q)
    /\ Rest(q, {job[q]})
    /\ UNCHANGED <<sharedVars, status, named, running, erased, strayed, unwound>>

(***************************************************************************)
(* The commit                                                              *)
(***************************************************************************)

(* The gates are checked for everything selected that is not left out.  The *)
(* job's status is not among them.                                          *)
BeginStore(q, j) ==
    /\ stage[q] = "idle"
    /\ commits < MaxCommits
    /\ readings[j] # Nothing
    /\ \E chosen \in SUBSET Indices \ {{}} :
        LET wanted == {n \in chosen : ~LeftOut(readings[j][n])}
        IN  /\ \A n \in wanted : ~readings[j][n].doubtful /\ ~readings[j][n].asked
            /\ todo' = [todo EXCEPT ![q] = wanted]
    /\ stage' = [stage EXCEPT ![q] = "storing"]
    /\ job' = [job EXCEPT ![q] = j]
    /\ copy' = [copy EXCEPT ![q] = readings[j]]
    /\ since' = [since EXCEPT ![q] = commits]
    /\ UNCHANGED <<sharedVars, jobVars, kept, victim, stale, history>>

(* Mutated LookUp: only the table is asked, or only the request's own.      *)
LookUpTable(q) ==
    /\ stage[q] = "storing"
    /\ \E n \in todo[q] :
        /\ \A m \in todo[q] : n <= m
        /\ LET identity == Identity(<<job[q], n>>)
           IN  kept' = [kept EXCEPT ![q] = IF identity # Unidentified /\ Stored(identity)
                                           THEN @ ELSE @ \cup {n}]
        /\ todo' = [todo EXCEPT ![q] = @ \ {n}]
    /\ UNCHANGED <<sharedVars, jobVars, stage, job, copy, since, victim, stale, history>>
LookUpOwn(q) ==
    /\ stage[q] = "storing"
    /\ \E n \in todo[q] :
        /\ \A m \in todo[q] : n <= m
        /\ LET identity == Identity(<<job[q], n>>)
               known == \E m \in kept[q] : Identity(<<job[q], m>>) = identity
           IN  kept' = [kept EXCEPT ![q] = IF identity # Unidentified /\ known
                                           THEN @ ELSE @ \cup {n}]
        /\ todo' = [todo EXCEPT ![q] = @ \ {n}]
    /\ UNCHANGED <<sharedVars, jobVars, stage, job, copy, since, victim, stale, history>>

(* One turn of the loop, in the order of the extractions.                   *)
LookUp(q) ==
    /\ stage[q] = "storing"
    /\ \E n \in todo[q] :
        /\ \A m \in todo[q] : n <= m
        /\ LET identity == Identity(<<job[q], n>>)
               known == \/ Stored(identity)
                        \/ \E m \in kept[q] : Identity(<<job[q], m>>) = identity
           IN  kept' = [kept EXCEPT ![q] = IF identity # Unidentified /\ known
                                           THEN @ ELSE @ \cup {n}]
        /\ todo' = [todo EXCEPT ![q] = @ \ {n}]
    /\ UNCHANGED <<sharedVars, jobVars, stage, job, copy, since, victim, stale, history>>

(* Mutated CommitStore: a status the column does not have.                  *)
CommitStoreAsDone(q) ==
    /\ stage[q] = "storing"
    /\ todo[q] = {}
    /\ status' = [status EXCEPT ![job[q]] = "done"]
    /\ Rest(q, {})
    /\ UNCHANGED <<sharedVars, readings, named, running, history>>

(* create_from_extraction: the photos are the file_ids the reading carries. *)
Row(q, n) == [source   |-> <<job[q], n>>,
              identity |-> Identity(<<job[q], n>>),
              photo    |-> IF copy[q][n].pictured THEN <<job[q], n>> ELSE NoPhoto,
              commit   |-> commits + 1,
              began    |-> since[q]]

CommitStore(q) ==
    /\ stage[q] = "storing"
    /\ todo[q] = {}
    /\ status[job[q]] = "stored" \/ ~Locked(job[q])
    /\ Store({Row(q, n) : n \in kept[q]})
    /\ status' = [status EXCEPT ![job[q]] = "stored"]
    /\ Used(q)
    /\ Rest(q, {})
    /\ UNCHANGED <<photos, readings, named, running, refused, erased, strayed, unwound>>

(***************************************************************************)
(* The deletion of a stored receipt                                        *)
(***************************************************************************)

BeginDelete(q, r) ==
    /\ stage[q] = "idle"
    /\ stage' = [stage EXCEPT ![q] = "deleting"]
    /\ victim' = [victim EXCEPT ![q] = r]
    /\ UNCHANGED <<sharedVars, jobVars, job, copy, todo, kept, since, stale, history>>

(* The row is deleted and the payload of the jobs that name its photos is   *)
(* discarded, flushed but not committed.  A row another deletion has taken  *)
(* meanwhile is no error: nothing is deleted and the rest is done again.    *)
FlushDelete(q) ==
    /\ stage[q] = "deleting"
    /\ ~LockedRow(victim[q])
    /\ \A j \in Clears(q) : ~Locked(j)
    /\ stage' = [stage EXCEPT ![q] = "erasing"]
    /\ UNCHANGED <<sharedVars, jobVars, job, copy, todo, kept, since, victim, stale, history>>

(* Mutated Erase: the photos are left for a sweep there is not.             *)
EraseLater(q) ==
    /\ stage[q] = "erasing"
    /\ stage' = [stage EXCEPT ![q] = "erased"]
    /\ UNCHANGED <<sharedVars, jobVars, job, copy, todo, kept, since, victim, stale, history>>

(* The photos go while the transaction is open; one that fails to is        *)
(* logged and left.                                                         *)
Erase(q) ==
    /\ stage[q] = "erasing"
    /\ \/ /\ photos' = photos \ {victim[q].photo}
          /\ stage' = [stage EXCEPT ![q] = "erased"]
       \/ /\ victim[q].photo # NoPhoto
          /\ stage' = [stage EXCEPT ![q] = "unerased"]
          /\ UNCHANGED photos
    /\ UNCHANGED <<receipts, commits, carried, jobVars, job, copy, todo, kept, since, victim, stale, history>>

(* Mutated CommitDelete: the jobs' payload stays.                           *)
CommitDeleteOnly(q) ==
    /\ stage[q] \in {"erased", "unerased"}
    /\ receipts' = receipts \ {victim[q]}
    /\ erased' = IF stage[q] = "erased" THEN erased \cup {victim[q].source} ELSE erased
    /\ strayed' = IF stage[q] = "unerased" THEN strayed \cup {victim[q].photo} ELSE strayed
    /\ Rest(q, {})
    /\ UNCHANGED <<photos, commits, carried, jobVars, refused, overwritten, unwound>>

CommitDelete(q) ==
    /\ stage[q] \in {"erased", "unerased"}
    /\ receipts' = receipts \ {victim[q]}
    /\ readings' = [j \in Jobs |-> IF j \in Clears(q) THEN Nothing ELSE readings[j]]
    /\ named' = named \ Clears(q)
    /\ erased' = IF stage[q] = "erased" THEN erased \cup {victim[q].source} ELSE erased
    /\ strayed' = IF stage[q] = "unerased" THEN strayed \cup {victim[q].photo} ELSE strayed
    /\ Rest(q, Clears(q))
    /\ UNCHANGED <<photos, commits, carried, status, running, refused, overwritten, unwound>>

(* A rate that cannot be had, a lost connection, a killed instance: nothing *)
(* is written, but a photo that was erased is gone.                         *)
Abort(q) ==
    /\ stage[q] # "idle"
    /\ unwound' = IF stage[q] = "erased" THEN unwound \cup {victim[q].photo} ELSE unwound
    /\ Rest(q, {})
    /\ UNCHANGED <<sharedVars, jobVars, refused, erased, strayed, overwritten>>

RequestStep(q) ==
    \/ \E j \in Jobs : BeginEdit(q, j) \/ BeginStore(q, j)
    \/ \E r \in receipts : BeginDelete(q, r)
    \/ FinishEdit(q)
    \/ LookUp(q)
    \/ CommitStore(q)
    \/ FlushDelete(q)
    \/ Erase(q)
    \/ CommitDelete(q)
    \/ Abort(q)

ReadingStep ==
    \/ \E j \in Jobs : \/ \E n \in Indices : StorePhoto(j, n)
                       \/ ReadJob(j)
                       \/ FailJob(j)
                       \/ LoseJob(j)
    \/ SweepJobs

WizardNext == ReadingStep \/ \E q \in Requests : RequestStep(q)

(***************************************************************************)
(* Properties                                                              *)
(***************************************************************************)

(* A receipt the user skipped as a duplicate is never stored afterwards     *)
(* (domain-model.md, invariant 11c), whatever edits follow the skip, unless *)
(* a request wrote or stored readings that were read before the skip: edits *)
(* replace the whole of result_data, and no version is compared.            *)
SkippedNeverStored ==
    [][\A r \in receipts' \ receipts :
           r.source \in refused => \E j \in overwritten' : r.source \in {j} \X Indices]_receipts

(* Deleting a receipt erases every one of its stored photos (invariant 24). *)
DeletionErases == erased \cap photos = {}

(* Deleting a receipt discards the payload that named its photos, so no     *)
(* screen can ask for an image that is gone (invariant 25), unless an edit  *)
(* wrote back readings that were read before the deletion, or before an     *)
(* edit that took the photos' names from the receipt that was stored.       *)
NoDeadImages ==
    \A j \in Jobs : readings[j] # Nothing =>
        \A n \in Indices :
            readings[j][n].pictured /\ <<j, n>> \in erased => j \in overwritten

(* A stored receipt's photo is in storage (invariant 20f keeps it 90 days), *)
(* except while a deletion is erasing it, after one that erased it was      *)
(* rolled back (services/receipt.py:596-601), or where another row of the   *)
(* same source was deleted.                                                 *)
ReceiptsKeepPhotos ==
    \A r \in receipts :
        \/ r.photo \in photos \cup {NoPhoto} \cup unwound
        \/ r.source \in erased
        \/ \E q \in Requests : stage[q] \in Flushed /\ victim[q].photo = r.photo

=============================================================================
