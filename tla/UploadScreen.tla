---------------------------- MODULE UploadScreen ----------------------------
(***************************************************************************)
(* The upload wizard as the browser keeps it (stores/UploadStore.ts): the  *)
(* chosen photos, the job that is followed, the readings shown, the        *)
(* receipts selected.  One store serves the Add screen, the assistant and  *)
(* the photos other apps share, and every answer of the server writes into *)
(* it whenever it comes: between a request and its answer the user may     *)
(* have gone back, started another upload, or sent a second request.       *)
(***************************************************************************)
EXTENDS Integers, FiniteSets

CONSTANTS
    Uploads,     \* the jobs the server may give out
    Items,       \* the receipts of an upload
    Files,       \* photos, chosen on the screen or shared by another app
    Chats,       \* the photos the assistant may be given, \subseteq Files
    Questions,   \* what a reading may ask: "duplicate", "total", "match"
    Corrections, \* edits that ask nothing: \subseteq {"date", "line", "discount", "undo"}
    Calls,       \* requests about a reading that may be open at once
    Readings,    \* what the server may read in an upload
    None,        \* no job, no reading, no request
    POLL_FAILURES_TOLERATED, \* failed polls in a row before giving up
    MaxEdits,    \* bound: the edits the server makes to one job
    MaxStores    \* bound: the commits of one job that store

ASSUME NoneAssumption == None \notin Uploads
ASSUME PatienceAssumption == POLL_FAILURES_TOLERATED \in Nat \ {0}
ASSUME BoundsAssumption == MaxEdits \in Nat /\ MaxStores \in Nat
ASSUME ChatsAssumption == Chats \subseteq Files
ASSUME KindsAssumption == {"store", "skip", "commit"} \cap (Questions \cup Corrections) = {}

VARIABLES
    job,       \* the server: how far each upload has come
    readings,  \* the server: result_data of each upload
    version,   \* the server: how many edits result_data has had
    stores,    \* the server: how many commits have stored its receipts
    currentStep, uploadState, jobId, isProcessing,
    first,     \* lines[0]: the photos of the first receipt
    further,   \* the photos of lines[1], lines[2], ...
    sharedWaiting,
    extractedData, selectedIndices,
    polls,     \* failed polls in a row of each job that is followed, None if it is not
    calls,     \* the requests about a reading that have not been answered
    added, shared, removed, sent, \* the photos that came, those other apps shared, those the
                                  \* user took out, those uploaded
    crossed    \* what has happened that a patient user would not have done

serverVars == <<job, readings, version, stores>>
formVars == <<first, further, sharedWaiting>>
reviewVars == <<extractedData, selectedIndices>>
stateVars == <<currentStep, uploadState, jobId, isProcessing>>
history == <<added, shared, removed, sent, crossed>>
vars == <<serverVars, stateVars, formVars, reviewVars, polls, calls, history>>

Receipt == [open : SUBSET Questions, out : BOOLEAN, barred : BOOLEAN]
Reading == [Items -> Receipt]
ASSUME ReadingsAssumption == Readings \subseteq Reading
ASSUME FreshAssumption == \A rs \in Readings : \A i \in Items : ~rs[i].out \* the user skips, not the reading
View == [job : Uploads, version : 0..MaxEdits, receipts : Reading]

(* What a request asks, where it is, and what its answer carries.           *)
Kinds == {"store", "skip", "commit"} \cup (Questions \ {"duplicate"}) \cup Corrections
Call == [job : Uploads, kind : Kinds, item : Items \cup {None}, items : SUBSET Items,
         stage : {"sent", "done"}, view : View \cup {None}]
ASSUME NothingAssumption == None \notin Call /\ None \notin 0..POLL_FAILURES_TOLERATED

TypeOK ==
    /\ job \in [Uploads -> {"none", "posting", "reading", "completed", "failed"}]
    /\ readings \in [Uploads -> Reading \cup {None}]
    /\ version \in [Uploads -> 0..MaxEdits]
    /\ stores \in [Uploads -> Nat]
    /\ currentStep \in 1..3
    /\ uploadState \in {"idle", "loading", "success", "error"}
    /\ jobId \in Uploads \cup {None}
    /\ isProcessing \in BOOLEAN
    /\ first \subseteq Files /\ further \subseteq Files /\ sharedWaiting \subseteq Files
    /\ extractedData \in View \cup {None}
    /\ selectedIndices \subseteq Items
    /\ polls \in [Uploads -> 0..POLL_FAILURES_TOLERATED \cup {None}]
    /\ calls \in [Calls -> Call \cup {None}]
    /\ added \subseteq Files /\ shared \subseteq Files /\ removed \subseteq Files /\ sent \subseteq Files
    /\ crossed \subseteq {"begun", "together", "lost", "late", "chat"}

Init ==
    /\ job = [u \in Uploads |-> "none"]
    /\ readings = [u \in Uploads |-> None]
    /\ version = [u \in Uploads |-> 0]
    /\ stores = [u \in Uploads |-> 0]
    /\ currentStep = 1 /\ uploadState = "idle" /\ jobId = None /\ isProcessing = FALSE
    /\ first = {} /\ further = {} /\ sharedWaiting = {}
    /\ extractedData = None /\ selectedIndices = {}
    /\ polls = [u \in Uploads |-> None]
    /\ calls = [c \in Calls |-> None]
    /\ added = {} /\ shared = {} /\ removed = {} /\ sent = {} /\ crossed = {}

(***************************************************************************)
(* What the screen shows (UploadPage.tsx)                                  *)
(***************************************************************************)

Reviewing == currentStep \in {2, 3} /\ uploadState = "success" /\ extractedData # None
Filling == uploadState # "loading" /\ ~Reviewing

Open == {c \in Calls : calls[c] # None}
Posting == {u \in Uploads : job[u] = "posting"}
Followed == {u \in Uploads : polls[u] # None}
Unanswered == Open # {} \/ Posting # {} \/ Followed # {}

(* isCommitting, isAddingDiscount, isUndoingCorrection: set when the request *)
(* is sent, cleared in its finally.                                         *)
Busy(kind) == \E c \in Open : calls[c].kind = kind

receiptsToStore(view, chosen) == {i \in chosen : ~view.receipts[i].out}

(* A selected receipt asks for a decision.                                  *)
Conflicts == {i \in selectedIndices : extractedData.receipts[i].open # {}}

Note(mark, when) == crossed' = IF when THEN crossed \cup {mark} ELSE crossed

(***************************************************************************)
(* The photos                                                              *)
(***************************************************************************)

(* addFilesToLine: photos are chosen on the form, for any of its lines.     *)
Choose(f, line) ==
    /\ Filling
    /\ f \notin added
    /\ IF line = "first"
       THEN first' = first \cup {f} /\ UNCHANGED further
       ELSE further' = further \cup {f} /\ UNCHANGED first
    /\ added' = added \cup {f}
    /\ Note("late", Open # {} \/ Posting # {})
    /\ UNCHANGED <<serverVars, stateVars, sharedWaiting, reviewVars, polls, calls, shared, removed, sent>>

(* removeFileFromLine, removeLine, setMode("single"), which keeps the first *)
(* line only.                                                               *)
TakeOut(gone) ==
    /\ Filling
    /\ gone # {}
    /\ \/ \E f \in first \cup further : gone = {f}
       \/ gone = further
    /\ first' = first \ gone
    /\ further' = further \ gone
    /\ removed' = removed \cup gone
    /\ UNCHANGED <<serverVars, stateVars, sharedWaiting, reviewVars, polls, calls, added, shared,
                   sent, crossed>>

(* receiveShared: at once on the first step, or once the receipt under      *)
(* review is done with.                                                     *)
ReceiveShared(f) ==
    /\ f \notin added
    /\ IF currentStep = 1 /\ ~isProcessing
       THEN /\ first' = first \cup {f}
            /\ Note("late", Open # {} \/ Posting # {})
            /\ UNCHANGED sharedWaiting
       ELSE sharedWaiting' = sharedWaiting \cup {f} /\ UNCHANGED <<first, crossed>>
    /\ added' = added \cup {f}
    /\ shared' = shared \cup {f}
    /\ UNCHANGED <<serverVars, stateVars, further, reviewVars, polls, calls, removed, sent>>

(* Mutated StartOver: the photos that waited are forgotten.                 *)
StartOverEmpty ==
    /\ currentStep' = 1 /\ uploadState' = "idle" /\ jobId' = None /\ isProcessing' = FALSE
    /\ first' = {} /\ further' = {} /\ sharedWaiting' = {}
    /\ extractedData' = None /\ selectedIndices' = {}

(* startOver: an empty first step, with the photos that waited.             *)
StartOver ==
    /\ currentStep' = 1 /\ uploadState' = "idle" /\ jobId' = None /\ isProcessing' = FALSE
    /\ first' = sharedWaiting /\ further' = {} /\ sharedWaiting' = {}
    /\ extractedData' = None /\ selectedIndices' = {}

(* "Cancel" on the form: the photos there go because the user says so.      *)
Cancel ==
    /\ Filling
    /\ first \cup further # {}
    /\ StartOver
    /\ removed' = removed \cup first \cup further
    /\ UNCHANGED <<serverVars, polls, calls, added, shared, sent, crossed>>

(***************************************************************************)
(* The upload                                                              *)
(***************************************************************************)

(* submitUpload up to its await; what is sent is what the lines hold now.   *)
Post(u, files) ==
    /\ job[u] = "none"
    /\ job' = [job EXCEPT ![u] = "posting"]
    /\ sent' = sent \cup files
    /\ uploadState' = "loading" /\ jobId' = None /\ isProcessing' = FALSE
    /\ extractedData' = None /\ selectedIndices' = {}

SubmitUpload(u) ==
    /\ Filling
    /\ first \cup further # {}
    /\ Post(u, first \cup further)
    /\ Note("begun", Unanswered)
    /\ UNCHANGED <<readings, version, stores, currentStep, formVars, polls, calls, added, shared, removed>>

(* readFromChat: one receipt per photo, through the same upload.            *)
ReadFromChat(u, files) ==
    /\ files # {}
    /\ files \cap added = {}
    /\ Post(u, files)
    /\ \E f \in files : first' = {f} /\ further' = files \ {f}
    /\ currentStep' = 1
    /\ added' = added \cup files
    /\ crossed' = crossed \cup (IF Unanswered THEN {"begun"} ELSE {})
                      \cup (IF first \cup further \subseteq sent THEN {} ELSE {"chat"})
    /\ UNCHANGED <<readings, version, stores, sharedWaiting, polls, calls, shared, removed>>

(* Mutated Accepted: the job is followed and its id not kept.               *)
AcceptedUnnamed(u) ==
    /\ job[u] = "posting"
    /\ job' = [job EXCEPT ![u] = "reading"]
    /\ isProcessing' = TRUE
    /\ polls' = [polls EXCEPT ![u] = 0]
    /\ UNCHANGED <<readings, version, stores, currentStep, uploadState, jobId, formVars,
                   reviewVars, calls, history>>

(* The request is answered with the job's id: it is followed from here on.  *)
Accepted(u) ==
    /\ job[u] = "posting"
    /\ job' = [job EXCEPT ![u] = "reading"]
    /\ jobId' = u /\ isProcessing' = TRUE
    /\ polls' = [polls EXCEPT ![u] = 0]
    /\ UNCHANGED <<readings, version, stores, currentStep, uploadState, formVars,
                   reviewVars, calls, history>>

(* Mutated NotAccepted: the failure is not shown.                           *)
NotAcceptedUntold(u) ==
    /\ job[u] = "posting"
    /\ job' = [job EXCEPT ![u] = "failed"]
    /\ UNCHANGED <<readings, version, stores, stateVars, formVars, reviewVars, polls, calls,
                   history>>

(* It is refused, or its answer is lost and what is read is read for nobody. *)
NotAccepted(u) ==
    /\ job[u] = "posting"
    /\ job' = [job EXCEPT ![u] = "failed"]
    /\ uploadState' = "error"
    /\ UNCHANGED <<readings, version, stores, currentStep, jobId, isProcessing, formVars,
                   reviewVars, polls, calls, history>>

(* UploadJobs: the reading ends.                                            *)
ReadJob(u, rs) ==
    /\ job[u] = "reading"
    /\ \/ /\ job' = [job EXCEPT ![u] = "completed"]
          /\ readings' = [readings EXCEPT ![u] = rs]
       \/ /\ job' = [job EXCEPT ![u] = "failed"]
          /\ UNCHANGED readings
    /\ UNCHANGED <<version, stores, stateVars, formVars, reviewVars, polls, calls, history>>

Shown(u) == [job |-> u, version |-> version[u], receipts |-> readings[u]]

Unfollow(u) == polls' = [polls EXCEPT ![u] = None]

(* Mutated PollCompleted: what the user already has is selected as well.    *)
PollCompletedAll(u) ==
    /\ u \in Followed
    /\ job[u] = "completed"
    /\ isProcessing' = FALSE /\ uploadState' = "success" /\ currentStep' = 2
    /\ extractedData' = Shown(u)
    /\ selectedIndices' = Items
    /\ Unfollow(u)
    /\ UNCHANGED <<serverVars, jobId, formVars, calls, history>>

(* pollJobStatus reads "completed", and writes what it read; a receipt that *)
(* failed or is already stored is not selected.                             *)
PollCompleted(u) ==
    /\ u \in Followed
    /\ job[u] = "completed"
    /\ isProcessing' = FALSE /\ uploadState' = "success" /\ currentStep' = 2
    /\ extractedData' = Shown(u)
    /\ selectedIndices' = {i \in Items : ~readings[u][i].barred}
    /\ Unfollow(u)
    /\ UNCHANGED <<serverVars, jobId, formVars, calls, history>>

(* It reads "failed", or gives up at the last of the failures in a row.  (A *)
(* job the server no longer has ends it too; here jobs are never deleted.)  *)
PollEnds(u) ==
    /\ u \in Followed
    /\ job[u] = "failed" \/ polls[u] + 1 >= POLL_FAILURES_TOLERATED
    /\ isProcessing' = FALSE /\ uploadState' = "error"
    /\ Unfollow(u)
    /\ UNCHANGED <<serverVars, currentStep, jobId, formVars, reviewVars, calls, history>>

(* Mutated PollGoesOn: the failures are counted and not compared.           *)
PollGoesOnForever(u) ==
    /\ u \in Followed
    /\ polls' = [polls EXCEPT ![u] = @ + 1]
    /\ UNCHANGED <<serverVars, stateVars, formVars, reviewVars, calls, history>>

(* One more failure, or an answer that starts the count again.              *)
PollGoesOn(u) ==
    /\ u \in Followed
    /\ \/ polls[u] + 1 < POLL_FAILURES_TOLERATED /\ polls' = [polls EXCEPT ![u] = @ + 1]
       \/ job[u] = "reading" /\ polls[u] > 0 /\ polls' = [polls EXCEPT ![u] = 0]
    /\ UNCHANGED <<serverVars, stateVars, formVars, reviewVars, calls, history>>

(***************************************************************************)
(* The review (ExtractedStep.tsx, ResolveStep.tsx)                         *)
(***************************************************************************)

(* A receipt the review shows: it was read, and not skipped.                *)
Offered(i) == Reviewing /\ ~extractedData.receipts[i].out /\ ~extractedData.receipts[i].barred

(* Choosing is offered while there are several to choose from.              *)
Toggle(i) ==
    /\ Offered(i) /\ currentStep = 2
    /\ Cardinality({k \in Items : Offered(k)}) > 1
    /\ selectedIndices' = IF i \in selectedIndices THEN selectedIndices \ {i}
                                                   ELSE selectedIndices \cup {i}
    /\ UNCHANGED <<serverVars, stateVars, formVars, extractedData, polls, calls, history>>

(* "Back to photos": resetData and resetError; the photos and the job stay. *)
BackToPhotos ==
    /\ Reviewing /\ currentStep = 2
    /\ currentStep' = 1 /\ uploadState' = "idle"
    /\ extractedData' = None /\ selectedIndices' = {}
    /\ Note("begun", Unanswered)
    /\ UNCHANGED <<serverVars, jobId, isProcessing, formVars, polls, calls, added, shared, removed, sent>>

(* "Resolve N things", and back from it.                                    *)
Turn ==
    /\ Reviewing
    /\ \/ currentStep = 2 /\ Conflicts # {} /\ currentStep' = 3
       \/ currentStep = 3 /\ currentStep' = 2
    /\ UNCHANGED <<serverVars, uploadState, jobId, isProcessing, formVars, reviewVars, polls,
                   calls, history>>

Send(c, request) ==
    /\ jobId # None
    /\ calls[c] = None
    /\ calls' = [calls EXCEPT ![c] = request]
    /\ Note("together", Open # {})
    /\ UNCHANGED <<serverVars, stateVars, formVars, reviewVars, polls, added, shared, removed, sent>>

Edit(kind, i) == [job |-> jobId, kind |-> kind, item |-> i, items |-> {}, stage |-> "sent",
                  view |-> None]

(* resolveDuplicate.                                                        *)
AnswerDuplicate(c, i, action) ==
    /\ Offered(i)
    /\ "duplicate" \in extractedData.receipts[i].open
    /\ Send(c, Edit(action, i))

(* resolveTotal and resolvePositionMatch.                                   *)
Settle(c, i, question) ==
    /\ Offered(i)
    /\ question \in extractedData.receipts[i].open
    /\ Send(c, Edit(question, i))

(* resolveDate and updateLineItem; the buttons of addDiscount and           *)
(* undoCorrection are held while a request of theirs is open.               *)
Correct(c, i, what) ==
    /\ Offered(i)
    /\ what \in {"discount", "undo"} => ~Busy(what)
    /\ Send(c, Edit(what, i))

(* Mutated Commit: the button is not held while a commit is open.           *)
CommitAgain(c) ==
    /\ Reviewing /\ currentStep = 2
    /\ Conflicts = {} /\ selectedIndices # {}
    /\ Send(c, [Edit("commit", None) EXCEPT !.items = selectedIndices])

(* commitJob, behind the button of the second step.                         *)
Commit(c) ==
    /\ Reviewing /\ currentStep = 2
    /\ Conflicts = {} /\ selectedIndices # {}
    /\ ~Busy("commit")
    /\ Send(c, [Edit("commit", None) EXCEPT !.items = selectedIndices])

(***************************************************************************)
(* The server's part of a request (Wizard), and its answer                 *)
(***************************************************************************)

Edited(receipt, kind) ==
    CASE kind = "store" -> [receipt EXCEPT !.open = @ \ {"duplicate"}]
      [] kind = "skip" -> [receipt EXCEPT !.open = @ \ {"duplicate"}, !.out = TRUE]
      [] OTHER -> [receipt EXCEPT !.open = @ \ {kind}]

(* An answer to the duplicate question is taken once; a correction always.  *)
ServerEdits(c) ==
    LET call == calls[c]
        u == call.job
    IN  /\ c \in Open /\ call.stage = "sent" /\ call.kind # "commit"
        /\ readings[u] # None /\ version[u] < MaxEdits
        /\ call.kind \in {"store", "skip"} => "duplicate" \in readings[u][call.item].open
        /\ readings' = [readings EXCEPT ![u][call.item] = Edited(@, call.kind)]
        /\ version' = [version EXCEPT ![u] = @ + 1]
        /\ calls' = [calls EXCEPT ![c].stage = "done",
                                  ![c].view = [job |-> u, version |-> version'[u],
                                               receipts |-> readings'[u]]]
        /\ UNCHANGED <<job, stores, stateVars, formVars, reviewVars, polls, history>>

(* commit_upload_job: every gate again, and whether it was done before is   *)
(* not among them.                                                          *)
ServerStores(c) ==
    LET call == calls[c]
        kept == {i \in call.items : ~readings[call.job][i].out}
    IN  /\ c \in Open /\ call.stage = "sent" /\ call.kind = "commit"
        /\ readings[call.job] # None
        /\ stores[call.job] < MaxStores
        /\ \A i \in kept : readings[call.job][i].open = {}
        /\ stores' = [stores EXCEPT ![call.job] = @ + 1]
        /\ calls' = [calls EXCEPT ![c].stage = "done"]
        /\ UNCHANGED <<job, readings, version, stateVars, formVars, reviewVars, polls, history>>

Closed(c) == calls' = [calls EXCEPT ![c] = None]

(* Refused, lost on its way, or done and the answer lost: the user is told *)
(* that it failed, no more.                                                 *)
Failed(c) ==
    /\ c \in Open
    /\ Closed(c)
    /\ Note("lost", calls[c].stage = "done")
    /\ UNCHANGED <<serverVars, stateVars, formVars, reviewVars, polls, added, shared, removed, sent>>

(* Mutated EditAnswered: the answer is only looked at for its error.        *)
EditAnsweredUnread(c) ==
    /\ c \in Open /\ calls[c].stage = "done" /\ calls[c].kind \notin {"skip", "commit"}
    /\ Closed(c)
    /\ UNCHANGED <<serverVars, stateVars, formVars, reviewVars, polls, history>>

(* The answer of an edit replaces the readings shown, whichever they are.   *)
EditAnswered(c) ==
    /\ c \in Open /\ calls[c].stage = "done" /\ calls[c].kind \notin {"skip", "commit"}
    /\ Closed(c)
    /\ extractedData' = calls[c].view
    /\ UNCHANGED <<serverVars, stateVars, formVars, selectedIndices, polls, history>>

(* A skipped receipt leaves the selection; after the last one the upload    *)
(* starts over.                                                             *)
SkipAnswered(c) ==
    /\ c \in Open /\ calls[c].stage = "done" /\ calls[c].kind = "skip"
    /\ Closed(c)
    /\ LET view == calls[c].view
           chosen == selectedIndices \ {calls[c].item}
       IN  IF receiptsToStore(view, chosen) = {}
           THEN StartOver
           ELSE /\ extractedData' = view /\ selectedIndices' = chosen
                /\ UNCHANGED <<stateVars, formVars>>
    /\ UNCHANGED <<serverVars, polls, history>>

CommitAnswered(c) ==
    /\ c \in Open /\ calls[c].stage = "done" /\ calls[c].kind = "commit"
    /\ Closed(c)
    /\ StartOver
    /\ UNCHANGED <<serverVars, polls, history>>

(***************************************************************************)
(* The specification                                                       *)
(***************************************************************************)

FormStep ==
    \/ \E f \in Files \ Chats : Choose(f, "first") \/ Choose(f, "further") \/ ReceiveShared(f)
    \/ \E gone \in SUBSET (first \cup further) : TakeOut(gone)
    \/ Cancel

UploadStep(u) ==
    \/ SubmitUpload(u)
    \/ \E files \in SUBSET Chats : ReadFromChat(u, files)
    \/ Accepted(u) \/ NotAccepted(u)
    \/ PollCompleted(u) \/ PollEnds(u) \/ PollGoesOn(u)

ReviewStep ==
    \/ \E i \in Items : Toggle(i)
    \/ BackToPhotos
    \/ Turn

CallStep(c) ==
    \/ \E i \in Items :
        \/ AnswerDuplicate(c, i, "store") \/ AnswerDuplicate(c, i, "skip")
        \/ \E q \in Questions \ {"duplicate"} : Settle(c, i, q)
        \/ \E what \in Corrections : Correct(c, i, what)
    \/ Commit(c)
    \/ ServerEdits(c) \/ ServerStores(c)
    \/ Failed(c) \/ EditAnswered(c) \/ SkipAnswered(c) \/ CommitAnswered(c)

Next ==
    \/ FormStep
    \/ ReviewStep
    \/ \E u \in Uploads : UploadStep(u) \/ \E rs \in Readings : ReadJob(u, rs)
    \/ \E c \in Calls : CallStep(c)

Spec == Init /\ [][Next]_vars

(***************************************************************************)
(* Properties                                                              *)
(***************************************************************************)

Calm(marks) == crossed \cap marks = {}
AtRest == Open = {}

(* The readings under review are those of the job the buttons act on, unless *)
(* an upload was begun, or the review left, before an earlier request was    *)
(* answered.  Pollers and edits write their answer without looking whose     *)
(* review is on the screen.                                                  *)
ReviewsItsOwnJob ==
    Calm({"begun"}) /\ Reviewing => extractedData.job = jobId

(* While the screen says that receipts are being read, and offers no way    *)
(* out, a request or a poller is at work that will end it.                  *)
ReadingIsFollowed ==
    uploadState = "loading" => \E u \in Uploads : u \in Posting \/ u \in Followed

(* One click stores once: an upload's receipts are committed a second time  *)
(* only after the answer to a commit was lost.                              *)
StoredOnce == Calm({"lost"}) => \A u \in Uploads : stores[u] <= 1

(* A photo the user chose or shared is uploaded, on the form, or waiting,   *)
(* unless the user took it out; a photo that arrives while a request is     *)
(* open, or is on the form when the assistant uploads, may be forgotten.    *)
PhotosAreKept ==
    Calm({"begun", "together", "late", "chat"}) =>
        added \subseteq sent \cup removed \cup first \cup further \cup sharedWaiting

(* Receipts shared from another app become the photos of the next receipt   *)
(* (receiveShared): only the user, or an upload, takes them off the form.   *)
SharedBecomeNext == shared \subseteq sent \cup removed \cup first \cup further \cup sharedWaiting

(* With nothing open the review shows what the server holds, so what the    *)
(* user decides on is what the commit will look at.                         *)
ReviewIsCurrent ==
    Calm({"begun", "together", "lost"}) /\ AtRest /\ Reviewing =>
        extractedData = Shown(jobId)

(* The number on the button is the number that would be stored: nothing     *)
(* skipped, failed or already stored is selected.  An older answer after a  *)
(* skip's offers the skipped receipt again, and a later edit takes it back. *)
SelectionIsStorable ==
    Calm({"begun", "together", "lost"}) /\ AtRest /\ Reviewing =>
        \A i \in selectedIndices :
            ~extractedData.receipts[i].out /\ ~extractedData.receipts[i].barred

=============================================================================
