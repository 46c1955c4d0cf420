------------------------- MODULE UploadScreenProofs -------------------------
(***************************************************************************)
(* What UploadScreen promises, for every number of uploads, receipts,      *)
(* photos and requests open at once.                                       *)
(***************************************************************************)
EXTENDS UploadScreen, TLAPS

(***************************************************************************)
(* Types                                                                   *)
(***************************************************************************)

(* What a poller reads of a completed job is there, and nothing is edited or *)
(* stored before.                                                           *)
ServerInv ==
    \A u \in Uploads :
        /\ job[u] = "completed" => readings[u] \in Reading
        /\ readings[u] # None \/ stores[u] # 0 => job[u] = "completed"
Typed == TypeOK /\ ServerInv

(* The three steps of the screen.                                           *)
LEMMA Steps == 1..3 = {1, 2, 3}
OBVIOUS

(* An edit of a reading leaves a reading.                                   *)
LEMMA EditedReading ==
    ASSUME NEW rs \in Reading, NEW i, NEW kind
    PROVE  [rs EXCEPT ![i] = Edited(@, kind)] \in Reading
<1> SUFFICES ASSUME NEW k \in Items
             PROVE  [rs EXCEPT ![i] = Edited(@, kind)][k] \in Receipt
    BY DEF Reading
<1>1. rs[k] \in Receipt
    BY DEF Reading
<1>2. Edited(rs[k], kind) \in Receipt
    BY <1>1 DEF Edited, Receipt
<1> QED
    BY <1>1, <1>2 DEF Reading

(* It withdraws the receipt that is skipped, and bars none.                 *)
LEMMA EditedOnly ==
    ASSUME NEW receipt \in Receipt, NEW kind
    PROVE  /\ Edited(receipt, kind).barred => receipt.barred
           /\ Edited(receipt, kind).out => receipt.out \/ kind = "skip"
BY DEF Edited, Receipt

(* A request that is sent is a request.                                     *)
LEMMA SendTypes ==
    ASSUME TypeOK, NEW c \in Calls, NEW request \in Call, Send(c, request)
    PROVE  /\ calls' \in [Calls -> Call \cup {None}]
           /\ crossed' \subseteq {"begun", "together", "lost", "late", "chat"}
BY DEF Send, Note, TypeOK

(* The photos and the buttons of the form keep the types.                    *)
LEMMA FormTypes == Typed /\ FormStep => Typed'
<1> SUFFICES ASSUME Typed, FormStep PROVE Typed'
    OBVIOUS
<1> USE DEF Typed, TypeOK, ServerInv, Note, serverVars, stateVars, reviewVars, formVars
<1>1. ASSUME NEW f \in Files, Choose(f, "first") \/ Choose(f, "further") PROVE Typed'
    BY <1>1 DEF Choose
<1>2. ASSUME NEW f \in Files, ReceiveShared(f) PROVE Typed'
    BY <1>2 DEF ReceiveShared
<1>3. ASSUME NEW gone \in SUBSET (first \cup further), TakeOut(gone) PROVE Typed'
    BY <1>3 DEF TakeOut
<1>4. CASE Cancel
    BY <1>4, Steps DEF Cancel, StartOver, history
<1> QED
    BY <1>1, <1>2, <1>3, <1>4 DEF FormStep

(* So do the choices of the review,                                         *)
LEMMA ReviewTypes == Typed /\ ReviewStep => Typed'
<1> SUFFICES ASSUME Typed, ReviewStep PROVE Typed'
    OBVIOUS
<1> USE DEF Typed, TypeOK, ServerInv, Note, serverVars, stateVars, reviewVars, formVars
<1>1. ASSUME NEW i \in Items, Toggle(i) PROVE Typed'
    BY <1>1 DEF Toggle, history
<1>2. CASE BackToPhotos
    BY <1>2 DEF BackToPhotos
<1>3. CASE Turn
    BY <1>3, Steps DEF Turn, history
<1> QED
    BY <1>1, <1>2, <1>3 DEF ReviewStep

(* the upload request and the pollers,                                       *)
LEMMA UploadTypes == ASSUME NEW u \in Uploads, Typed, UploadStep(u) PROVE Typed'
<1> USE DEF Typed, TypeOK, ServerInv, Note, serverVars, stateVars, reviewVars, formVars
<1>1. CASE SubmitUpload(u)
    BY <1>1 DEF SubmitUpload, Post
<1>2. ASSUME NEW files \in SUBSET Chats, ReadFromChat(u, files) PROVE Typed'
    <2>1. /\ first' \subseteq Files /\ further' \subseteq Files /\ sent' \subseteq Files
          /\ added' \subseteq Files /\ crossed' \subseteq {"begun", "together", "lost", "late", "chat"}
        BY <1>2, ChatsAssumption DEF ReadFromChat, Post
    <2> QED
        BY <1>2, <2>1, Steps DEF ReadFromChat, Post
<1>3. CASE Accepted(u)
    BY <1>3, PatienceAssumption DEF Accepted, history
<1>4. CASE NotAccepted(u)
    BY <1>4 DEF NotAccepted, history
<1>5. CASE PollCompleted(u)
    BY <1>5, Steps DEF PollCompleted, history, Unfollow, Shown, View
<1>6. CASE PollEnds(u)
    BY <1>6 DEF PollEnds, history, Unfollow
<1>7. CASE PollGoesOn(u)
    BY <1>7, PatienceAssumption DEF PollGoesOn, history, Followed
<1> QED
    BY <1>1, <1>2, <1>3, <1>4, <1>5, <1>6, <1>7 DEF UploadStep

(* the end of a reading on the server,                                       *)
LEMMA ReadTypes == ASSUME NEW u \in Uploads, NEW rs \in Readings, Typed, ReadJob(u, rs) PROVE Typed'
BY ReadingsAssumption DEF Typed, TypeOK, ServerInv, ReadJob, stateVars, reviewVars, formVars, history

(* and the requests about a reading, the server's part and their answers.    *)
LEMMA CallTypes == ASSUME NEW c \in Calls, Typed, CallStep(c) PROVE Typed'
<1> USE DEF Typed, TypeOK, ServerInv, Note, serverVars, stateVars, reviewVars, formVars
<1>0. ASSUME NEW kind \in Kinds, NEW i \in Items \cup {None}, Send(c, Edit(kind, i)) PROVE Typed'
    <2>1. Edit(kind, i) \in Call
        BY <1>0 DEF Edit, Call, Send
    <2> QED
        BY <1>0, <2>1, SendTypes DEF Send
<1>1. ASSUME NEW i \in Items, AnswerDuplicate(c, i, "store") \/ AnswerDuplicate(c, i, "skip")
      PROVE  Typed'
    BY <1>0, <1>1 DEF AnswerDuplicate, Kinds
<1>2. ASSUME NEW i \in Items, NEW q \in Questions \ {"duplicate"}, Settle(c, i, q) PROVE Typed'
    BY <1>0, <1>2 DEF Settle, Kinds
<1>3. ASSUME NEW i \in Items, NEW what \in Corrections, Correct(c, i, what) PROVE Typed'
    BY <1>0, <1>3 DEF Correct, Kinds
<1>4. CASE Commit(c)
    <2>1. [Edit("commit", None) EXCEPT !.items = selectedIndices] \in Call
        BY <1>4 DEF Commit, Send, Edit, Call, Kinds
    <2> QED
        BY <1>4, <2>1, SendTypes DEF Commit, Send
<1>5. CASE ServerEdits(c)
    <2> DEFINE u == calls[c].job
               rs == [readings[u] EXCEPT ![calls[c].item] = Edited(@, calls[c].kind)]
    <2>1. u \in Uploads /\ readings[u] \in Reading /\ calls[c] \in Call
        BY <1>5 DEF ServerEdits, Open, Call
    <2>2. rs \in Reading
        BY <2>1, EditedReading
    <2>3. readings' = [readings EXCEPT ![u] = rs]
        BY <1>5, <2>1 DEF ServerEdits
    <2>4. readings' \in [Uploads -> Reading \cup {None}] /\ ServerInv'
        BY <1>5, <2>1, <2>2, <2>3 DEF ServerEdits
    <2>5. version[u] + 1 \in 0..MaxEdits /\ version' = [version EXCEPT ![u] = @ + 1]
        BY <1>5, <2>1, BoundsAssumption DEF ServerEdits
    <2>6. [job |-> u, version |-> version'[u], receipts |-> readings'[u]] \in View
        BY <2>1, <2>2, <2>3, <2>5 DEF View
    <2>7. calls' \in [Calls -> Call \cup {None}]
        BY <1>5, <2>1, <2>6 DEF ServerEdits, Call
    <2>8. version' \in [Uploads -> 0..MaxEdits]
        BY <2>1, <2>5
    <2>9. UNCHANGED <<job, stores, stateVars, formVars, reviewVars, polls, history>>
        BY <1>5 DEF ServerEdits
    <2> HIDE DEF ServerInv
    <2> QED
        BY <2>4, <2>7, <2>8, <2>9 DEF history
<1>6. CASE ServerStores(c)
    <2>1. calls[c] \in Call
        BY <1>6 DEF ServerStores, Open
    <2>2. calls' = [calls EXCEPT ![c].stage = "done"]
        BY <1>6 DEF ServerStores
    <2>3. calls' \in [Calls -> Call \cup {None}]
        BY <2>1, <2>2 DEF Call
    <2>4. stores' \in [Uploads -> Nat]
        BY <1>6, <2>1 DEF ServerStores, Call
    <2> QED
        BY <1>6, <2>3, <2>4 DEF ServerStores, history
<1>7. CASE Failed(c)
    BY <1>7 DEF Failed, Closed
<1>8. CASE EditAnswered(c)
    BY <1>8 DEF EditAnswered, Closed, history, Open, Call
<1>9. CASE SkipAnswered(c)
    <2>1. ServerInv'
        BY <1>9 DEF SkipAnswered
    <2>2. calls[c].view \in View \cup {None} /\ calls' \in [Calls -> Call \cup {None}]
        BY <1>9 DEF SkipAnswered, Closed, Open, Call
    <2> HIDE DEF ServerInv
    <2> QED
        BY <1>9, <2>1, <2>2, Steps DEF SkipAnswered, history, StartOver
<1>10. CASE CommitAnswered(c)
    BY <1>10, Steps DEF CommitAnswered, Closed, history, StartOver
<1> QED
    BY <1>1, <1>2, <1>3, <1>4, <1>5, <1>6, <1>7, <1>8, <1>9, <1>10 DEF CallStep

(* Every variable of the screen keeps its type.                             *)
THEOREM AlwaysTyped == Spec => []Typed
<1>1. Init => Typed
    <2> SUFFICES ASSUME Init PROVE Typed
        OBVIOUS
    <2>1. 0 \in 0..MaxEdits /\ 1 \in 1..3
        BY BoundsAssumption
    <2>2. readings \in [Uploads -> Reading \cup {None}] /\ version \in [Uploads -> 0..MaxEdits]
        BY <2>1 DEF Init
    <2>3. /\ polls \in [Uploads -> 0..POLL_FAILURES_TOLERATED \cup {None}]
          /\ calls \in [Calls -> Call \cup {None}]
          /\ stores \in [Uploads -> Nat]
        BY DEF Init
    <2> QED
        BY <2>1, <2>2, <2>3 DEF Init, Typed, TypeOK, ServerInv
<1>2. Typed /\ [Next]_vars => Typed'
    <2>1. Typed /\ UNCHANGED vars => Typed'
        BY DEF Typed, TypeOK, ServerInv, vars, serverVars, stateVars, reviewVars, formVars, history
    <2> QED
        BY <2>1, FormTypes, ReviewTypes, UploadTypes, ReadTypes, CallTypes DEF Next
<1> QED
    BY <1>1, <1>2, PTL DEF Spec

(* TypeOK, the type invariant of the runs.                                   *)
THEOREM TypeCorrect == Spec => []TypeOK
<1>1. Typed => TypeOK
    BY DEF Typed
<1> QED
    BY <1>1, AlwaysTyped, PTL

(***************************************************************************)
(* What the steps touch                                                    *)
(***************************************************************************)

(* The user's request about the readings under review.                      *)
Asks(c, request) ==
    /\ request \in Call /\ Send(c, request) /\ Reviewing
    /\ request.job = jobId /\ request.stage = "sent" /\ request.view = None
    /\ request.kind = "commit" => ~Busy("commit")

(* A step of a request slot is a request of the user, the server's part of   *)
(* one, or its answer.                                                      *)
LEMMA CallCases ==
    ASSUME Typed, NEW c \in Calls, CallStep(c)
    PROVE  \/ \E request \in Call : Asks(c, request)
           \/ ServerEdits(c) \/ ServerStores(c)
           \/ Failed(c) \/ EditAnswered(c) \/ SkipAnswered(c) \/ CommitAnswered(c)
<1>0. ASSUME NEW kind \in Kinds \ {"commit"}, NEW i \in Items, Send(c, Edit(kind, i)), Offered(i)
      PROVE  \E request \in Call : Asks(c, request)
    <2>1. Edit(kind, i) \in Call
        BY <1>0 DEF Edit, Call, Send, Typed, TypeOK
    <2> QED
        BY <1>0, <2>1 DEF Asks, Edit, Offered
<1>1. ASSUME NEW i \in Items, AnswerDuplicate(c, i, "store") \/ AnswerDuplicate(c, i, "skip")
      PROVE  \E request \in Call : Asks(c, request)
    BY <1>0, <1>1 DEF AnswerDuplicate, Kinds
<1>2. ASSUME NEW i \in Items, NEW q \in Questions \ {"duplicate"}, Settle(c, i, q)
      PROVE  \E request \in Call : Asks(c, request)
    BY <1>0, <1>2, KindsAssumption DEF Settle, Kinds
<1>3. ASSUME NEW i \in Items, NEW what \in Corrections, Correct(c, i, what)
      PROVE  \E request \in Call : Asks(c, request)
    BY <1>0, <1>3, KindsAssumption DEF Correct, Kinds
<1>4. ASSUME Commit(c) PROVE \E request \in Call : Asks(c, request)
    <2> DEFINE request == [Edit("commit", None) EXCEPT !.items = selectedIndices]
    <2>1. request \in Call
        BY <1>4 DEF Commit, Send, Edit, Call, Kinds, Typed, TypeOK
    <2>2. request.job = jobId /\ request.stage = "sent" /\ request.view = None
        BY DEF Edit
    <2> QED
        BY <1>4, <2>1, <2>2 DEF Asks, Commit
<1> QED
    BY <1>1, <1>2, <1>3, <1>4 DEF CallStep

(***************************************************************************)
(* A screen that says "reading" is left                                    *)
(***************************************************************************)

(* Only the upload request, the pollers and the server's reading move a job *)
(* or its poller; every other step leaves uploadState or puts it at "idle". *)
LEMMA Elsewhere ==
    ASSUME Typed, FormStep \/ ReviewStep \/ \E c \in Calls : CallStep(c)
    PROVE  job' = job /\ polls' = polls /\ uploadState' \in {uploadState, "idle"}
<1> USE DEF serverVars, stateVars, formVars, reviewVars
<1>1. CASE FormStep
    BY <1>1 DEF FormStep, Choose, ReceiveShared, TakeOut, Cancel, StartOver
<1>2. CASE ReviewStep
    BY <1>2 DEF ReviewStep, Toggle, BackToPhotos, Turn
<1>3. ASSUME NEW c \in Calls, CallStep(c)
      PROVE  job' = job /\ polls' = polls /\ uploadState' \in {uploadState, "idle"}
    BY <1>3, CallCases DEF Asks, Send, ServerEdits, ServerStores, Failed, EditAnswered,
                           SkipAnswered, CommitAnswered, StartOver
<1> QED
    BY <1>1, <1>2, <1>3

(* Whatever is begun, left or answered in whatever order, a request or a    *)
(* poller is at work while the screen says that receipts are being read.    *)
THEOREM AlwaysFollowed == Spec => []ReadingIsFollowed
<1>1. Init => ReadingIsFollowed
    BY DEF Init, ReadingIsFollowed
<1>2. ASSUME Typed, ReadingIsFollowed, [Next]_vars PROVE ReadingIsFollowed'
    <2> USE <1>2 DEF ReadingIsFollowed, Posting, Followed, serverVars, stateVars
    <2>1. CASE FormStep \/ ReviewStep \/ \E c \in Calls : CallStep(c)
        BY <2>1, Elsewhere
    <2>2. ASSUME NEW u \in Uploads, UploadStep(u) PROVE ReadingIsFollowed'
        <3>1. CASE SubmitUpload(u) \/ \E files \in SUBSET Chats : ReadFromChat(u, files)
            BY <3>1 DEF SubmitUpload, ReadFromChat, Post, Typed, TypeOK
        <3>2. CASE Accepted(u)
            BY <3>2, NothingAssumption, PatienceAssumption DEF Accepted, Typed, TypeOK
        <3>3. CASE NotAccepted(u) \/ PollCompleted(u) \/ PollEnds(u)
            BY <3>3 DEF NotAccepted, PollCompleted, PollEnds
        <3>4. CASE PollGoesOn(u)
            <4>1. polls'[u] # None
                BY <3>4, NothingAssumption, PatienceAssumption DEF PollGoesOn, Typed, TypeOK
            <4> QED
                BY <3>4, <4>1 DEF PollGoesOn, Typed, TypeOK
        <3> QED
            BY <2>2, <3>1, <3>2, <3>3, <3>4 DEF UploadStep
    <2>3. ASSUME NEW u \in Uploads, NEW rs \in Readings, ReadJob(u, rs) PROVE ReadingIsFollowed'
        BY <2>3 DEF ReadJob, Typed, TypeOK
    <2>4. CASE UNCHANGED vars
        BY <2>4 DEF vars
    <2> QED
        BY <2>1, <2>2, <2>3, <2>4 DEF Next
<1> QED
    BY <1>1, <1>2, AlwaysTyped, PTL DEF Spec

(* The server's part of an edit: the request is answered with the reading   *)
(* as it is now, and no other request is touched.                           *)
LEMMA EditDone ==
    ASSUME Typed, NEW c \in Calls, ServerEdits(c), NEW u, u = calls[c].job
    PROVE  /\ calls[c] \in Call /\ u \in Uploads /\ job[u] = "completed"
           /\ calls'[c].job = u /\ calls'[c].kind = calls[c].kind
           /\ calls'[c].item = calls[c].item
           /\ calls'[c].stage = "done" /\ calls'[c].view = Shown(u)'
           /\ calls'[c] # None /\ Open' = Open
           /\ \A d \in Calls \ {c} : calls'[d] = calls[d]
<1>1. calls[c] \in Call /\ u \in Uploads /\ job[u] = "completed"
    BY DEF ServerEdits, Open, Call, Typed, TypeOK, ServerInv
<1>2. calls' = [calls EXCEPT ![c].stage = "done", ![c].view = Shown(u)']
    BY <1>1 DEF ServerEdits, Shown
<1>3. calls'[c] = [calls[c] EXCEPT !.stage = "done", !.view = Shown(u)']
    BY <1>2 DEF Typed, TypeOK
<1>4. /\ calls'[c].job = u /\ calls'[c].kind = calls[c].kind
      /\ calls'[c].item = calls[c].item
      /\ calls'[c].stage = "done" /\ calls'[c].view = Shown(u)'
    BY <1>1, <1>3 DEF Call
<1>5. Shown(u)' \in View
    <2>1. Typed'
        BY CallTypes DEF CallStep
    <2>2. /\ job' = job
          /\ version'[u] \in 0..MaxEdits
          /\ readings'[u] \in Reading
        BY <1>1, <2>1 DEF ServerEdits, Typed, TypeOK, ServerInv
    <2> QED
        BY <1>1, <2>2 DEF Shown, View
<1>6. calls'[c] \in Call
    BY <1>1, <1>3, <1>5 DEF Call
<1>7. calls'[c] # None
    BY <1>6, NothingAssumption
<1>8. \A d \in Calls \ {c} : calls'[d] = calls[d]
    BY <1>2 DEF Typed, TypeOK
<1>9. Open' = Open
    BY <1>7, <1>8 DEF ServerEdits, Open
<1> QED
    BY <1>1, <1>4, <1>7, <1>8, <1>9

(* The server's part of a commit.                                           *)
LEMMA CommitDone ==
    ASSUME Typed, NEW c \in Calls, ServerStores(c)
    PROVE  /\ calls[c] \in Call /\ calls[c].job \in Uploads /\ job[calls[c].job] = "completed"
           /\ calls'[c].job = calls[c].job /\ calls'[c].kind = calls[c].kind
           /\ calls'[c].stage = "done" /\ calls'[c].view = calls[c].view
           /\ calls'[c] # None /\ Open' = Open
           /\ \A d \in Calls \ {c} : calls'[d] = calls[d]
<1>1. calls[c] \in Call /\ calls[c].job \in Uploads
    BY DEF ServerStores, Open, Call, Typed, TypeOK
<1>2. calls' = [calls EXCEPT ![c] = [calls[c] EXCEPT !.stage = "done"]]
    BY <1>1 DEF ServerStores, Typed, TypeOK
<1>3. calls'[c] = [calls[c] EXCEPT !.stage = "done"]
    BY <1>2 DEF Typed, TypeOK
<1>4. /\ calls'[c].job = calls[c].job /\ calls'[c].kind = calls[c].kind
      /\ calls'[c].stage = "done" /\ calls'[c].view = calls[c].view
    BY <1>1, <1>3 DEF Call
<1>5. calls'[c] # None
    BY NothingAssumption, <1>1, <1>3 DEF Call
<1> QED
    BY <1>1, <1>2, <1>3, <1>4, <1>5 DEF ServerStores, Open, Typed, TypeOK, ServerInv

(***************************************************************************)
(* One upload, one request at a time                                       *)
(***************************************************************************)

(* While no upload is begun, and no review left, before an earlier request  *)
(* is answered, the screen is about one job.                                *)
SingleUpload ==
    Calm({"begun"}) =>
        /\ \A u \in Posting : /\ jobId = None /\ uploadState = "loading"
                              /\ Open = {} /\ Followed = {} /\ Posting = {u}
        /\ \A u \in Followed : jobId = u /\ uploadState = "loading" /\ Open = {}
        /\ \A c \in Open : /\ jobId \in {None, calls[c].job} /\ job[calls[c].job] = "completed"
                           /\ calls[c].view # None => calls[c].view.job = calls[c].job
        /\ uploadState = "success" => jobId # None
        /\ Reviewing => extractedData.job = jobId /\ job[jobId] = "completed"

(* The photos of the form change nothing of the job that is followed.       *)
LEMMA SingleForm == Typed /\ SingleUpload /\ FormStep => SingleUpload'
<1> SUFFICES ASSUME Typed, SingleUpload, FormStep PROVE SingleUpload'
    OBVIOUS
<1> USE DEF SingleUpload, Posting, Followed, Open, Reviewing, Filling, Calm, Note,
            serverVars, stateVars, reviewVars
<1>1. ASSUME NEW f \in Files, Choose(f, "first") \/ Choose(f, "further") PROVE SingleUpload'
    BY <1>1 DEF Choose
<1>2. ASSUME NEW f \in Files, ReceiveShared(f) PROVE SingleUpload'
    BY <1>2 DEF ReceiveShared
<1>3. ASSUME NEW gone \in SUBSET (first \cup further), TakeOut(gone) PROVE SingleUpload'
    BY <1>3 DEF TakeOut
<1>4. CASE Cancel
    BY <1>4 DEF Cancel, StartOver, Typed, TypeOK
<1> QED
    BY <1>1, <1>2, <1>3, <1>4 DEF FormStep

(* Nor do the choices of the review; leaving it while a request is open is  *)
(* noted.                                                                   *)
LEMMA SingleReview == Typed /\ SingleUpload /\ ReviewStep => SingleUpload'
<1> SUFFICES ASSUME Typed, SingleUpload, ReviewStep PROVE SingleUpload'
    OBVIOUS
<1> USE DEF SingleUpload, Posting, Followed, Open, Reviewing, Calm, Note, serverVars, stateVars,
            reviewVars, history
<1>1. ASSUME NEW i \in Items, Toggle(i) PROVE SingleUpload'
    BY <1>1 DEF Toggle
<1>2. CASE BackToPhotos
    BY <1>2 DEF BackToPhotos
<1>3. CASE Turn
    BY <1>3 DEF Turn
<1> QED
    BY <1>1, <1>2, <1>3 DEF ReviewStep

(* An upload posts one job, which is the one that is followed and shown.    *)
LEMMA SingleSteps == ASSUME NEW u \in Uploads, Typed, SingleUpload, UploadStep(u) PROVE SingleUpload'
<1> USE DEF SingleUpload, Posting, Followed, Open, Reviewing, Calm, serverVars, stateVars,
            reviewVars
<1>1. CASE SubmitUpload(u) \/ \E files \in SUBSET Chats : ReadFromChat(u, files)
    BY <1>1 DEF SubmitUpload, ReadFromChat, Post, Note, Unanswered, Typed, TypeOK
<1>2. CASE Accepted(u)
    BY <1>2, NothingAssumption, PatienceAssumption DEF Accepted, history, Typed, TypeOK
<1>3. CASE NotAccepted(u)
    BY <1>3 DEF NotAccepted, history, Typed, TypeOK
<1>4. CASE PollCompleted(u)
    BY <1>4, NoneAssumption DEF PollCompleted, Unfollow, Shown, history, Typed, TypeOK
<1>5. CASE PollEnds(u)
    BY <1>5 DEF PollEnds, Unfollow, history, Typed, TypeOK
<1>6. CASE PollGoesOn(u)
    BY <1>6, NothingAssumption, PatienceAssumption DEF PollGoesOn, history, Typed, TypeOK
<1> QED
    BY <1>1, <1>2, <1>3, <1>4, <1>5, <1>6 DEF UploadStep

(* The end of a reading changes no job that is reviewed.                    *)
LEMMA SingleRead ==
    ASSUME NEW u \in Uploads, NEW rs \in Readings, Typed, SingleUpload, ReadJob(u, rs)
    PROVE  SingleUpload'
<1>1. UNCHANGED <<stateVars, reviewVars, polls, calls, crossed>>
    BY DEF ReadJob, history
<1>2. \A w \in Uploads : /\ job[w] = "completed" => job'[w] = "completed"
                         /\ job'[w] = "posting" <=> job[w] = "posting"
    BY DEF ReadJob, Typed, TypeOK
<1>3. \A d \in Open : calls[d].job \in Uploads
    BY DEF Open, Call, Typed, TypeOK
<1>4. Posting' = Posting /\ Followed' = Followed /\ Open' = Open
    BY <1>1, <1>2 DEF Posting, Followed, Open
<1> QED
    BY <1>1, <1>2, <1>3, <1>4 DEF SingleUpload, Reviewing, Calm, stateVars, reviewVars, Typed, TypeOK

(* A request is about the job under review, and its answer about the same.  *)
LEMMA SingleCall == ASSUME NEW c \in Calls, Typed, SingleUpload, CallStep(c) PROVE SingleUpload'
<1> USE DEF SingleUpload, Posting, Followed, Open, Reviewing, Calm, serverVars, stateVars,
            reviewVars
<1>1. ASSUME NEW request \in Call, Asks(c, request) PROVE SingleUpload'
    BY <1>1, NothingAssumption DEF Asks, Send, Note, Typed, TypeOK
<1>2. CASE ServerEdits(c)
    <2> HIDE DEF Open
    <2>1. UNCHANGED <<job, stateVars, reviewVars, polls, crossed, Open>>
        BY <1>2, EditDone DEF ServerEdits, history
    <2>2. calls'[c].view = Shown(calls[c].job)' /\ calls'[c].job = calls[c].job
        BY <1>2, EditDone
    <2>3. calls'[c].view.job = calls[c].job
        BY <2>2 DEF Shown
    <2>4. \A d \in Calls \ {c} : calls'[d] = calls[d]
        BY <1>2, EditDone
    <2> QED
        BY <2>1, <2>2, <2>3, <2>4 DEF Open
<1>3. CASE ServerStores(c)
    <2> HIDE DEF Open
    <2>1. UNCHANGED <<job, stateVars, reviewVars, polls, crossed, Open>>
        BY <1>3, CommitDone DEF ServerStores, history
    <2> QED
        BY <1>3, <2>1, CommitDone DEF Open
<1>4. CASE Failed(c)
    BY <1>4 DEF Failed, Closed, Note, Typed, TypeOK
<1>5. CASE EditAnswered(c)
    BY <1>5 DEF EditAnswered, Closed, history, Typed, TypeOK
<1>6. CASE SkipAnswered(c)
    BY <1>6 DEF SkipAnswered, StartOver, Closed, history, Typed, TypeOK
<1>7. CASE CommitAnswered(c)
    BY <1>7 DEF CommitAnswered, StartOver, Closed, history, Typed, TypeOK
<1> QED
    BY <1>1, <1>2, <1>3, <1>4, <1>5, <1>6, <1>7, CallCases

(* The screen is about one job as long as the user waits for the answers.   *)
THEOREM AlwaysSingle == Spec => []SingleUpload
<1>1. Init => SingleUpload
    BY DEF Init, SingleUpload, Posting, Followed, Open, Reviewing
<1>2. Typed /\ SingleUpload /\ [Next]_vars => SingleUpload'
    <2>1. SingleUpload /\ UNCHANGED vars => SingleUpload'
        BY DEF SingleUpload, Posting, Followed, Open, Reviewing, Calm, vars, serverVars,
               stateVars, reviewVars, history
    <2> QED
        BY <2>1, SingleForm, SingleReview, SingleSteps, SingleRead, SingleCall DEF Next
<1> QED
    BY <1>1, <1>2, AlwaysTyped, PTL DEF Spec

(* The buttons of a review act on the job whose readings it shows, unless   *)
(* an upload was begun, or the review left, before an earlier answer came.  *)
THEOREM AlwaysReviewsItsOwnJob == Spec => []ReviewsItsOwnJob
<1>1. SingleUpload => ReviewsItsOwnJob
    BY DEF SingleUpload, ReviewsItsOwnJob
<1> QED
    BY <1>1, AlwaysSingle, PTL

(* A user who also sends one request at a time is still on the review it    *)
(* was sent from when its answer comes.                                     *)
OneRequest ==
    Calm({"begun", "together"}) =>
        \A c \in Open : Open = {c} /\ Reviewing /\ calls[c].job = jobId

THEOREM AlwaysOneRequest == Spec => []OneRequest
<1>1. Init => OneRequest
    BY DEF Init, OneRequest, Open
<1>2. ASSUME Typed, SingleUpload, OneRequest, [Next]_vars PROVE OneRequest'
    <2> USE <1>2 DEF OneRequest, Open, Reviewing, Calm, serverVars, stateVars, reviewVars
    <2>1. CASE FormStep
        BY <2>1 DEF FormStep, Choose, ReceiveShared, TakeOut, Cancel, Filling, Note
    <2>2. CASE ReviewStep
        BY <2>2, Steps DEF ReviewStep, Toggle, BackToPhotos, Turn, history, Note, Unanswered
    <2>3. ASSUME NEW u \in Uploads, UploadStep(u) PROVE OneRequest'
        <3>1. CASE SubmitUpload(u) \/ \E files \in SUBSET Chats : ReadFromChat(u, files)
            BY <3>1 DEF SubmitUpload, ReadFromChat, Post, Note, Unanswered, Typed, TypeOK
        <3>2. CASE Accepted(u) \/ NotAccepted(u)
            BY <3>2 DEF Accepted, NotAccepted, SingleUpload, Posting, history
        <3>3. CASE PollCompleted(u) \/ PollEnds(u) \/ PollGoesOn(u)
            BY <3>3 DEF PollCompleted, PollEnds, PollGoesOn, SingleUpload, Followed, history
        <3> QED
            BY <2>3, <3>1, <3>2, <3>3 DEF UploadStep
    <2>4. ASSUME NEW u \in Uploads, NEW rs \in Readings, ReadJob(u, rs) PROVE OneRequest'
        BY <2>4 DEF ReadJob, history
    <2>5. ASSUME NEW c \in Calls, CallStep(c) PROVE OneRequest'
        <3>1. ASSUME NEW request \in Call, Asks(c, request) PROVE OneRequest'
            BY <3>1 DEF Asks, Send, Note, Typed, TypeOK
        <3>2. CASE ServerEdits(c)
            <4>1. UNCHANGED <<stateVars, reviewVars, crossed>>
                BY <3>2 DEF ServerEdits, history
            <4>2. Open' = Open /\ \A d \in Open : calls'[d].job = calls[d].job
                BY <3>2, EditDone
            <4> QED
                BY <4>1, <4>2
        <3>3. CASE ServerStores(c)
            <4>1. UNCHANGED <<stateVars, reviewVars, crossed>>
                BY <3>3 DEF ServerStores, history
            <4>2. Open' = Open /\ \A d \in Open : calls'[d].job = calls[d].job
                BY <3>3, CommitDone
            <4> QED
                BY <4>1, <4>2
        <3>4. CASE Failed(c) \/ EditAnswered(c) \/ SkipAnswered(c) \/ CommitAnswered(c)
            BY <3>4 DEF Failed, EditAnswered, SkipAnswered, CommitAnswered, Closed, Note, history,
                        Typed, TypeOK
        <3> QED
            BY <2>5, <3>1, <3>2, <3>3, <3>4, CallCases
    <2>6. CASE UNCHANGED vars
        BY <2>6 DEF vars, history
    <2> QED
        BY <2>1, <2>2, <2>3, <2>4, <2>5, <2>6 DEF Next
<1> QED
    BY <1>1, <1>2, AlwaysTyped, AlwaysSingle, PTL DEF Spec

(***************************************************************************)
(* One click stores once                                                   *)
(***************************************************************************)

(* One commit is open at most.  When it has stored, it stays open until its *)
(* answer puts the job off the screen; a job that is stored is on the       *)
(* screen only until then.                                                  *)
OneCommit ==
    Calm({"lost"}) =>
        /\ \A u \in Uploads : stores[u] <= 1
        /\ \A c, d \in Open : calls[c].kind = "commit" /\ calls[d].kind = "commit" => c = d
        /\ \A c \in Open : calls[c].kind = "commit" /\ calls[c].stage = "sent"
                          => stores[calls[c].job] = 0
        /\ \A u \in Uploads : stores[u] # 0 /\ jobId = u =>
              \E c \in Open : /\ calls[c].kind = "commit" /\ calls[c].stage = "done"
                             /\ calls[c].job = u

(* An upload's receipts are stored a second time only after the answer to a *)
(* commit was lost, whatever else is begun or open meanwhile.               *)
THEOREM AlwaysStoredOnce == Spec => []StoredOnce
<1>1. Init => OneCommit
    BY DEF Init, OneCommit, Open
<1>2. ASSUME Typed, OneCommit, [Next]_vars PROVE OneCommit'
    <2> USE <1>2 DEF OneCommit, Calm, serverVars, stateVars
    <2>1. CASE FormStep
        BY <2>1, NoneAssumption
           DEF Open, FormStep, Choose, ReceiveShared, TakeOut, Cancel, StartOver, Note, Typed, TypeOK
    <2>2. CASE ReviewStep
        <3>1. UNCHANGED <<stores, jobId, calls>> /\ (Calm({"lost"})' => Calm({"lost"}))
            BY <2>2 DEF ReviewStep, Toggle, BackToPhotos, Turn, history, Note
        <3> QED
            BY <3>1 DEF Open
    <2>3. ASSUME NEW u \in Uploads, UploadStep(u) PROVE OneCommit'
        <3>1. CASE SubmitUpload(u) \/ \E files \in SUBSET Chats : ReadFromChat(u, files)
            BY <3>1, NoneAssumption DEF Open, SubmitUpload, ReadFromChat, Post, Note
        <3>2. CASE Accepted(u)
            BY <3>2 DEF Open, Accepted, history, Typed, TypeOK, ServerInv
        <3>3. CASE NotAccepted(u) \/ PollCompleted(u) \/ PollEnds(u) \/ PollGoesOn(u)
            BY <3>3 DEF Open, NotAccepted, PollCompleted, PollEnds, PollGoesOn, history
        <3> QED
            BY <2>3, <3>1, <3>2, <3>3 DEF UploadStep
    <2>4. ASSUME NEW u \in Uploads, NEW rs \in Readings, ReadJob(u, rs) PROVE OneCommit'
        BY <2>4 DEF Open, ReadJob, history
    <2>5. ASSUME NEW c \in Calls, CallStep(c) PROVE OneCommit'
        <3>1. ASSUME NEW request \in Call, Asks(c, request) PROVE OneCommit'
            <4>1. calls' = [calls EXCEPT ![c] = request] /\ calls[c] = None /\ request # None
                BY <3>1, NothingAssumption DEF Asks, Send
            <4>2. calls'[c] = request /\ \A d \in Calls \ {c} : calls'[d] = calls[d]
                BY <4>1 DEF Typed, TypeOK
            <4>3. Open' = Open \cup {c} /\ c \notin Open
                BY <4>1, <4>2 DEF Open
            <4>4. stores' = stores /\ jobId' = jobId /\ jobId \in Uploads
                BY <3>1, NoneAssumption DEF Asks, Send, Typed, TypeOK
            <4>5. Calm({"lost"})' => Calm({"lost"})
                BY <3>1 DEF Asks, Send, Note
            <4>6. request.kind = "commit" => \A d \in Open : calls[d].kind # "commit"
                BY <3>1 DEF Asks, Busy
            <4>7. request.job = jobId /\ request.stage = "sent"
                BY <3>1 DEF Asks
            <4>8. \A d \in Open : calls'[d] = calls[d]
                BY <4>2, <4>3 DEF Open
            <4>9. ASSUME Calm({"lost"})' PROVE request.kind = "commit" => stores[jobId] = 0
                BY <4>4, <4>5, <4>6, <4>9
            <4> HIDE DEF Calm
            <4> QED
                BY <4>2, <4>3, <4>4, <4>5, <4>6, <4>7, <4>8, <4>9
        <3>2. CASE ServerEdits(c)
            <4>1. stores' = stores /\ jobId' = jobId /\ crossed' = crossed
                BY <3>2 DEF ServerEdits, history
            <4>2. calls'[c].kind # "commit" /\ calls[c].kind # "commit"
                BY <3>2, EditDone DEF ServerEdits
            <4>3. Open' = Open /\ Open \subseteq Calls /\ \A d \in Calls \ {c} : calls'[d] = calls[d]
                BY <3>2, EditDone DEF Open
            <4> QED
                BY <4>1, <4>2, <4>3
        <3>3. CASE ServerStores(c)
            <4>1. jobId' = jobId /\ crossed' = crossed
                BY <3>3 DEF ServerStores, history
            <4>2. /\ Open' = Open /\ c \in Open /\ \A d \in Open \ {c} : calls'[d] = calls[d]
                  /\ calls'[c].kind = "commit" /\ calls[c].kind = "commit"
                  /\ calls[c].stage = "sent" /\ calls'[c].stage = "done"
                  /\ calls'[c].job = calls[c].job /\ calls[c].job \in Uploads
                BY <3>3, CommitDone DEF Open, ServerStores
            <4>3. /\ stores'[calls[c].job] = stores[calls[c].job] + 1
                  /\ \A u \in Uploads \ {calls[c].job} : stores'[u] = stores[u]
                BY <3>3, <4>2 DEF ServerStores, Typed, TypeOK
            <4> QED
                BY <4>1, <4>2, <4>3
        <3>4. CASE Failed(c)
            <4>1. stores' = stores /\ jobId' = jobId
                BY <3>4 DEF Failed
            <4>2. c \in Open /\ Open' = Open \ {c} /\ \A d \in Open' : calls'[d] = calls[d]
                BY <3>4 DEF Failed, Closed, Open, Typed, TypeOK
            <4>3. Calm({"lost"})' => Calm({"lost"}) /\ calls[c].stage # "done"
                BY <3>4 DEF Failed, Note
            <4> HIDE DEF Calm
            <4> QED
                BY <4>1, <4>2, <4>3
        <3>5. CASE EditAnswered(c) \/ SkipAnswered(c) \/ CommitAnswered(c)
            <4>1. stores' = stores /\ jobId' \in {jobId, None} /\ crossed' = crossed
                BY <3>5 DEF EditAnswered, SkipAnswered, CommitAnswered, StartOver, history
            <4>2. Open' = Open \ {c} /\ \A d \in Open' : calls'[d] = calls[d]
                BY <3>5 DEF EditAnswered, SkipAnswered, CommitAnswered, Closed, Open, Typed, TypeOK
            <4>3. calls[c].kind = "commit" => jobId' = None
                BY <3>5 DEF EditAnswered, SkipAnswered, CommitAnswered, StartOver
            <4> QED
                BY <4>1, <4>2, <4>3, NoneAssumption
        <3> QED
            BY <2>5, <3>1, <3>2, <3>3, <3>4, <3>5, CallCases
    <2>6. CASE UNCHANGED vars
        BY <2>6 DEF Open, vars, history
    <2> QED
        BY <2>1, <2>2, <2>3, <2>4, <2>5, <2>6 DEF Next
<1>3. OneCommit => StoredOnce
    BY DEF OneCommit, StoredOnce
<1> QED
    BY <1>1, <1>2, <1>3, AlwaysTyped, PTL DEF Spec

(***************************************************************************)
(* No photo is forgotten                                                   *)
(***************************************************************************)

(* What is on the form while an upload is posted, followed or reviewed has  *)
(* been sent, so an answer that clears the form loses nothing.              *)
PhotosInv ==
    Calm({"begun", "together", "late", "chat"}) =>
        /\ added \subseteq sent \cup removed \cup first \cup further \cup sharedWaiting
        /\ Reviewing \/ Posting # {} \/ Followed # {} => first \cup further \subseteq sent
        /\ Followed # {} => isProcessing

(* A patient user's photos are uploaded, on the form, waiting, or taken out. *)
THEOREM AlwaysPhotosAreKept == Spec => []PhotosAreKept
<1>1. Init => PhotosInv
    BY DEF Init, PhotosInv, Reviewing, Posting, Followed
<1>2. ASSUME Typed, SingleUpload, OneRequest, PhotosInv, [Next]_vars PROVE PhotosInv'
    <2> USE <1>2 DEF PhotosInv, Calm, serverVars, stateVars, formVars, reviewVars
    <2>1. ASSUME Filling, Calm({"begun"}) PROVE ~Reviewing /\ Posting = {} /\ Followed = {}
        BY <2>1 DEF Filling, SingleUpload
    <2>2. CASE FormStep
        <3>1. ASSUME NEW f \in Files, Choose(f, "first") \/ Choose(f, "further") PROVE PhotosInv'
            <4>1. UNCHANGED <<Posting, Followed, Reviewing>>
                BY <3>1 DEF Choose, Posting, Followed, Reviewing
            <4> QED
                BY <2>1, <3>1, <4>1 DEF Choose, Note
        <3>2. ASSUME NEW f \in Files, ReceiveShared(f) PROVE PhotosInv'
            <4>1. UNCHANGED <<Posting, Followed, Reviewing>>
                BY <3>2 DEF ReceiveShared, Posting, Followed, Reviewing
            <4> QED
                BY <3>2, <4>1 DEF ReceiveShared, Note, Reviewing
        <3>3. ASSUME NEW gone \in SUBSET (first \cup further), TakeOut(gone) PROVE PhotosInv'
            <4>1. UNCHANGED <<Posting, Followed, Reviewing>>
                BY <3>3 DEF TakeOut, Posting, Followed, Reviewing
            <4> QED
                BY <3>3, <4>1 DEF TakeOut
        <3>4. CASE Cancel
            <4>1. UNCHANGED <<Posting, Followed>> /\ ~Reviewing'
                BY <3>4 DEF Cancel, StartOver, Posting, Followed, Reviewing
            <4> QED
                BY <2>1, <3>4, <4>1 DEF Cancel, StartOver
        <3> QED
            BY <2>2, <3>1, <3>2, <3>3, <3>4 DEF FormStep
    <2>3. CASE ReviewStep
        <3>1. UNCHANGED <<Posting, Followed>> /\ (Reviewing' => Reviewing)
            BY <2>3, Steps DEF ReviewStep, Toggle, BackToPhotos, Turn, Posting, Followed, Reviewing
        <3> QED
            BY <2>3, <3>1 DEF ReviewStep, Toggle, BackToPhotos, Turn, history, Note
    <2>4. ASSUME NEW u \in Uploads, UploadStep(u) PROVE PhotosInv'
        <3>1. CASE SubmitUpload(u) \/ \E files \in SUBSET Chats : ReadFromChat(u, files)
            <4>1. polls' = polls
                BY <3>1 DEF SubmitUpload, ReadFromChat
            <4>2. Followed' = Followed
                BY <4>1 DEF Followed
            <4> QED
                BY <3>1, <4>2 DEF SubmitUpload, ReadFromChat, Post, Note, Unanswered
        <3>2. CASE Accepted(u)
            BY <3>2 DEF Accepted, Posting, Reviewing, history
        <3>3. CASE NotAccepted(u)
            <4>1. Followed' = Followed /\ ~Reviewing' /\ u \in Posting
                BY <3>3 DEF NotAccepted, Followed, Reviewing, Posting
            <4> QED
                BY <3>3, <4>1 DEF NotAccepted, history
        <3>4. CASE PollCompleted(u) \/ PollEnds(u)
            <4>1. Calm({"begun"}) => Followed' = {} /\ Posting' = {}
                <5>1. Followed' = Followed \ {u} /\ Posting' = Posting
                    BY <3>4 DEF PollCompleted, PollEnds, Unfollow, Followed, Posting, Typed, TypeOK
                <5> QED
                    BY <3>4, <5>1 DEF SingleUpload, PollCompleted, PollEnds
            <4>2. u \in Followed /\ UNCHANGED <<formVars, history>>
                BY <3>4 DEF PollCompleted, PollEnds
            <4> QED
                BY <4>1, <4>2 DEF history
        <3>5. CASE PollGoesOn(u)
            <4>1. UNCHANGED <<Posting, Reviewing>> /\ u \in Followed
                BY <3>5 DEF PollGoesOn, Posting, Reviewing
            <4> QED
                BY <3>5, <4>1 DEF PollGoesOn, history
        <3> QED
            BY <2>4, <3>1, <3>2, <3>3, <3>4, <3>5 DEF UploadStep
    <2>5. ASSUME NEW u \in Uploads, NEW rs \in Readings, ReadJob(u, rs) PROVE PhotosInv'
        <3>1. UNCHANGED <<Posting, Reviewing, Followed>>
            BY <2>5 DEF ReadJob, Posting, Reviewing, Followed, Typed, TypeOK
        <3> QED
            BY <2>5, <3>1 DEF ReadJob, history
    <2>6. ASSUME NEW c \in Calls, CallStep(c) PROVE PhotosInv'
        <3>1. UNCHANGED <<Posting, Followed>>
            BY <2>6, Elsewhere DEF Posting, Followed
        <3>2. ASSUME NEW request \in Call, Asks(c, request) PROVE PhotosInv'
            BY <3>1, <3>2 DEF Asks, Send, Note, Reviewing
        <3>3. CASE ServerEdits(c) \/ ServerStores(c) \/ Failed(c)
            BY <3>1, <3>3 DEF ServerEdits, ServerStores, Failed, Note, Reviewing, history
        <3>4. CASE EditAnswered(c) \/ SkipAnswered(c) \/ CommitAnswered(c)
            <4>1. Calm({"begun", "together"}) => Reviewing
                BY <3>4 DEF EditAnswered, SkipAnswered, CommitAnswered, OneRequest
            <4>2. UNCHANGED history
                BY <3>4 DEF EditAnswered, SkipAnswered, CommitAnswered
            <4>3. UNCHANGED <<stateVars, formVars>> \/ (StartOver /\ ~Reviewing')
                BY <3>4 DEF EditAnswered, SkipAnswered, CommitAnswered, StartOver, Reviewing
            <4>4. CASE UNCHANGED <<stateVars, formVars>>
                BY <3>1, <4>1, <4>2, <4>4 DEF history
            <4>5. CASE StartOver /\ ~Reviewing'
                <5>1. Calm({"begun"}) /\ Reviewing => Posting = {} /\ Followed = {}
                    BY DEF SingleUpload, Reviewing
                <5> QED
                    BY <3>1, <4>1, <4>2, <4>5, <5>1 DEF history, StartOver
            <4> QED
                BY <4>3, <4>4, <4>5
        <3> QED
            BY <2>6, <3>2, <3>3, <3>4, CallCases
    <2>7. CASE UNCHANGED vars
        BY <2>7 DEF vars, history, Posting, Followed, Reviewing
    <2> QED
        BY <2>2, <2>3, <2>4, <2>5, <2>6, <2>7 DEF Next
<1>3. PhotosInv => PhotosAreKept
    BY DEF PhotosInv, PhotosAreKept, Calm
<1> QED
    BY <1>1, <1>2, <1>3, AlwaysTyped, AlwaysSingle, AlwaysOneRequest, PTL DEF Spec

(***************************************************************************)
(* The review is what the server holds                                     *)
(***************************************************************************)

Settled(c) == calls[c].stage = "done" /\ calls[c].kind # "commit"

(* An edit that the server has made is on its way to the screen.            *)
CurrentInv ==
    Calm({"begun", "together", "lost"}) =>
        /\ Reviewing /\ (\A c \in Open : ~Settled(c)) => extractedData = Shown(jobId)
        /\ \A c \in Open : Settled(c) => calls[c].view = Shown(jobId)

(* The form and the choices of the review show no other readings.           *)
LEMMA CurrentForm ==
    ASSUME Typed, SingleUpload, OneRequest, CurrentInv, FormStep \/ ReviewStep
    PROVE  CurrentInv'
<1> USE DEF CurrentInv, Calm, Settled, serverVars, stateVars, reviewVars
<1>1. UNCHANGED <<Open, version, readings, calls>> /\ crossed \subseteq crossed'
    BY DEF FormStep, ReviewStep, Choose, ReceiveShared, TakeOut, Cancel, Toggle, BackToPhotos, Turn,
           Note, history, Open
<1>2. CASE UNCHANGED <<jobId, extractedData>> /\ (Reviewing' => Reviewing)
    <2>1. Shown(jobId)' = Shown(jobId)
        BY <1>1, <1>2 DEF Shown
    <2> QED
        BY <1>1, <1>2, <2>1
<1>3. CASE Cancel \/ BackToPhotos
    <2>1. Calm({"begun", "together"})' => Open = {}
        BY <1>3 DEF OneRequest, Cancel, Filling, BackToPhotos, Unanswered, Note
    <2>2. ~Reviewing'
        BY <1>3 DEF Cancel, StartOver, BackToPhotos, Reviewing
    <2> QED
        BY <1>1, <2>1, <2>2
<1> QED
    BY <1>2, <1>3, Steps DEF FormStep, ReviewStep, Choose, ReceiveShared, TakeOut, Toggle, Turn, Reviewing

(* Of the steps of an upload only a poller's result is shown, and it is what *)
(* the server holds of the job that is followed.                            *)
LEMMA CurrentUpload ==
    ASSUME NEW u \in Uploads, Typed, SingleUpload, CurrentInv, UploadStep(u)
    PROVE  CurrentInv'
<1> USE DEF CurrentInv, Calm, Settled, serverVars, stateVars, reviewVars
<1>1. UNCHANGED <<Open, version, readings, calls>> /\ crossed \subseteq crossed'
    BY DEF UploadStep, SubmitUpload, ReadFromChat, Post, Accepted, NotAccepted, PollCompleted, PollEnds,
           PollGoesOn, Note, history, Open
<1>2. CASE SubmitUpload(u) \/ \E files \in SUBSET Chats : ReadFromChat(u, files)
    <2>1. ~Reviewing' /\ (Calm({"begun"})' => Open = {})
        BY <1>2 DEF SubmitUpload, ReadFromChat, Post, Note, Unanswered, Reviewing
    <2> QED
        BY <1>1, <2>1
<1>3. CASE Accepted(u) \/ NotAccepted(u) \/ PollEnds(u)
    <2>1. Calm({"begun"}) => Open = {} /\ ~Reviewing'
        BY <1>3 DEF SingleUpload, Accepted, NotAccepted, PollEnds, Posting, Reviewing
    <2> QED
        BY <1>1, <2>1
<1>4. CASE PollCompleted(u)
    <2>1. Calm({"begun"}) => Open = {} /\ jobId = u
        BY <1>4 DEF SingleUpload, PollCompleted
    <2>2. extractedData' = Shown(u) /\ jobId' = jobId /\ Shown(u)' = Shown(u)
        BY <1>1, <1>4 DEF PollCompleted, Shown
    <2>3. jobId = u => Shown(jobId)' = Shown(u)
        BY <1>1, <1>4 DEF PollCompleted, Shown
    <2> QED
        BY <1>1, <2>1, <2>2, <2>3
<1>5. CASE PollGoesOn(u)
    <2>1. Shown(jobId)' = Shown(jobId) /\ UNCHANGED <<extractedData, Reviewing>>
        BY <1>5 DEF PollGoesOn, Shown, Reviewing
    <2> QED
        BY <1>1, <2>1
<1> QED
    BY <1>2, <1>3, <1>4, <1>5 DEF UploadStep

(* The end of a reading changes no job that is reviewed.                    *)
LEMMA CurrentRead ==
    ASSUME NEW u \in Uploads, NEW rs \in Readings, Typed, SingleUpload, OneRequest, CurrentInv,
           ReadJob(u, rs)
    PROVE  CurrentInv'
<1>1. UNCHANGED <<Open, Reviewing, jobId, extractedData, version, calls, crossed>>
    BY DEF ReadJob, Open, Reviewing, stateVars, reviewVars, history
<1>2. Calm({"begun"}) /\ Reviewing => jobId \in Uploads \ {u}
    BY DEF SingleUpload, ReadJob, Reviewing, Typed, TypeOK
<1>3. jobId \in Uploads \ {u} => Shown(jobId)' = Shown(jobId)
    BY <1>1 DEF ReadJob, Shown, Typed, TypeOK
<1>4. Calm({"begun", "together"}) /\ Open # {} => Reviewing
    BY DEF OneRequest
<1> QED
    BY <1>1, <1>2, <1>3, <1>4 DEF CurrentInv, Calm, Settled

(* The server edits what is shown, and the answer shows what it made of it. *)
LEMMA CurrentCall ==
    ASSUME NEW c \in Calls, Typed, SingleUpload, OneRequest, CurrentInv, CallStep(c)
    PROVE  CurrentInv'
<1> USE DEF CurrentInv, Calm, Settled, serverVars, stateVars, reviewVars
<1>1. ASSUME NEW request \in Call, Asks(c, request) PROVE CurrentInv'
    <2>1. UNCHANGED <<jobId, extractedData, readings, version, Reviewing>> /\ crossed \subseteq crossed'
        BY <1>1 DEF Asks, Send, Note, Reviewing
    <2>2. Shown(jobId)' = Shown(jobId)
        BY <2>1 DEF Shown
    <2>3. calls'[c].stage = "sent" /\ \A d \in Calls \ {c} : calls'[d] = calls[d]
        BY <1>1 DEF Asks, Send, Typed, TypeOK
    <2>4. Open' = Open \cup {c}
        BY <1>1, <2>3, NothingAssumption DEF Asks, Send, Open, Typed, TypeOK
    <2>5. c \notin Open
        BY <1>1 DEF Asks, Send, Open
    <2> QED
        BY <2>1, <2>2, <2>3, <2>4, <2>5 DEF Open
<1>2. CASE ServerEdits(c)
    <2>1. UNCHANGED <<jobId, crossed>>
        BY <1>2 DEF ServerEdits, history
    <2>2. Open' = Open /\ calls'[c].view = Shown(calls[c].job)' /\ calls'[c].stage = "done"
        BY <1>2, EditDone
    <2>3. calls'[c].job = calls[c].job /\ calls'[c].kind # "commit"
        <3>1. calls[c].kind # "commit"
            BY <1>2 DEF ServerEdits
        <3> QED
            BY <1>2, <3>1, EditDone
    <2>4. Calm({"begun", "together"}) => Open = {c} /\ jobId = calls[c].job
        BY <1>2 DEF OneRequest, ServerEdits
    <2>5. jobId = calls[c].job => calls'[c].view = Shown(jobId)'
        BY <2>1, <2>2, <2>3 DEF Shown
    <2> QED
        BY <2>1, <2>2, <2>3, <2>4, <2>5
<1>3. CASE ServerStores(c)
    <2>1. UNCHANGED <<jobId, extractedData, readings, version, Reviewing, crossed>>
        BY <1>3 DEF ServerStores, Reviewing, history
    <2>2. Shown(jobId)' = Shown(jobId)
        BY <2>1 DEF Shown
    <2>3. Open' = Open /\ calls'[c].kind = "commit" /\ \A d \in Calls \ {c} : calls'[d] = calls[d]
        BY <1>3, CommitDone DEF ServerStores
    <2>4. calls[c].kind = "commit" /\ Open \subseteq Calls
        BY <1>3 DEF ServerStores, Open
    <2> QED
        BY <2>1, <2>2, <2>3, <2>4
<1>4. CASE Failed(c)
    <2>1. UNCHANGED <<jobId, extractedData, readings, version, Reviewing>> /\ crossed \subseteq crossed'
        BY <1>4 DEF Failed, Note, Reviewing
    <2>2. Shown(jobId)' = Shown(jobId)
        BY <2>1 DEF Shown
    <2>3. c \in Open /\ Open' = Open \ {c} /\ \A d \in Open' : calls'[d] = calls[d]
        BY <1>4 DEF Failed, Closed, Open, Typed, TypeOK
    <2>4. "lost" \notin crossed' => ~Settled(c)
        BY <1>4 DEF Failed, Note
    <2> QED
        BY <2>1, <2>2, <2>3, <2>4
<1>5. CASE EditAnswered(c) \/ SkipAnswered(c) \/ CommitAnswered(c)
    <2>1. UNCHANGED <<readings, version, crossed>>
        BY <1>5 DEF EditAnswered, SkipAnswered, CommitAnswered, history
    <2>2. Open' = Open \ {c} /\ c \in Open
        BY <1>5 DEF EditAnswered, SkipAnswered, CommitAnswered, Closed, Open, Typed, TypeOK
    <2>3. Calm({"begun", "together"}) => Open' = {}
        BY <2>2 DEF OneRequest
    <2>4. ~Reviewing' \/ (jobId' = jobId /\ extractedData' = calls[c].view /\ Settled(c))
        BY <1>5 DEF EditAnswered, SkipAnswered, CommitAnswered, StartOver, Reviewing
    <2>5. jobId' = jobId => Shown(jobId)' = Shown(jobId)
        BY <2>1 DEF Shown
    <2> QED
        BY <2>1, <2>2, <2>3, <2>4, <2>5
<1> QED
    BY <1>1, <1>2, <1>3, <1>4, <1>5, CallCases

(* What is shown, with the edit on its way, is what the server holds.       *)
THEOREM AlwaysCurrent == Spec => []CurrentInv
<1>1. Init => CurrentInv
    BY DEF Init, CurrentInv, Reviewing, Open
<1>2. Typed /\ SingleUpload /\ OneRequest /\ CurrentInv /\ [Next]_vars => CurrentInv'
    <2>1. CurrentInv /\ UNCHANGED vars => CurrentInv'
        BY DEF CurrentInv, Settled, Shown, Open, Reviewing, Calm, vars, serverVars, stateVars, reviewVars,
               history
    <2> QED
        BY <2>1, CurrentForm, CurrentUpload, CurrentRead, CurrentCall DEF Next
<1> QED
    BY <1>1, <1>2, AlwaysTyped, AlwaysSingle, AlwaysOneRequest, PTL DEF Spec

(* With nothing open, a user who sends one request at a time and has lost   *)
(* no answer decides on what the server holds.                              *)
THEOREM AlwaysReviewIsCurrent == Spec => []ReviewIsCurrent
<1>1. CurrentInv => ReviewIsCurrent
    BY DEF CurrentInv, ReviewIsCurrent, AtRest
<1> QED
    BY <1>1, AlwaysCurrent, PTL

(***************************************************************************)
(* What is selected can be stored                                          *)
(***************************************************************************)

Fresh(u) == job[u] = "completed" => \A i \in Items : ~readings[u][i].out

(* The selection is of receipts that are offered, and an answer on its way  *)
(* withdraws the receipt that was skipped, and no other.                    *)
StorableInv ==
    Calm({"begun", "together", "lost"}) =>
        /\ \A u \in Followed : Fresh(u)
        /\ Reviewing => \A i \in selectedIndices : ~extractedData.receipts[i].out
                                                 /\ ~extractedData.receipts[i].barred
        /\ \A c \in Open : Settled(c) =>
              \A i \in Items :
                /\ calls[c].view.receipts[i].barred => extractedData.receipts[i].barred
                /\ calls[c].view.receipts[i].out =>
                     extractedData.receipts[i].out \/ (calls[c].kind = "skip" /\ calls[c].item = i)

(* The form shows no review; a receipt is chosen among those offered.       *)
LEMMA StorableForm ==
    ASSUME Typed, SingleUpload, OneRequest, StorableInv, FormStep \/ ReviewStep
    PROVE  StorableInv'
<1> USE DEF StorableInv, Calm, Settled, serverVars, stateVars, reviewVars
<1>1. UNCHANGED <<Open, Followed, job, readings, calls>> /\ crossed \subseteq crossed'
    <2>1. UNCHANGED <<job, readings, calls, polls>> /\ crossed \subseteq crossed'
        <3>1. CASE FormStep
            BY <3>1 DEF FormStep, Choose, ReceiveShared, TakeOut, Cancel, Note, history
        <3>2. CASE ReviewStep
            BY <3>2 DEF ReviewStep, Toggle, BackToPhotos, Turn, Note, history
        <3> QED
            BY <3>1, <3>2
    <2> QED
        BY <2>1 DEF Open, Followed
<1>2. \A u \in Uploads : Fresh(u)' = Fresh(u)
    BY <1>1 DEF Fresh
<1>3. CASE UNCHANGED <<selectedIndices, extractedData>> /\ (Reviewing' => Reviewing)
    BY <1>1, <1>2, <1>3 DEF Followed
<1>4. CASE Cancel \/ BackToPhotos
    <2>1. Calm({"begun", "together"})' => Open = {}
        BY <1>4 DEF OneRequest, Cancel, Filling, BackToPhotos, Unanswered, Note
    <2>2. ~Reviewing'
        BY <1>4 DEF Cancel, StartOver, BackToPhotos, Reviewing
    <2> QED
        BY <1>1, <1>2, <2>1, <2>2 DEF Followed
<1>5. ASSUME NEW i \in Items, Toggle(i) PROVE StorableInv'
    <2>1. /\ Offered(i) /\ UNCHANGED <<extractedData, Reviewing>>
          /\ selectedIndices' \subseteq selectedIndices \cup {i}
        BY <1>5 DEF Toggle, Reviewing
    <2> QED
        BY <1>1, <1>2, <2>1 DEF Followed, Offered
<1> QED
    BY <1>3, <1>4, <1>5, Steps DEF FormStep, ReviewStep, Choose, ReceiveShared, TakeOut, Turn, Reviewing

(* A poller selects what the user does not have yet; nothing is skipped then. *)
LEMMA StorableUpload ==
    ASSUME NEW u \in Uploads, Typed, SingleUpload, StorableInv, UploadStep(u)
    PROVE  StorableInv'
<1> USE DEF StorableInv, Calm, Settled, serverVars, stateVars, reviewVars
<1>1. UNCHANGED <<Open, readings, calls>> /\ crossed \subseteq crossed'
    BY DEF UploadStep, SubmitUpload, ReadFromChat, Post, Accepted, NotAccepted, PollCompleted, PollEnds,
           PollGoesOn, Note, history, Open
<1>2. \A w \in Uploads : Fresh(w) => Fresh(w)'
    BY <1>1 DEF Fresh, UploadStep, SubmitUpload, ReadFromChat, Post, Accepted, NotAccepted,
                PollCompleted, PollEnds, PollGoesOn, Typed, TypeOK
<1>3. CASE SubmitUpload(u) \/ \E files \in SUBSET Chats : ReadFromChat(u, files)
    <2>1. ~Reviewing' /\ (Calm({"begun"})' => Open = {}) /\ polls' = polls
        BY <1>3 DEF SubmitUpload, ReadFromChat, Post, Note, Unanswered, Reviewing
    <2> QED
        BY <1>1, <1>2, <2>1 DEF Followed
<1>4. CASE Accepted(u) \/ NotAccepted(u) \/ PollEnds(u)
    <2>1. Calm({"begun"}) => Open = {} /\ ~Reviewing'
        BY <1>4 DEF SingleUpload, Accepted, NotAccepted, PollEnds, Posting, Reviewing
    <2>2. Followed' \subseteq Followed \cup {u} /\ (u \in Followed \/ ~PollEnds(u))
        BY <1>4 DEF Accepted, NotAccepted, PollEnds, Unfollow, Followed, Typed, TypeOK
    <2>3. u \in Followed' => u \in Followed \/ Fresh(u)'
        BY <1>4 DEF Accepted, NotAccepted, PollEnds, Followed, Fresh, Typed, TypeOK
    <2>4. Followed \subseteq Uploads
        BY DEF Followed
    <2>5. Calm({"begun", "together", "lost"}) => \A w \in Followed' : Fresh(w)'
        BY <1>1, <1>2, <2>2, <2>3, <2>4
    <2> QED
        BY <1>1, <2>1, <2>5
<1>5. CASE PollCompleted(u)
    <2>1. Calm({"begun"}) => Open = {}
        BY <1>5 DEF SingleUpload, PollCompleted
    <2>2. /\ u \in Followed /\ extractedData' = Shown(u)
          /\ selectedIndices' = {i \in Items : ~readings[u][i].barred}
          /\ job[u] = "completed"
        BY <1>5 DEF PollCompleted
    <2>3. Followed' \subseteq Followed
        BY <1>5 DEF PollCompleted, Unfollow, Followed, Typed, TypeOK
    <2>4. extractedData'.receipts = readings[u]
        BY <2>2 DEF Shown
    <2>5. Fresh(u) => \A i \in selectedIndices' : ~readings[u][i].out /\ ~readings[u][i].barred
        BY <2>2 DEF Fresh
    <2> QED
        BY <1>1, <1>2, <2>1, <2>2, <2>3, <2>4, <2>5 DEF Followed
<1>6. CASE PollGoesOn(u)
    <2>1. UNCHANGED <<extractedData, selectedIndices, Reviewing>>
        BY <1>6 DEF PollGoesOn, Reviewing
    <2>2. Followed' \subseteq Followed
        BY <1>6 DEF PollGoesOn, Followed, Typed, TypeOK
    <2> QED
        BY <1>1, <1>2, <2>1, <2>2 DEF Followed
<1> QED
    BY <1>3, <1>4, <1>5, <1>6 DEF UploadStep

(* A new reading has nothing skipped.                                       *)
LEMMA StorableRead ==
    ASSUME NEW u \in Uploads, NEW rs \in Readings, Typed, StorableInv, ReadJob(u, rs)
    PROVE  StorableInv'
<1>1. UNCHANGED <<Open, Reviewing, Followed, extractedData, selectedIndices, calls, crossed>>
    BY DEF ReadJob, Open, Reviewing, Followed, stateVars, reviewVars, history
<1>2. \A w \in Uploads : Fresh(w) => Fresh(w)'
    BY FreshAssumption DEF Fresh, ReadJob, Typed, TypeOK
<1> QED
    BY <1>1, <1>2 DEF StorableInv, Calm, Settled, Followed

(* A request is answered with the readings it was asked of, edited.         *)
LEMMA StorableCall ==
    ASSUME NEW c \in Calls, Typed, SingleUpload, OneRequest, CurrentInv, StorableInv, CallStep(c)
    PROVE  StorableInv'
<1> USE DEF StorableInv, Calm, Settled, serverVars, stateVars, reviewVars
<1>0. Followed' = Followed
    BY Elsewhere DEF Followed
<1>1. ASSUME NEW request \in Call, Asks(c, request) PROVE StorableInv'
    <2>1. UNCHANGED <<selectedIndices, extractedData, job, readings, Reviewing>> /\ crossed \subseteq crossed'
        BY <1>1 DEF Asks, Send, Note, Reviewing
    <2>2. calls'[c].stage = "sent" /\ \A d \in Calls \ {c} : calls'[d] = calls[d]
        BY <1>1 DEF Asks, Send, Typed, TypeOK
    <2>3. Open' \subseteq Open \cup {c} /\ c \notin Open /\ Open \subseteq Calls
        BY <1>1, <2>2 DEF Asks, Send, Open
    <2>4. \A u \in Uploads : Fresh(u)' = Fresh(u)
        BY <2>1 DEF Fresh
    <2>5. \A d \in Open' : Settled(d)' => d \in Open /\ calls'[d] = calls[d]
        BY <2>2, <2>3
    <2> QED
        BY <1>0, <2>1, <2>4, <2>5 DEF Followed
<1>2. CASE ServerEdits(c)
    <2> DEFINE u == calls[c].job
               i == calls[c].item
    <2>1. UNCHANGED <<selectedIndices, extractedData, Reviewing, crossed>>
        BY <1>2 DEF ServerEdits, Reviewing, history
    <2>2. Open' = Open /\ calls'[c].view = Shown(u)' /\ calls'[c].job = u
          /\ calls'[c].kind = calls[c].kind /\ calls'[c].item = i /\ u \in Uploads
        BY <1>2, EditDone
    <2>3. calls'[c].view.receipts = readings'[u]
        BY <2>2 DEF Shown
    <2>4. readings'[u] = [readings[u] EXCEPT ![i] = Edited(@, calls[c].kind)] /\ readings[u] \in Reading
        BY <1>2, <2>2 DEF ServerEdits, Typed, TypeOK
    <2>5. ASSUME NEW k \in Items
          PROVE  /\ readings'[u][k].barred => readings[u][k].barred
                 /\ readings'[u][k].out => readings[u][k].out \/ (calls[c].kind = "skip" /\ i = k)
        <3>1. readings'[u][k] = IF i = k THEN Edited(readings[u][k], calls[c].kind) ELSE readings[u][k]
            BY <2>4 DEF Reading
        <3>2. readings[u][k] \in Receipt
            BY <2>4 DEF Reading
        <3> HIDE DEF u, i
        <3> QED
            BY <3>1, <3>2, EditedOnly
    <2>6. Calm({"begun", "together", "lost"})
             => Open = {c} /\ Followed = {} /\ extractedData.receipts = readings[u]
        <3>1. Calm({"begun", "together", "lost"}) => Open = {c} /\ Reviewing /\ jobId = u
            BY <1>2 DEF OneRequest, ServerEdits
        <3>2. Calm({"begun", "together", "lost"}) => extractedData = Shown(u)
            BY <1>2, <3>1 DEF CurrentInv, ServerEdits
        <3>3. Calm({"begun"}) /\ Open # {} => Followed = {}
            BY DEF SingleUpload
        <3> QED
            BY <3>1, <3>2, <3>3 DEF Shown
    <2>7. SUFFICES ASSUME Calm({"begun", "together", "lost"})', NEW k \in Items
                   PROVE  /\ Reviewing' /\ k \in selectedIndices'
                             => ~extractedData'.receipts[k].out /\ ~extractedData'.receipts[k].barred
                          /\ calls'[c].view.receipts[k].barred => extractedData'.receipts[k].barred
                          /\ calls'[c].view.receipts[k].out =>
                                extractedData'.receipts[k].out \/ (calls'[c].kind = "skip" /\ calls'[c].item = k)
        BY <1>0, <2>1, <2>2, <2>6 DEF Typed, TypeOK
    <2>8. /\ extractedData'.receipts = readings[u] /\ extractedData.receipts = readings[u]
          /\ Reviewing' = Reviewing /\ selectedIndices' = selectedIndices
          /\ Calm({"begun", "together", "lost"})
        BY <2>1, <2>6, <2>7
    <2>9. Reviewing /\ k \in selectedIndices => ~readings[u][k].out /\ ~readings[u][k].barred
        BY <2>8
    <2> HIDE DEF StorableInv, Calm, Settled
    <2>10. Reviewing' /\ k \in selectedIndices'
              => ~extractedData'.receipts[k].out /\ ~extractedData'.receipts[k].barred
        BY <2>8, <2>9
    <2>11. calls'[c].view.receipts[k] = readings'[u][k] /\ extractedData'.receipts[k] = readings[u][k]
        BY <2>3, <2>8
    <2>12. /\ readings'[u][k].barred => readings[u][k].barred
           /\ readings'[u][k].out => readings[u][k].out \/ (calls[c].kind = "skip" /\ i = k)
        BY <2>5
    <2>13. calls'[c].kind = calls[c].kind /\ calls'[c].item = i
        BY <2>2
    <2> QED
        BY <2>10, <2>11, <2>12, <2>13
<1>3. CASE ServerStores(c) \/ Failed(c)
    <2>1. UNCHANGED <<selectedIndices, extractedData, job, readings, Reviewing>> /\ crossed \subseteq crossed'
        BY <1>3 DEF ServerStores, Failed, Note, Reviewing, history
    <2>2. \A u \in Uploads : Fresh(u)' = Fresh(u)
        BY <2>1 DEF Fresh
    <2>3. \A d \in Open' : Settled(d)' => d \in Open /\ calls'[d] = calls[d]
        <3>1. CASE ServerStores(c)
            BY <3>1, CommitDone DEF ServerStores, Open
        <3>2. CASE Failed(c)
            BY <3>2 DEF Failed, Closed, Open, Typed, TypeOK
        <3> QED
            BY <1>3, <3>1, <3>2
    <2> QED
        BY <1>0, <2>1, <2>2, <2>3 DEF Followed
<1>4. CASE EditAnswered(c) \/ SkipAnswered(c) \/ CommitAnswered(c)
    <2>1. UNCHANGED <<job, readings, crossed>>
        BY <1>4 DEF EditAnswered, SkipAnswered, CommitAnswered, history
    <2>2. \A u \in Uploads : Fresh(u)' = Fresh(u)
        BY <2>1 DEF Fresh
    <2>3. Open' = Open \ {c} /\ c \in Open
        BY <1>4 DEF EditAnswered, SkipAnswered, CommitAnswered, Closed, Open, Typed, TypeOK
    <2>4. Calm({"begun", "together"}) => Open' = {} /\ Reviewing
        BY <2>3 DEF OneRequest
    <2>5. \/ ~Reviewing'
          \/ /\ Settled(c) /\ extractedData' = calls[c].view /\ selectedIndices' \subseteq selectedIndices
             /\ calls[c].kind = "skip" => calls[c].item \notin selectedIndices'
        BY <1>4 DEF EditAnswered, SkipAnswered, CommitAnswered, StartOver, Reviewing
    <2> QED
        BY <1>0, <2>1, <2>2, <2>3, <2>4, <2>5 DEF Followed, Typed, TypeOK
<1> QED
    BY <1>1, <1>2, <1>3, <1>4, CallCases

(* What the button counts is what the commit would store, for a user who    *)
(* sends one request at a time and has lost no answer.                      *)
THEOREM AlwaysStorable == Spec => []SelectionIsStorable
<1>1. Init => StorableInv
    BY DEF Init, StorableInv, Reviewing, Open, Followed
<1>2. Typed /\ SingleUpload /\ OneRequest /\ CurrentInv /\ StorableInv /\ [Next]_vars => StorableInv'
    <2>1. StorableInv /\ UNCHANGED vars => StorableInv'
        BY DEF StorableInv, Settled, Fresh, Open, Followed, Reviewing, Calm, vars, serverVars, stateVars,
               reviewVars, history
    <2> QED
        BY <2>1, StorableForm, StorableUpload, StorableRead, StorableCall DEF Next
<1>3. StorableInv => SelectionIsStorable
    BY DEF StorableInv, SelectionIsStorable, Calm
<1> QED
    BY <1>1, <1>2, <1>3, AlwaysTyped, AlwaysSingle, AlwaysOneRequest, AlwaysCurrent, PTL DEF Spec

=============================================================================
