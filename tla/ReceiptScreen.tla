--------------------------- MODULE ReceiptScreen ---------------------------
(***************************************************************************)
(* The dialog of one stored receipt (stores/ReceiptStore.ts and the modals *)
(* of features/receipts): the receipt that is selected, the detail that is *)
(* shown, the draft of its correction, the deletion that is asked about.   *)
(* Some answers are dropped when another receipt is selected meanwhile,    *)
(* some are written whatever is selected.                                  *)
(***************************************************************************)
EXTENDS Integers, FiniteSets

CONSTANTS
    Receipts,     \* the stored receipts
    Calls,        \* requests that may be open at once
    None,         \* no receipt, no detail, no request
    MaxRevisions  \* bound: the changes the server makes to one receipt

VARIABLES
    alive, revision,           \* the server: the receipts, how often each was changed
    selectedReceiptId, receiptDetail, isLoadingDetail,
    isEditingReceipt, draft,   \* the correction dialog, and what its fields were filled from
    pendingDeleteId,
    calls,                     \* the requests that have not been answered
    crossed,                   \* what has been done that a patient user would not do
    harmed                     \* what has come of it: a correction undone, a draft dropped

serverVars == <<alive, revision>>
dialogVars == <<receiptDetail, isEditingReceipt, draft>>
history == <<crossed, harmed>>
vars == <<serverVars, selectedReceiptId, isLoadingDetail, dialogVars, pendingDeleteId, calls,
          history>>

Detail == [id : Receipts, revision : 0..MaxRevisions]

(* change: setPrivacy, setDiscount, recategoriseReceipt, undoLineCorrection *)
(* and keepPossibleDuplicate; refetch: the list, after a correction.        *)
Kinds == {"detail", "reload", "change", "edit", "refetch", "delete"}
Call == [kind : Kinds, id : Receipts, base : 0..MaxRevisions,
         answer : 0..MaxRevisions \cup {None}]

TypeOK ==
    /\ alive \subseteq Receipts
    /\ revision \in [Receipts -> 0..MaxRevisions]
    /\ selectedReceiptId \in Receipts \cup {None}
    /\ receiptDetail \in Detail \cup {None}
    /\ isLoadingDetail \in BOOLEAN
    /\ isEditingReceipt \in BOOLEAN
    /\ draft \in Detail \cup {None}
    /\ pendingDeleteId \in Receipts \cup {None}
    /\ calls \in [Calls -> Call \cup {None}]
    /\ crossed \subseteq {"left", "early", "again"}
    /\ harmed \subseteq {"correction", "draft", "receipt"}

Init ==
    /\ alive = Receipts /\ revision = [r \in Receipts |-> 0]
    /\ selectedReceiptId = None /\ receiptDetail = None /\ isLoadingDetail = FALSE
    /\ isEditingReceipt = FALSE /\ draft = None
    /\ pendingDeleteId = None
    /\ calls = [c \in Calls |-> None]
    /\ crossed = {} /\ harmed = {}

Open(kinds) == {c \in Calls : calls[c] # None /\ calls[c].kind \in kinds}
Shown == selectedReceiptId # None /\ ~isLoadingDetail /\ receiptDetail # None

Note(mark, when) == crossed' = IF when THEN crossed \cup {mark} ELSE crossed

(* EditReceiptDialog: its fields are filled when it opens, and filled again *)
(* only for another receipt.                                                *)
Show(detail, editing) ==
    /\ receiptDetail' = detail
    /\ isEditingReceipt' = editing
    /\ draft' = IF ~editing \/ detail = None THEN None
                ELSE IF draft # None /\ draft.id = detail.id THEN draft ELSE detail

Writes == {"change", "edit"}

(* Two requests are open at once, and one of them changes the receipt.      *)
Early(kind) == IF Open(Writes) # {} \/ (kind \in Writes /\ Open(Kinds \ {"refetch"}) # {})
               THEN {"early"} ELSE {}

Send(c, kind, id, base) ==
    /\ calls[c] = None
    /\ calls' = [calls EXCEPT ![c] = [kind |-> kind, id |-> id, base |-> base, answer |-> None]]

(***************************************************************************)
(* What the user does                                                      *)
(***************************************************************************)

(* fetchReceiptDetail, from a list or from a link to a receipt.             *)
Select(c, r) ==
    /\ Send(c, "detail", r, 0)
    /\ selectedReceiptId' = r
    /\ isLoadingDetail' = TRUE
    /\ Show(None, isEditingReceipt)
    /\ crossed' = crossed \cup Early("detail")
                     \cup (IF Open({"detail", "edit"}) # {} \/ (pendingDeleteId # None /\ receiptDetail # None)
                           THEN {"left"} ELSE {})
    /\ UNCHANGED <<serverVars, pendingDeleteId, harmed>>

(* clearSelection; Escape closes the dialogs over it too.                   *)
Clear ==
    /\ selectedReceiptId' = None
    /\ Show(None, FALSE)
    /\ UNCHANGED isLoadingDetail

Close ==
    /\ selectedReceiptId # None
    /\ Clear
    /\ pendingDeleteId' = None
    /\ Note("left", Open({"detail", "edit"}) # {})
    /\ UNCHANGED <<serverVars, calls, harmed>>

StartEditing ==
    /\ Shown /\ ~isEditingReceipt /\ pendingDeleteId = None
    /\ Show(receiptDetail, TRUE)
    /\ crossed' = crossed \cup Early("edit")
                          \cup (IF Open({"edit", "refetch"}) # {} THEN {"again"} ELSE {})
    /\ UNCHANGED <<serverVars, selectedReceiptId, isLoadingDetail, pendingDeleteId, calls, harmed>>

CancelEditing ==
    /\ Shown /\ isEditingReceipt
    /\ Show(receiptDetail, FALSE)
    /\ UNCHANGED <<serverVars, selectedReceiptId, isLoadingDetail, pendingDeleteId, calls, history>>

(* updateReceipt sends the whole receipt as the draft has it.               *)
Save(c) ==
    /\ Shown /\ isEditingReceipt /\ draft # None /\ Open({"edit"}) = {}
    /\ Send(c, "edit", draft.id, draft.revision)
    /\ crossed' = crossed \cup Early("edit")
    /\ UNCHANGED <<serverVars, selectedReceiptId, isLoadingDetail, dialogVars, pendingDeleteId,
                   harmed>>

(* setPrivacy, setDiscount, recategoriseReceipt, keepPossibleDuplicate and  *)
(* undoLineCorrection act on the selected receipt; each button holds itself, *)
(* and not the others.                                                      *)
Change(c) ==
    /\ Shown /\ ~isEditingReceipt /\ pendingDeleteId = None
    /\ Send(c, "change", selectedReceiptId, 0)
    /\ crossed' = crossed \cup Early("change")
    /\ UNCHANGED <<serverVars, selectedReceiptId, isLoadingDetail, dialogVars, pendingDeleteId,
                   harmed>>

(* reloadReceiptDetail, after a category was chosen.                        *)
Reload(c) ==
    /\ Shown /\ ~isEditingReceipt
    /\ Send(c, "reload", selectedReceiptId, 0)
    /\ crossed' = crossed \cup Early("reload")
    /\ UNCHANGED <<serverVars, selectedReceiptId, isLoadingDetail, dialogVars, pendingDeleteId,
                   harmed>>

(* confirmDelete asks about the receipt that is shown.                      *)
AskDelete ==
    /\ Shown /\ ~isEditingReceipt /\ pendingDeleteId = None
    /\ pendingDeleteId' = receiptDetail.id
    /\ UNCHANGED <<serverVars, selectedReceiptId, isLoadingDetail, dialogVars, calls, history>>

CancelDelete ==
    /\ pendingDeleteId # None /\ receiptDetail # None
    /\ pendingDeleteId' = None
    /\ UNCHANGED <<serverVars, selectedReceiptId, isLoadingDetail, dialogVars, calls, history>>

(* DeleteReceiptDialog: open while a deletion is asked about, it names and  *)
(* deletes the receipt whose detail is there.                               *)
Delete(c) ==
    /\ pendingDeleteId # None /\ receiptDetail # None /\ Open({"delete"}) = {}
    /\ Send(c, "delete", receiptDetail.id, 0)
    /\ harmed' = IF receiptDetail.id = pendingDeleteId THEN harmed ELSE harmed \cup {"receipt"}
    /\ UNCHANGED <<serverVars, selectedReceiptId, isLoadingDetail, dialogVars, pendingDeleteId,
                   crossed>>

(***************************************************************************)
(* The server, and its answers                                             *)
(***************************************************************************)

(* A correction writes the whole receipt, whatever changed since it was     *)
(* read (services/receipt.py, update_receipt).                              *)
Serve(c) ==
    LET call == calls[c]
        r == call.id
    IN  /\ call # None /\ call.answer = None
        /\ r \in alive
        /\ call.kind \in Writes => revision[r] < MaxRevisions
        /\ revision' = IF call.kind \in Writes THEN [revision EXCEPT ![r] = @ + 1] ELSE revision
        /\ alive' = IF call.kind = "delete" THEN alive \ {r} ELSE alive
        /\ calls' = [calls EXCEPT ![c].answer = revision'[r]]
        /\ harmed' = IF call.kind = "edit" /\ call.base # revision[r]
                     THEN harmed \cup {"correction"} ELSE harmed
        /\ UNCHANGED <<selectedReceiptId, isLoadingDetail, dialogVars, pendingDeleteId, crossed>>

Answered(c, kinds) == calls[c] # None /\ calls[c].kind \in kinds /\ calls[c].answer # None
Answer(c) == [id |-> calls[c].id, revision |-> calls[c].answer]
Closed(c) == calls' = [calls EXCEPT ![c] = None]

(* fetchReceiptDetail's answer is shown whichever receipt is selected now.  *)
DetailAnswered(c) ==
    /\ Answered(c, {"detail"})
    /\ Closed(c)
    /\ Show(Answer(c), isEditingReceipt)
    /\ isLoadingDetail' = FALSE
    /\ UNCHANGED <<serverVars, selectedReceiptId, pendingDeleteId, history>>

(* Mutated ChangeAnswered: the answer is shown whatever is selected, or it  *)
(* closes the correction that has been opened since.                        *)
ChangeAnsweredAnyway(c) ==
    /\ Answered(c, {"change", "reload"})
    /\ Closed(c)
    /\ Show(Answer(c), isEditingReceipt)
    /\ UNCHANGED <<serverVars, selectedReceiptId, isLoadingDetail, pendingDeleteId, history>>
ChangeAnsweredClosing(c) ==
    /\ Answered(c, {"change", "reload"})
    /\ Closed(c)
    /\ IF selectedReceiptId = calls[c].id THEN Show(Answer(c), FALSE) ELSE UNCHANGED dialogVars
    /\ harmed' = IF draft # None /\ draft' = None THEN harmed \cup {"draft"} ELSE harmed
    /\ UNCHANGED <<serverVars, selectedReceiptId, isLoadingDetail, pendingDeleteId, crossed>>

(* The others look whether their receipt is still the selected one.         *)
ChangeAnswered(c) ==
    /\ Answered(c, {"change", "reload"})
    /\ Closed(c)
    /\ IF selectedReceiptId = calls[c].id THEN Show(Answer(c), isEditingReceipt)
                                          ELSE UNCHANGED dialogVars
    /\ UNCHANGED <<serverVars, selectedReceiptId, isLoadingDetail, pendingDeleteId, history>>

DropDraft(c) ==
    harmed' = IF draft # None /\ [kind |-> "edit", id |-> draft.id, base |-> draft.revision] #
                                     [kind |-> calls[c].kind, id |-> calls[c].id,
                                      base |-> calls[c].base]
              THEN harmed \cup {"draft"} ELSE harmed

(* Mutated EditAnswered: the detail stays as it was before the correction.  *)
EditAnsweredUnread(c) ==
    /\ Answered(c, {"edit"})
    /\ calls' = [calls EXCEPT ![c].kind = "refetch"]
    /\ Show(receiptDetail, FALSE)
    /\ DropDraft(c)
    /\ UNCHANGED <<serverVars, selectedReceiptId, isLoadingDetail, pendingDeleteId, crossed>>

(* updateReceipt: the corrected receipt is shown and the dialog closed,     *)
(* whatever is selected; then the list is fetched again.                    *)
EditAnswered(c) ==
    /\ Answered(c, {"edit"})
    /\ calls' = [calls EXCEPT ![c].kind = "refetch"]
    /\ Show(Answer(c), FALSE)
    /\ DropDraft(c)
    /\ UNCHANGED <<serverVars, selectedReceiptId, isLoadingDetail, pendingDeleteId, crossed>>

(* The list is there: the dialog that saved closes what is open.            *)
RefetchAnswered(c) ==
    /\ Answered(c, {"refetch"})
    /\ Closed(c)
    /\ Show(receiptDetail, FALSE)
    /\ DropDraft(c)
    /\ UNCHANGED <<serverVars, selectedReceiptId, isLoadingDetail, pendingDeleteId, crossed>>

(* Mutated DeleteAnswered: the question stays asked.                        *)
DeleteAnsweredStillAsking(c) ==
    /\ Answered(c, {"delete"})
    /\ Closed(c)
    /\ IF selectedReceiptId = calls[c].id THEN Clear
       ELSE UNCHANGED <<selectedReceiptId, isLoadingDetail, dialogVars>>
    /\ UNCHANGED <<serverVars, pendingDeleteId, history>>

DeleteAnswered(c) ==
    /\ Answered(c, {"delete"})
    /\ Closed(c)
    /\ pendingDeleteId' = None
    /\ IF selectedReceiptId = calls[c].id THEN Clear
       ELSE UNCHANGED <<selectedReceiptId, isLoadingDetail, dialogVars>>
    /\ UNCHANGED <<serverVars, history>>

(* Refused, or lost: a detail that fails stops loading, the rest stays.     *)
Failed(c) ==
    /\ Open(Kinds \ {"refetch"}) \cap {c} # {}
    /\ Closed(c)
    /\ isLoadingDetail' = IF calls[c].kind = "detail" THEN FALSE ELSE isLoadingDetail
    /\ Note("early", calls[c].answer # None)
    /\ UNCHANGED <<serverVars, selectedReceiptId, dialogVars, pendingDeleteId, harmed>>

Next ==
    \/ Close \/ StartEditing \/ CancelEditing \/ AskDelete \/ CancelDelete
    \/ \E c \in Calls :
        \/ \E r \in Receipts : Select(c, r)
        \/ Save(c) \/ Change(c) \/ Reload(c) \/ Delete(c)
        \/ Serve(c)
        \/ DetailAnswered(c) \/ ChangeAnswered(c) \/ EditAnswered(c) \/ RefetchAnswered(c)
        \/ DeleteAnswered(c) \/ Failed(c)

Spec == Init /\ [][Next]_vars

(***************************************************************************)
(* Properties                                                              *)
(***************************************************************************)

(* The detail on the screen is that of the selected receipt, which the      *)
(* buttons for privacy, discount and categories act on; a dialog that is    *)
(* left or changed while a detail or a correction is on its way may show    *)
(* another one's.                                                           *)
ShowsTheSelected ==
    "left" \notin crossed /\ selectedReceiptId # None /\ receiptDetail # None =>
        receiptDetail.id = selectedReceiptId

(* Only the receipt the user asked to delete is deleted.                    *)
DeletesTheAsked == "left" \notin crossed => "receipt" \notin harmed

(* A correction replaces the receipt it was made from: nothing the server   *)
(* did since, an undone name or a category, is written over, unless the     *)
(* draft was begun while such a change was open, or its answer was lost.    *)
CorrectsWhatWasRead == "early" \notin crossed => "correction" \notin harmed

(* An answer closes only the correction it answers, unless another receipt  *)
(* was selected, or another correction begun, while one was on its way.     *)
DraftsAreKept == crossed \cap {"left", "again"} = {} => "draft" \notin harmed

=============================================================================
