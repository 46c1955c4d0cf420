-------------------------- MODULE ReceiptStoreProofs --------------------------
(***************************************************************************)
(* Proofs about the dialog of a receipt and the list of receipts, the two  *)
(* halves of stores/ReceiptStore.ts, in the composition of the client's    *)
(* stores: a step of the client is a step of the dialog, or leaves it.     *)
(***************************************************************************)
EXTENDS MCClient, TLAPS

(***************************************************************************)
(* The dialog within the client                                            *)
(***************************************************************************)

(* What the client begins with, and does, the dialog begins with, and does. *)
LEMMA DialogBegins == ClientInit => Dialog!Init
BY DEF ClientInit

LEMMA DialogMoves == [ClientNext]_clientVars => [Dialog!Next]_dialogVars
BY DEF ClientNext, clientVars, dialogVars

(* What is shown is of the types it is shown from.                          *)
LEMMA ShowType ==
    ASSUME NEW detail \in Dialog!Detail \cup {None}, NEW editing \in BOOLEAN,
           Dialog!TypeOK, Dialog!Show(detail, editing)
    PROVE  /\ receiptDetail' \in Dialog!Detail \cup {None}
           /\ isEditingReceipt' \in BOOLEAN
           /\ draft' \in Dialog!Detail \cup {None}
BY DEF Dialog!Show, Dialog!TypeOK

(* What is sent, served and closed leaves requests.                         *)
LEMMA SendType ==
    ASSUME Dialog!TypeOK, NEW c \in Calls, NEW kind \in Dialog!Kinds, NEW r \in Receipts,
           NEW base \in 0..MaxRevisions, Dialog!Send(c, kind, r, base)
    PROVE  calls' \in [Calls -> Dialog!Call \cup {None}]
BY DEF Dialog!Send, Dialog!TypeOK, Dialog!Call

LEMMA ClosedType ==
    ASSUME Dialog!TypeOK, NEW c \in Calls, Dialog!Closed(c)
    PROVE  calls' \in [Calls -> Dialog!Call \cup {None}]
BY DEF Dialog!Closed, Dialog!TypeOK

LEMMA AnswerType ==
    ASSUME Dialog!TypeOK, NEW c \in Calls, NEW kinds, Dialog!Answered(c, kinds)
    PROVE  /\ calls[c] \in Dialog!Call
           /\ Dialog!Answer(c) \in Dialog!Detail
BY DEF Dialog!Answered, Dialog!Answer, Dialog!Detail, Dialog!Call, Dialog!TypeOK

LEMMA MarkType ==
    ASSUME Dialog!TypeOK, NEW mark \in {"left", "early", "again"}, NEW when, Dialog!Note(mark, when)
    PROVE  dialogCrossed' \subseteq {"left", "early", "again"}
BY DEF Dialog!Note, Dialog!TypeOK

(* A request that is served, or turns into the list's, stays a request.     *)
LEMMA ServeType ==
    ASSUME Dialog!TypeOK, NEW c \in Calls, Dialog!Serve(c)
    PROVE  Dialog!TypeOK'
<1> USE SizeAssumption
<1> DEFINE call == calls[c]
<1>1. call \in Dialog!Call /\ call.id \in Receipts
    BY DEF Dialog!Serve, Dialog!TypeOK, Dialog!Call
<1>2. revision' \in [Receipts -> 0..MaxRevisions]
    BY <1>1 DEF Dialog!Serve, Dialog!TypeOK
<1>3. calls' \in [Calls -> Dialog!Call \cup {None}]
    BY <1>1, <1>2 DEF Dialog!Serve, Dialog!TypeOK, Dialog!Call
<1> QED
    BY <1>2, <1>3 DEF Dialog!Serve, Dialog!TypeOK, Dialog!dialogVars

LEMMA RefetchType ==
    ASSUME Dialog!TypeOK, NEW c \in Calls, calls[c] # None,
           calls' = [calls EXCEPT ![c].kind = "refetch"]
    PROVE  calls' \in [Calls -> Dialog!Call \cup {None}]
BY DEF Dialog!TypeOK, Dialog!Call, Dialog!Kinds

(* The dialog's state keeps its types.                                      *)
LEMMA DialogTyped ==
    ASSUME Dialog!TypeOK, [Dialog!Next]_dialogVars
    PROVE  Dialog!TypeOK'
<1> USE SizeAssumption DEF Dialog!serverVars, Dialog!dialogVars, Dialog!history
<1>a. 0 \in 0..MaxRevisions /\ {"detail", "reload", "change", "edit", "delete"} \subseteq Dialog!Kinds
    BY DEF Dialog!Kinds
<1>1. CASE Dialog!Close
    BY <1>1, ShowType, MarkType DEF Dialog!Close, Dialog!Clear, Dialog!TypeOK
<1>2. CASE Dialog!StartEditing
    <2>1. receiptDetail \in Dialog!Detail \cup {None}
        BY DEF Dialog!TypeOK
    <2> QED
        BY <1>2, <2>1, ShowType DEF Dialog!StartEditing, Dialog!Early, Dialog!TypeOK
<1>3. CASE Dialog!CancelEditing
    <2>1. receiptDetail \in Dialog!Detail \cup {None}
        BY DEF Dialog!TypeOK
    <2> QED
        BY <1>3, <2>1, ShowType DEF Dialog!CancelEditing, Dialog!TypeOK
<1>4. CASE Dialog!AskDelete
    BY <1>4 DEF Dialog!AskDelete, Dialog!Shown, Dialog!Detail, Dialog!TypeOK
<1>5. CASE Dialog!CancelDelete
    BY <1>5 DEF Dialog!CancelDelete, Dialog!TypeOK
<1>6. ASSUME NEW c \in Calls, NEW r \in Receipts, Dialog!Select(c, r)
      PROVE  Dialog!TypeOK'
    <2>1. isEditingReceipt \in BOOLEAN
        BY DEF Dialog!TypeOK
    <2>2. calls' \in [Calls -> Dialog!Call \cup {None}]
        BY <1>6, <1>a, SendType DEF Dialog!Select
    <2>3. /\ receiptDetail' \in Dialog!Detail \cup {None}
          /\ isEditingReceipt' \in BOOLEAN
          /\ draft' \in Dialog!Detail \cup {None}
        BY <1>6, <2>1, ShowType DEF Dialog!Select
    <2> QED
        BY <1>6, <2>2, <2>3 DEF Dialog!Select, Dialog!Early, Dialog!TypeOK
<1>7. ASSUME NEW c \in Calls, Dialog!Save(c)
      PROVE  Dialog!TypeOK'
    <2>1. draft.id \in Receipts /\ draft.revision \in 0..MaxRevisions
        BY <1>7 DEF Dialog!Save, Dialog!Detail, Dialog!TypeOK
    <2>2. calls' \in [Calls -> Dialog!Call \cup {None}]
        BY <1>7, <1>a, <2>1, SendType DEF Dialog!Save
    <2> QED
        BY <1>7, <2>2 DEF Dialog!Save, Dialog!Early, Dialog!TypeOK
<1>8. ASSUME NEW c \in Calls, Dialog!Change(c) \/ Dialog!Reload(c)
      PROVE  Dialog!TypeOK'
    <2>1. selectedReceiptId \in Receipts
        BY <1>8 DEF Dialog!Change, Dialog!Reload, Dialog!Shown, Dialog!TypeOK
    <2>2. calls' \in [Calls -> Dialog!Call \cup {None}]
        BY <1>8, <1>a, <2>1, SendType DEF Dialog!Change, Dialog!Reload
    <2> QED
        BY <1>8, <2>2 DEF Dialog!Change, Dialog!Reload, Dialog!Early, Dialog!TypeOK
<1>9. ASSUME NEW c \in Calls, Dialog!Delete(c)
      PROVE  Dialog!TypeOK'
    <2>1. receiptDetail.id \in Receipts
        BY <1>9 DEF Dialog!Delete, Dialog!Detail, Dialog!TypeOK
    <2>2. calls' \in [Calls -> Dialog!Call \cup {None}]
        BY <1>9, <1>a, <2>1, SendType DEF Dialog!Delete
    <2> QED
        BY <1>9, <2>2 DEF Dialog!Delete, Dialog!TypeOK
<1>10. ASSUME NEW c \in Calls, Dialog!Serve(c)
       PROVE  Dialog!TypeOK'
    BY <1>10, ServeType
<1>11. ASSUME NEW c \in Calls, Dialog!DetailAnswered(c) \/ Dialog!ChangeAnswered(c)
       PROVE  Dialog!TypeOK'
    <2>1. Dialog!Answer(c) \in Dialog!Detail /\ isEditingReceipt \in BOOLEAN
        BY <1>11, AnswerType DEF Dialog!DetailAnswered, Dialog!ChangeAnswered, Dialog!TypeOK
    <2>2. calls' \in [Calls -> Dialog!Call \cup {None}]
        BY <1>11, ClosedType DEF Dialog!DetailAnswered, Dialog!ChangeAnswered
    <2>3. Dialog!Show(Dialog!Answer(c), isEditingReceipt) \/ UNCHANGED Dialog!dialogVars
        BY <1>11 DEF Dialog!DetailAnswered, Dialog!ChangeAnswered
    <2>4. /\ receiptDetail' \in Dialog!Detail \cup {None}
          /\ isEditingReceipt' \in BOOLEAN
          /\ draft' \in Dialog!Detail \cup {None}
        BY <2>1, <2>3, ShowType DEF Dialog!TypeOK
    <2> QED
        BY <1>11, <2>2, <2>4 DEF Dialog!DetailAnswered, Dialog!ChangeAnswered, Dialog!TypeOK
<1>12. ASSUME NEW c \in Calls, Dialog!EditAnswered(c)
       PROVE  Dialog!TypeOK'
    <2>1. calls' \in [Calls -> Dialog!Call \cup {None}]
        BY <1>12, RefetchType DEF Dialog!EditAnswered, Dialog!Answered
    <2>2. /\ receiptDetail' \in Dialog!Detail \cup {None}
          /\ isEditingReceipt' \in BOOLEAN
          /\ draft' \in Dialog!Detail \cup {None}
        BY <1>12, ShowType, AnswerType DEF Dialog!EditAnswered
    <2> QED
        BY <1>12, <2>1, <2>2 DEF Dialog!EditAnswered, Dialog!DropDraft, Dialog!TypeOK
<1>13. ASSUME NEW c \in Calls, Dialog!RefetchAnswered(c)
       PROVE  Dialog!TypeOK'
    <2>1. calls' \in [Calls -> Dialog!Call \cup {None}]
        BY <1>13, ClosedType DEF Dialog!RefetchAnswered
    <2>2. receiptDetail \in Dialog!Detail \cup {None}
        BY DEF Dialog!TypeOK
    <2>3. /\ receiptDetail' \in Dialog!Detail \cup {None}
          /\ isEditingReceipt' \in BOOLEAN
          /\ draft' \in Dialog!Detail \cup {None}
        BY <1>13, <2>2, ShowType DEF Dialog!RefetchAnswered
    <2> QED
        BY <1>13, <2>1, <2>3 DEF Dialog!RefetchAnswered, Dialog!DropDraft, Dialog!TypeOK
<1>14. ASSUME NEW c \in Calls, Dialog!DeleteAnswered(c)
       PROVE  Dialog!TypeOK'
    <2>1. calls' \in [Calls -> Dialog!Call \cup {None}]
        BY <1>14, ClosedType DEF Dialog!DeleteAnswered
    <2>2. /\ receiptDetail' \in Dialog!Detail \cup {None}
          /\ isEditingReceipt' \in BOOLEAN
          /\ draft' \in Dialog!Detail \cup {None}
        BY <1>14, ShowType DEF Dialog!DeleteAnswered, Dialog!Clear, Dialog!TypeOK
    <2> QED
        BY <1>14, <2>1, <2>2 DEF Dialog!DeleteAnswered, Dialog!Clear, Dialog!TypeOK
<1>15. ASSUME NEW c \in Calls, Dialog!Failed(c)
       PROVE  Dialog!TypeOK'
    <2>1. calls' \in [Calls -> Dialog!Call \cup {None}]
        BY <1>15, ClosedType DEF Dialog!Failed
    <2>2. dialogCrossed' \subseteq {"left", "early", "again"}
        BY <1>15, MarkType DEF Dialog!Failed
    <2> QED
        BY <1>15, <2>1, <2>2 DEF Dialog!Failed, Dialog!TypeOK
<1>16. CASE UNCHANGED dialogVars
    BY <1>16 DEF dialogVars, Dialog!TypeOK
<1> QED
    BY <1>1, <1>2, <1>3, <1>4, <1>5, <1>6, <1>7, <1>8, <1>9, <1>10, <1>11, <1>12, <1>13, <1>14,
       <1>15, <1>16 DEF Dialog!Next

(***************************************************************************)
(* The inductive invariant of the dialog                                   *)
(***************************************************************************)

Is(c, kinds) == calls[c] # None /\ calls[c].kind \in kinds
Answered(c) == calls[c].answer # None

(* A draft is open in the dialog of a selected receipt, over the detail of  *)
(* the receipt it corrects.                                                 *)
DraftInv ==
    /\ draft # None => isEditingReceipt /\ receiptDetail # None /\ draft.id = receiptDetail.id
    /\ isEditingReceipt => selectedReceiptId # None

(* While nothing was left: what is on its way is the selected receipt's,    *)
(* and what is asked about is the detail that is shown.                     *)
LeftInv ==
    "left" \notin dialogCrossed =>
        /\ ShowsTheSelected
        /\ \A c \in Calls : Is(c, {"detail", "edit"}) /\ selectedReceiptId # None =>
               calls[c].id = selectedReceiptId
        /\ pendingDeleteId # None => selectedReceiptId = pendingDeleteId /\ receiptDetail # None
        /\ "receipt" \notin harmed

(* A change that is served and not answered: what is shown may be older.    *)
Unread(r) == \E c \in Calls : Is(c, Dialog!Writes) /\ Answered(c) /\ calls[c].id = r

(* As the server has it, or about to be replaced.                           *)
Fresh(detail) == detail.revision = revision[detail.id] \/ Unread(detail.id)

(* A change is alone with what reads no detail.                             *)
ChangeAlone ==
    \A c, d \in Calls : Is(c, Dialog!Writes) /\ calls[d] # None /\ c # d =>
        calls[d].kind \in {"refetch", "delete"}

(* No answer that is shown is older than what the server has.               *)
AnswersCurrent ==
    \A c \in Calls : Is(c, {"detail", "reload", "change", "edit"}) /\ Answered(c) =>
        calls[c].answer = revision[calls[c].id]

(* A change keeps its receipt selected, or the dialog empty.                *)
ChangeHeld ==
    \A c \in Calls : Is(c, {"change"}) =>
        ~isEditingReceipt /\ (selectedReceiptId = calls[c].id \/ receiptDetail = None)

(* A correction on its way was made from what the server has.               *)
EditBased ==
    \A c \in Calls : Is(c, {"edit"}) /\ ~Answered(c) => calls[c].base = revision[calls[c].id]

(* While nothing was early, nothing older than that is shown or drafted.    *)
EarlyInv ==
    "early" \notin dialogCrossed =>
        /\ ChangeAlone /\ AnswersCurrent /\ ChangeHeld /\ EditBased
        /\ receiptDetail # None => Fresh(receiptDetail)
        /\ draft # None => Fresh(draft)
        /\ "correction" \notin harmed

(* While no other receipt was selected, and no other correction begun: an   *)
(* open correction is the one that is on its way.                           *)
AgainInv ==
    dialogCrossed \cap {"left", "again"} = {} =>
        /\ "draft" \notin harmed
        /\ \A c \in Calls : Is(c, {"refetch"}) => ~isEditingReceipt
        /\ \A c \in Calls : Is(c, {"edit"}) /\ isEditingReceipt =>
               draft # None /\ draft.id = calls[c].id /\ draft.revision = calls[c].base

DialogIInv == Dialog!TypeOK /\ DraftInv /\ LeftInv /\ EarlyInv /\ AgainInv

(* What shows a detail leaves a draft only over it.                         *)
LEMMA ShowDraft ==
    ASSUME NEW detail \in Dialog!Detail \cup {None}, NEW editing \in BOOLEAN,
           DraftInv, Dialog!Show(detail, editing), editing => selectedReceiptId' # None
    PROVE  DraftInv'
BY DEF DraftInv, Dialog!Show

(* A draft is kept over its receipt.                                        *)
LEMMA DraftKept ==
    ASSUME DialogIInv, [Dialog!Next]_dialogVars
    PROVE  DraftInv'
<1> USE DEF Dialog!dialogVars
<1>a. /\ DraftInv
      /\ receiptDetail \in Dialog!Detail \cup {None}
      /\ isEditingReceipt \in BOOLEAN
    BY DEF DialogIInv, Dialog!TypeOK
<1>1. CASE UNCHANGED <<Dialog!dialogVars, selectedReceiptId>>
    BY <1>a, <1>1 DEF DraftInv
<1>2. CASE Dialog!Close \/ Dialog!StartEditing \/ Dialog!CancelEditing
    BY <1>a, <1>2, ShowDraft DEF Dialog!Close, Dialog!Clear, Dialog!StartEditing,
                                 Dialog!CancelEditing, Dialog!Shown
<1>3. CASE Dialog!AskDelete \/ Dialog!CancelDelete \/ UNCHANGED dialogVars
    BY <1>1, <1>3 DEF Dialog!AskDelete, Dialog!CancelDelete, dialogVars
<1>4. ASSUME NEW c \in Calls, NEW r \in Receipts, Dialog!Select(c, r)
      PROVE  DraftInv'
    BY <1>a, <1>4, ShowDraft, NothingAssumption DEF Dialog!Select
<1>5. ASSUME NEW c \in Calls,
             Dialog!Save(c) \/ Dialog!Change(c) \/ Dialog!Reload(c) \/ Dialog!Delete(c)
                 \/ Dialog!Serve(c) \/ Dialog!Failed(c)
      PROVE  DraftInv'
    BY <1>1, <1>5 DEF Dialog!Save, Dialog!Change, Dialog!Reload, Dialog!Delete, Dialog!Serve,
                      Dialog!Failed
<1>6. ASSUME NEW c \in Calls,
             Dialog!DetailAnswered(c) \/ Dialog!ChangeAnswered(c) \/ Dialog!EditAnswered(c)
      PROVE  DraftInv'
    <2>1. Dialog!Answer(c) \in Dialog!Detail
        BY <1>6, AnswerType DEF DialogIInv, Dialog!DetailAnswered, Dialog!ChangeAnswered,
                                Dialog!EditAnswered
    <2>2. \/ UNCHANGED <<Dialog!dialogVars, selectedReceiptId>>
          \/ /\ Dialog!Show(Dialog!Answer(c), isEditingReceipt) \/ Dialog!Show(Dialog!Answer(c), FALSE)
             /\ selectedReceiptId' = selectedReceiptId
        BY <1>6 DEF Dialog!DetailAnswered, Dialog!ChangeAnswered, Dialog!EditAnswered
    <2>3. isEditingReceipt => selectedReceiptId # None
        BY <1>a DEF DraftInv
    <2> QED
        BY <1>a, <1>1, <2>1, <2>2, <2>3, ShowDraft
<1>7. ASSUME NEW c \in Calls, Dialog!RefetchAnswered(c) \/ Dialog!DeleteAnswered(c)
      PROVE  DraftInv'
    BY <1>a, <1>1, <1>7, ShowDraft DEF Dialog!RefetchAnswered, Dialog!DeleteAnswered, Dialog!Clear
<1> QED
    BY <1>2, <1>3, <1>4, <1>5, <1>6, <1>7 DEF Dialog!Next

(* What a step makes of the requests.                                       *)
LEMMA Closes ==
    ASSUME Dialog!TypeOK, NEW c \in Calls, Dialog!Closed(c)
    PROVE  calls'[c] = None /\ \A d \in Calls : d # c => calls'[d] = calls[d]
BY DEF Dialog!Closed, Dialog!TypeOK

LEMMA Refetches ==
    ASSUME Dialog!TypeOK, NEW c \in Calls, Dialog!EditAnswered(c)
    PROVE  /\ calls[c].kind = "edit" /\ calls'[c].kind = "refetch" /\ Answered(c)
           /\ Is(c, {"edit"})
           /\ \A d \in Calls : d # c => calls'[d] = calls[d]
BY DEF Dialog!EditAnswered, Dialog!Answered, Dialog!TypeOK, Dialog!Call, Is, Answered

LEMMA Serves ==
    ASSUME Dialog!TypeOK, NEW c \in Calls, Dialog!Serve(c)
    PROVE  /\ calls[c] # None /\ calls[c].answer = None /\ calls[c].id \in Receipts
           /\ calls'[c].kind = calls[c].kind /\ calls'[c].id = calls[c].id
           /\ calls'[c].base = calls[c].base
           /\ calls'[c].answer = revision'[calls[c].id]
           /\ calls'[c] # None /\ calls'[c].answer # None
           /\ \A d \in Calls : d # c => calls'[d] = calls[d]
<1> USE NothingAssumption
<1>1. calls[c] \in Dialog!Call /\ calls[c] # None /\ calls[c].answer = None
    BY DEF Dialog!Serve, Dialog!TypeOK
<1>2. calls' = [calls EXCEPT ![c].answer = revision'[calls[c].id]]
    BY DEF Dialog!Serve
<1>3. Dialog!TypeOK'
    BY ServeType
<1>4. calls'[c] = [calls[c] EXCEPT !.answer = revision'[calls[c].id]]
    BY <1>2 DEF Dialog!TypeOK
<1>5. revision'[calls[c].id] \in 0..MaxRevisions
    BY <1>1, <1>3 DEF Dialog!TypeOK, Dialog!Call
<1>6. /\ calls'[c].kind = calls[c].kind /\ calls'[c].id = calls[c].id
      /\ calls'[c].base = calls[c].base /\ calls'[c].answer = revision'[calls[c].id]
    BY <1>1, <1>4 DEF Dialog!Call
<1>7. calls'[c] \in Dialog!Call
    BY <1>1, <1>4, <1>5 DEF Dialog!Call
<1>8. \A d \in Calls : d # c => calls'[d] = calls[d]
    BY <1>2 DEF Dialog!TypeOK
<1> QED
    BY <1>1, <1>5, <1>6, <1>7, <1>8 DEF Dialog!Call

(* The dialog stays the selected receipt's while nothing is left.           *)
LEMMA LeftKept ==
    ASSUME DialogIInv, [Dialog!Next]_dialogVars
    PROVE  LeftInv'
<1> USE DEF Dialog!dialogVars, Dialog!history, Dialog!serverVars
<1>a. Dialog!TypeOK /\ DraftInv /\ LeftInv
    BY DEF DialogIInv
<1> SUFFICES ASSUME "left" \notin dialogCrossed'
             PROVE  /\ ShowsTheSelected'
                    /\ \A c \in Calls : Is(c, {"detail", "edit"})' /\ selectedReceiptId' # None =>
                           calls'[c].id = selectedReceiptId'
                    /\ pendingDeleteId' # None =>
                           selectedReceiptId' = pendingDeleteId' /\ receiptDetail' # None
                    /\ "receipt" \notin harmed'
    BY DEF LeftInv
<1> USE DEF ShowsTheSelected, Dialog!ShowsTheSelected, Is
<1>b. "left" \notin dialogCrossed
    BY DEF Dialog!Next, Dialog!Close, Dialog!StartEditing, Dialog!CancelEditing, Dialog!AskDelete,
           Dialog!CancelDelete, Dialog!Select, Dialog!Save, Dialog!Change, Dialog!Reload,
           Dialog!Delete, Dialog!Serve, Dialog!DetailAnswered, Dialog!ChangeAnswered,
           Dialog!EditAnswered, Dialog!RefetchAnswered, Dialog!DeleteAnswered, Dialog!Failed,
           Dialog!Note, dialogVars
<1>1. CASE Dialog!Close
    BY <1>a, <1>b, <1>1 DEF Dialog!Close, Dialog!Clear, Dialog!Show, LeftInv
<1>2. CASE Dialog!StartEditing \/ Dialog!CancelEditing
    BY <1>a, <1>b, <1>2 DEF Dialog!StartEditing, Dialog!CancelEditing, Dialog!Show, LeftInv
<1>3. CASE Dialog!AskDelete \/ Dialog!CancelDelete \/ UNCHANGED dialogVars
    BY <1>a, <1>b, <1>3 DEF Dialog!AskDelete, Dialog!CancelDelete, Dialog!Shown, dialogVars, LeftInv
<1>4. ASSUME NEW c \in Calls, NEW r \in Receipts, Dialog!Select(c, r)
      PROVE  LeftInv'
    <2>1. /\ calls'[c].kind = "detail" /\ calls'[c].id = r
          /\ \A d \in Calls : d # c => calls'[d] = calls[d]
        BY <1>a, <1>4 DEF Dialog!Select, Dialog!Send, Dialog!TypeOK
    <2>2. /\ selectedReceiptId' = r /\ receiptDetail' = None
          /\ pendingDeleteId' = pendingDeleteId /\ harmed' = harmed
          /\ Dialog!Open({"detail", "edit"}) = {}
          /\ pendingDeleteId = None \/ receiptDetail = None
        BY <1>4 DEF Dialog!Select, Dialog!Show
    <2>3. \A d \in Calls : d # c => ~Is(d, {"detail", "edit"})
        BY <2>2 DEF Dialog!Open
    <2> QED
        BY <1>a, <1>b, <2>1, <2>2, <2>3 DEF LeftInv
<1>5. ASSUME NEW c \in Calls, Dialog!Save(c)
      PROVE  LeftInv'
    <2>1. /\ calls'[c].id = draft.id
          /\ \A d \in Calls : d # c => calls'[d] = calls[d]
        BY <1>a, <1>5 DEF Dialog!Save, Dialog!Send, Dialog!TypeOK
    <2> QED
        BY <1>a, <1>b, <1>5, <2>1 DEF Dialog!Save, Dialog!Shown, DraftInv, LeftInv
<1>6. ASSUME NEW c \in Calls, Dialog!Change(c) \/ Dialog!Reload(c)
      PROVE  LeftInv'
    <2>1. /\ calls'[c].kind \in {"change", "reload"}
          /\ \A d \in Calls : d # c => calls'[d] = calls[d]
        BY <1>a, <1>6 DEF Dialog!Change, Dialog!Reload, Dialog!Send, Dialog!TypeOK
    <2> QED
        BY <1>a, <1>b, <1>6, <2>1 DEF Dialog!Change, Dialog!Reload, LeftInv
<1>7. ASSUME NEW c \in Calls, Dialog!Delete(c)
      PROVE  LeftInv'
    <2>1. /\ calls'[c].kind = "delete"
          /\ \A d \in Calls : d # c => calls'[d] = calls[d]
        BY <1>a, <1>7 DEF Dialog!Delete, Dialog!Send, Dialog!TypeOK
    <2> QED
        BY <1>a, <1>b, <1>7, <2>1 DEF Dialog!Delete, LeftInv
<1>8. ASSUME NEW c \in Calls, Dialog!Serve(c)
      PROVE  LeftInv'
    BY <1>a, <1>b, <1>8, Serves DEF Dialog!Serve, LeftInv
<1>9. ASSUME NEW c \in Calls, Dialog!Failed(c)
      PROVE  LeftInv'
    BY <1>a, <1>b, <1>9, Closes DEF Dialog!Failed, LeftInv
<1>10. ASSUME NEW c \in Calls, Dialog!DetailAnswered(c) \/ Dialog!ChangeAnswered(c)
       PROVE  LeftInv'
    <2>1. /\ calls'[c] = None /\ \A d \in Calls : d # c => calls'[d] = calls[d]
          /\ Dialog!Answer(c).id = calls[c].id /\ Dialog!Answer(c) # None
          /\ calls[c] # None
        BY <1>a, <1>10, Closes, AnswerType, NothingAssumption
           DEF Dialog!DetailAnswered, Dialog!ChangeAnswered, Dialog!Answered, Dialog!Answer
    <2>2. /\ selectedReceiptId' = selectedReceiptId
          /\ pendingDeleteId' = pendingDeleteId /\ harmed' = harmed
          /\ \/ /\ receiptDetail' = Dialog!Answer(c)
                /\ calls[c].kind = "detail" \/ selectedReceiptId = calls[c].id
             \/ receiptDetail' = receiptDetail
        BY <1>10 DEF Dialog!DetailAnswered, Dialog!ChangeAnswered, Dialog!Answered, Dialog!Show
    <2> QED
        BY <1>a, <1>b, <2>1, <2>2 DEF LeftInv
<1>11. ASSUME NEW c \in Calls, Dialog!EditAnswered(c)
       PROVE  LeftInv'
    BY <1>a, <1>b, <1>11, Refetches, AnswerType, NothingAssumption
       DEF Dialog!EditAnswered, Dialog!Answered, Dialog!Answer, Dialog!DropDraft, Dialog!Show, LeftInv
<1>12. ASSUME NEW c \in Calls, Dialog!RefetchAnswered(c)
       PROVE  LeftInv'
    BY <1>a, <1>b, <1>12, Closes DEF Dialog!RefetchAnswered, Dialog!DropDraft, Dialog!Show, LeftInv
<1>13. ASSUME NEW c \in Calls, Dialog!DeleteAnswered(c)
       PROVE  LeftInv'
    BY <1>a, <1>b, <1>13, Closes DEF Dialog!DeleteAnswered, Dialog!Clear, Dialog!Show, LeftInv
<1> QED
    BY <1>1, <1>2, <1>3, <1>4, <1>5, <1>6, <1>7, <1>8, <1>9, <1>10, <1>11, <1>12, <1>13
       DEF Dialog!Next, LeftInv

(* What is shown and drafted stays fresh while nothing is early.            *)
LEMMA EarlyKept ==
    ASSUME DialogIInv, [Dialog!Next]_dialogVars
    PROVE  EarlyInv'
<1> USE DEF Dialog!dialogVars, Dialog!history, Dialog!serverVars
<1>a. Dialog!TypeOK /\ DraftInv /\ EarlyInv
    BY DEF DialogIInv
<1> SUFFICES ASSUME "early" \notin dialogCrossed'
             PROVE  EarlyInv'
    BY DEF EarlyInv
<1>b. "early" \notin dialogCrossed
    BY DEF Dialog!Next, Dialog!Close, Dialog!StartEditing, Dialog!CancelEditing, Dialog!AskDelete,
           Dialog!CancelDelete, Dialog!Select, Dialog!Save, Dialog!Change, Dialog!Reload,
           Dialog!Delete, Dialog!Serve, Dialog!DetailAnswered, Dialog!ChangeAnswered,
           Dialog!EditAnswered, Dialog!RefetchAnswered, Dialog!DeleteAnswered, Dialog!Failed,
           Dialog!Note, dialogVars
<1>c. /\ ChangeAlone /\ AnswersCurrent /\ ChangeHeld /\ EditBased
      /\ receiptDetail # None => Fresh(receiptDetail)
      /\ draft # None => Fresh(draft)
      /\ "correction" \notin harmed
    BY <1>a, <1>b DEF EarlyInv
<1>d. ASSUME UNCHANGED <<calls, revision>>
      PROVE  ChangeAlone' /\ AnswersCurrent' /\ EditBased' /\ \A r : Unread(r)' = Unread(r)
    BY <1>c, <1>d DEF ChangeAlone, AnswersCurrent, EditBased, Unread, Is, Answered
<1>1. CASE Dialog!Close
    BY <1>c, <1>d, <1>1 DEF Dialog!Close, Dialog!Clear, Dialog!Show, EarlyInv, ChangeHeld, Is
<1>2. CASE Dialog!StartEditing
    <2>1. Dialog!Open({"detail", "reload", "change", "edit", "delete"}) = {}
        BY <1>2 DEF Dialog!StartEditing, Dialog!Early, Dialog!Writes, Dialog!Kinds, Dialog!Open
    <2> QED
        BY <1>c, <1>d, <1>2, <2>1
           DEF Dialog!StartEditing, Dialog!Open, Dialog!Show, EarlyInv, ChangeHeld, Is, Fresh
<1>3. CASE Dialog!CancelEditing
    BY <1>c, <1>d, <1>3 DEF Dialog!CancelEditing, Dialog!Show, EarlyInv, ChangeHeld, Is, Fresh
<1>4. CASE Dialog!AskDelete \/ Dialog!CancelDelete \/ UNCHANGED dialogVars
    BY <1>c, <1>d, <1>4
       DEF Dialog!AskDelete, Dialog!CancelDelete, dialogVars, EarlyInv, ChangeHeld, Is, Fresh
<1>5. ASSUME NEW c \in Calls, NEW r \in Receipts, Dialog!Select(c, r)
      PROVE  EarlyInv'
    <2>1. /\ calls'[c].kind = "detail" /\ calls'[c].answer = None
          /\ \A d \in Calls : d # c => calls'[d] = calls[d]
        BY <1>a, <1>5 DEF Dialog!Select, Dialog!Send, Dialog!TypeOK
    <2>2. /\ receiptDetail' = None /\ draft' = None
          /\ UNCHANGED <<isEditingReceipt, revision, harmed>>
          /\ Dialog!Open(Dialog!Writes) = {}
        BY <1>5 DEF Dialog!Select, Dialog!Show, Dialog!Early
    <2>3. \A d \in Calls : d # c => ~Is(d, Dialog!Writes)
        BY <2>2 DEF Dialog!Open, Is
    <2> QED
        BY <1>c, <2>1, <2>2, <2>3
           DEF EarlyInv, ChangeAlone, AnswersCurrent, ChangeHeld, EditBased, Is, Answered, Dialog!Writes
<1>6. ASSUME NEW c \in Calls, Dialog!Save(c) \/ Dialog!Change(c)
      PROVE  EarlyInv'
    <2>1. /\ calls'[c].kind \in {"change", "edit"} /\ calls'[c].answer = None
          /\ \A d \in Calls : d # c => calls'[d] = calls[d]
        BY <1>a, <1>6 DEF Dialog!Save, Dialog!Change, Dialog!Send, Dialog!TypeOK
    <2>2. \/ /\ calls'[c].kind = "edit"
             /\ draft # None /\ calls'[c].id = draft.id /\ calls'[c].base = draft.revision
          \/ /\ calls'[c].kind = "change"
             /\ ~isEditingReceipt /\ calls'[c].id = selectedReceiptId
        BY <1>a, <1>6 DEF Dialog!Save, Dialog!Change, Dialog!Send, Dialog!TypeOK
    <2>3. UNCHANGED <<receiptDetail, draft, isEditingReceipt, selectedReceiptId, revision, harmed>>
        BY <1>6 DEF Dialog!Save, Dialog!Change
    <2>4. Dialog!Open({"detail", "reload", "change", "edit", "delete"}) = {}
        BY <1>6 DEF Dialog!Save, Dialog!Change, Dialog!Early, Dialog!Writes, Dialog!Kinds, Dialog!Open
    <2>5. \A d \in Calls : ~Is(d, {"detail", "reload", "change", "edit", "delete"})
        BY <2>4 DEF Dialog!Open, Is
    <2>6. \A d \in Calls : calls[d] # None => calls[d].kind = "refetch"
        BY <1>a, <2>5 DEF Is, Dialog!TypeOK, Dialog!Call, Dialog!Kinds
    <2>7. \A r : ~Unread(r)
        BY <2>5 DEF Unread, Is, Dialog!Writes
    <2>8. (receiptDetail # None => receiptDetail.revision = revision[receiptDetail.id])
          /\ (draft # None => draft.revision = revision[draft.id])
        BY <1>c, <2>7 DEF Fresh
    <2> QED
        BY <1>c, <2>1, <2>2, <2>3, <2>5, <2>6, <2>8
           DEF EarlyInv, ChangeAlone, AnswersCurrent, ChangeHeld, EditBased, Fresh, Is, Answered,
               Dialog!Writes

<1>7. ASSUME NEW c \in Calls, Dialog!Reload(c)
      PROVE  EarlyInv'
    <2>1. /\ calls'[c].kind = "reload" /\ calls'[c].answer = None
          /\ \A d \in Calls : d # c => calls'[d] = calls[d]
        BY <1>a, <1>7 DEF Dialog!Reload, Dialog!Send, Dialog!TypeOK
    <2>2. UNCHANGED <<receiptDetail, draft, isEditingReceipt, selectedReceiptId, revision, harmed>>
        BY <1>7 DEF Dialog!Reload
    <2>3. \A d \in Calls : ~Is(d, Dialog!Writes)
        BY <1>7 DEF Dialog!Reload, Dialog!Early, Dialog!Open, Is
    <2>4. (receiptDetail # None => receiptDetail.revision = revision[receiptDetail.id])
          /\ (draft # None => draft.revision = revision[draft.id])
        BY <1>c, <2>3 DEF Fresh, Unread
    <2> QED
        BY <1>c, <2>1, <2>2, <2>3, <2>4
           DEF EarlyInv, ChangeAlone, AnswersCurrent, ChangeHeld, EditBased, Fresh, Is, Answered,
               Dialog!Writes
<1>8. ASSUME NEW c \in Calls, Dialog!Delete(c)
      PROVE  EarlyInv'
    <2>1. /\ calls[c] = None /\ calls'[c].kind = "delete"
          /\ \A d \in Calls : d # c => calls'[d] = calls[d]
        BY <1>a, <1>8 DEF Dialog!Delete, Dialog!Send, Dialog!TypeOK
    <2>2. /\ UNCHANGED <<receiptDetail, draft, isEditingReceipt, selectedReceiptId, revision>>
          /\ "correction" \notin harmed'
        BY <1>c, <1>8 DEF Dialog!Delete
    <2>3. \A r : Unread(r) => Unread(r)'
        BY <2>1 DEF Unread, Is, Answered
    <2> QED
        BY <1>c, <2>1, <2>2, <2>3
           DEF EarlyInv, ChangeAlone, AnswersCurrent, ChangeHeld, EditBased, Fresh, Is, Answered,
               Dialog!Writes
<1>9. ASSUME NEW c \in Calls, Dialog!Serve(c), calls[c].kind \notin Dialog!Writes
      PROVE  EarlyInv'
    <2>1. /\ UNCHANGED <<receiptDetail, draft, isEditingReceipt, selectedReceiptId, revision>>
          /\ harmed' = harmed
        BY <1>9 DEF Dialog!Serve, Dialog!Writes
    <2>2. \A r : Unread(r) => Unread(r)'
        BY <1>a, <1>9, Serves DEF Unread, Is, Answered
    <2> QED
        BY <1>a, <1>c, <1>9, <2>1, <2>2, Serves
           DEF EarlyInv, ChangeAlone, AnswersCurrent, ChangeHeld, EditBased, Fresh, Is, Answered,
               Dialog!Writes
<1>10. ASSUME NEW c \in Calls, Dialog!Serve(c), calls[c].kind \in Dialog!Writes
       PROVE  EarlyInv'
    <2>1. /\ UNCHANGED <<receiptDetail, draft, isEditingReceipt, selectedReceiptId>>
          /\ \A r \in Receipts : r # calls[c].id => revision'[r] = revision[r]
        BY <1>a, <1>10 DEF Dialog!Serve, Dialog!TypeOK
    <2>2. /\ calls[c] # None /\ Is(c, Dialog!Writes) /\ ~Answered(c) /\ calls[c].id \in Receipts
          /\ Is(c, Dialog!Writes)' /\ Answered(c)'
          /\ calls'[c].kind = calls[c].kind /\ calls'[c].id = calls[c].id
          /\ calls'[c].answer = revision'[calls[c].id]
          /\ \A d \in Calls : d # c => calls'[d] = calls[d]
        BY <1>a, <1>10, Serves DEF Is, Answered
    <2>3. \A d \in Calls : d # c /\ calls[d] # None => calls[d].kind \in {"refetch", "delete"}
        BY <1>c, <2>2 DEF ChangeAlone
    <2>4. \A r : ~Unread(r)
        BY <2>2, <2>3 DEF Unread, Is, Dialog!Writes
    <2>5. ASSUME NEW detail \in Dialog!Detail, detail.revision = revision[detail.id]
          PROVE  detail.revision = revision'[detail.id] \/ detail.id = calls[c].id
        BY <2>1, <2>5 DEF Dialog!Detail
    <2>6. /\ receiptDetail # None =>
                 receiptDetail.revision = revision'[receiptDetail.id] \/ receiptDetail.id = calls[c].id
          /\ draft # None => draft.revision = revision'[draft.id] \/ draft.id = calls[c].id
        BY <1>a, <1>c, <2>4, <2>5 DEF Fresh, Dialog!TypeOK
    <2>7. "correction" \notin harmed'
        BY <1>c, <1>10, <2>2 DEF Dialog!Serve, EditBased, Is
    <2>8. ChangeAlone' /\ AnswersCurrent' /\ ChangeHeld' /\ EditBased'
        BY <1>c, <2>1, <2>2, <2>3
           DEF ChangeAlone, AnswersCurrent, ChangeHeld, EditBased, Is, Answered, Dialog!Writes
    <2>9. (receiptDetail' # None => Fresh(receiptDetail)') /\ (draft' # None => Fresh(draft)')
        BY <2>1, <2>2, <2>6 DEF Fresh, Unread
    <2> QED
        BY <2>7, <2>8, <2>9 DEF EarlyInv
<1>11. ASSUME NEW c \in Calls, Dialog!DetailAnswered(c)
       PROVE  EarlyInv'
    <2>1. /\ calls'[c] = None /\ \A d \in Calls : d # c => calls'[d] = calls[d]
          /\ UNCHANGED <<isEditingReceipt, selectedReceiptId, revision, harmed>>
        BY <1>a, <1>11, Closes DEF Dialog!DetailAnswered, Dialog!Show
    <2>2. Is(c, {"detail"}) /\ Answered(c)
        BY <1>11 DEF Dialog!DetailAnswered, Dialog!Answered, Is, Answered
    <2>3. \A d \in Calls : ~Is(d, Dialog!Writes)
        BY <1>c, <2>2 DEF ChangeAlone, Is, Dialog!Writes
    <2>4. /\ Dialog!Answer(c).id = calls[c].id
          /\ Dialog!Answer(c).revision = revision[calls[c].id]
        BY <1>c, <2>2 DEF AnswersCurrent, Dialog!Answer, Is
    <2>5. /\ receiptDetail' = Dialog!Answer(c)
          /\ draft' = None \/ draft' = Dialog!Answer(c) \/ (draft' = draft /\ draft # None)
        BY <1>11 DEF Dialog!DetailAnswered, Dialog!Show
    <2>6. draft # None => draft.revision = revision[draft.id]
        BY <1>c, <2>3 DEF Fresh, Unread
    <2>7. Fresh(receiptDetail)' /\ (draft' # None => Fresh(draft)')
        BY <2>1, <2>4, <2>5, <2>6 DEF Fresh
    <2> QED
        BY <1>c, <2>1, <2>3, <2>7
           DEF EarlyInv, ChangeAlone, AnswersCurrent, ChangeHeld, EditBased, Is, Answered,
               Dialog!Writes
<1>12. ASSUME NEW c \in Calls, Dialog!ChangeAnswered(c)
       PROVE  EarlyInv'
    <2>1. /\ calls'[c] = None /\ \A d \in Calls : d # c => calls'[d] = calls[d]
          /\ UNCHANGED <<isEditingReceipt, selectedReceiptId, revision, harmed>>
        BY <1>a, <1>12, Closes DEF Dialog!ChangeAnswered, Dialog!Show
    <2>2. Is(c, {"change", "reload"}) /\ Answered(c)
        BY <1>12 DEF Dialog!ChangeAnswered, Dialog!Answered, Is, Answered
    <2>3. \A d \in Calls : d # c => ~Is(d, Dialog!Writes)
        BY <1>c, <2>2 DEF ChangeAlone, Is, Dialog!Writes
    <2>4. /\ Dialog!Answer(c).id = calls[c].id
          /\ Dialog!Answer(c).revision = revision[calls[c].id]
        BY <1>c, <2>2 DEF AnswersCurrent, Dialog!Answer, Is
    <2>5. Is(c, {"change"}) => ~isEditingReceipt /\ draft = None
        BY <1>a, <1>c DEF ChangeHeld, DraftInv
    <2>6. /\ draft # None => draft.revision = revision[draft.id]
          /\ Is(c, {"reload"}) /\ receiptDetail # None =>
                 receiptDetail.revision = revision[receiptDetail.id]
        BY <1>c, <2>2, <2>3, <2>5 DEF Fresh, Unread, Is, Dialog!Writes
    <2>7. \/ /\ receiptDetail' = Dialog!Answer(c)
             /\ (draft' = None \/ draft' = Dialog!Answer(c) \/ (draft' = draft /\ draft # None))
          \/ (receiptDetail' = receiptDetail /\ draft' = draft /\ selectedReceiptId # calls[c].id)
        BY <1>12 DEF Dialog!ChangeAnswered, Dialog!Show
    <2>8. receiptDetail' # None => receiptDetail'.revision = revision'[receiptDetail'.id]
        BY <1>c, <2>1, <2>2, <2>4, <2>6, <2>7 DEF ChangeHeld, Is
    <2>9. draft' # None => draft'.revision = revision'[draft'.id]
        BY <2>1, <2>4, <2>6, <2>7
    <2>10. /\ receiptDetail' # None => Fresh(receiptDetail)'
           /\ draft' # None => Fresh(draft)'
        BY <2>8, <2>9 DEF Fresh
    <2> QED
        BY <1>c, <2>1, <2>3, <2>10
           DEF EarlyInv, ChangeAlone, AnswersCurrent, ChangeHeld, EditBased, Is, Answered,
               Dialog!Writes
<1>13. ASSUME NEW c \in Calls, Dialog!EditAnswered(c)
       PROVE  EarlyInv'
    <2>1. /\ calls'[c].kind = "refetch" /\ \A d \in Calls : d # c => calls'[d] = calls[d]
          /\ UNCHANGED <<selectedReceiptId, revision>>
          /\ Is(c, {"edit"}) /\ Answered(c)
          /\ receiptDetail' = Dialog!Answer(c) /\ draft' = None
          /\ "correction" \notin harmed'
        BY <1>a, <1>c, <1>13, Refetches DEF Dialog!EditAnswered, Dialog!Show, Dialog!DropDraft
    <2>2. \A d \in Calls : d # c => ~Is(d, {"detail", "reload", "change", "edit"})
        BY <1>c, <2>1 DEF ChangeAlone, Is, Dialog!Writes
    <2>3. receiptDetail'.revision = revision'[receiptDetail'.id]
        BY <1>c, <2>1 DEF AnswersCurrent, Dialog!Answer, Is
    <2>4. Fresh(receiptDetail)'
        BY <2>3 DEF Fresh
    <2> QED
        BY <2>1, <2>2, <2>4
           DEF EarlyInv, ChangeAlone, AnswersCurrent, ChangeHeld, EditBased, Is, Dialog!Writes
<1>14. ASSUME NEW c \in Calls, Dialog!RefetchAnswered(c) \/ Dialog!DeleteAnswered(c)
       PROVE  EarlyInv'
    <2>1. /\ calls'[c] = None /\ \A d \in Calls : d # c => calls'[d] = calls[d]
          /\ ~Is(c, Dialog!Writes) /\ revision' = revision
          /\ "correction" \notin harmed'
        BY <1>a, <1>c, <1>14, Closes
           DEF Dialog!RefetchAnswered, Dialog!DeleteAnswered, Dialog!DropDraft, Dialog!Answered, Is,
               Dialog!Writes
    <2>2. /\ \/ receiptDetail' = None
             \/ receiptDetail' = receiptDetail /\ selectedReceiptId' = selectedReceiptId
          /\ draft' = None \/ draft' = draft
          /\ isEditingReceipt' = FALSE \/ isEditingReceipt' = isEditingReceipt
        BY <1>14 DEF Dialog!RefetchAnswered, Dialog!DeleteAnswered, Dialog!Clear, Dialog!Show
    <2>3. \A r : Unread(r) => Unread(r)'
        BY <2>1 DEF Unread, Is, Answered
    <2> QED
        BY <1>c, <2>1, <2>2, <2>3
           DEF EarlyInv, ChangeAlone, AnswersCurrent, ChangeHeld, EditBased, Fresh, Is, Answered,
               Dialog!Writes
<1>15. ASSUME NEW c \in Calls, Dialog!Failed(c)
       PROVE  EarlyInv'
    <2>1. /\ calls'[c] = None /\ \A d \in Calls : d # c => calls'[d] = calls[d]
          /\ UNCHANGED <<receiptDetail, draft, isEditingReceipt, selectedReceiptId, revision, harmed>>
          /\ ~Answered(c)
        BY <1>a, <1>15, Closes DEF Dialog!Failed, Dialog!Note, Answered
    <2>2. \A r : Unread(r) => Unread(r)'
        BY <2>1 DEF Unread, Is, Answered
    <2> QED
        BY <1>c, <2>1, <2>2
           DEF EarlyInv, ChangeAlone, AnswersCurrent, ChangeHeld, EditBased, Fresh, Is, Answered,
               Dialog!Writes
<1> QED
    BY <1>1, <1>2, <1>3, <1>4, <1>5, <1>6, <1>7, <1>8, <1>9, <1>10, <1>11, <1>12, <1>13, <1>14, <1>15
       DEF Dialog!Next

(* An open correction stays the one that is on its way.                     *)
LEMMA AgainKept ==
    ASSUME DialogIInv, [Dialog!Next]_dialogVars
    PROVE  AgainInv'
<1> USE DEF Dialog!dialogVars, Dialog!history, Dialog!serverVars, Is
<1>a. Dialog!TypeOK /\ DraftInv /\ LeftInv /\ AgainInv
    BY DEF DialogIInv
<1> SUFFICES ASSUME dialogCrossed' \cap {"left", "again"} = {}
             PROVE  AgainInv'
    BY DEF AgainInv
<1>b. dialogCrossed \cap {"left", "again"} = {}
    BY DEF Dialog!Next, Dialog!Close, Dialog!StartEditing, Dialog!CancelEditing, Dialog!AskDelete,
           Dialog!CancelDelete, Dialog!Select, Dialog!Save, Dialog!Change, Dialog!Reload,
           Dialog!Delete, Dialog!Serve, Dialog!DetailAnswered, Dialog!ChangeAnswered,
           Dialog!EditAnswered, Dialog!RefetchAnswered, Dialog!DeleteAnswered, Dialog!Failed,
           Dialog!Note, dialogVars
<1>c. /\ "draft" \notin harmed
      /\ \A c \in Calls : Is(c, {"refetch"}) => ~isEditingReceipt
      /\ \A c \in Calls : Is(c, {"edit"}) /\ isEditingReceipt =>
             draft # None /\ draft.id = calls[c].id /\ draft.revision = calls[c].base
    BY <1>a, <1>b DEF AgainInv
<1>1. CASE Dialog!Close \/ Dialog!CancelEditing
    BY <1>c, <1>1 DEF Dialog!Close, Dialog!Clear, Dialog!CancelEditing, Dialog!Show, AgainInv
<1>2. CASE Dialog!StartEditing
    <2>1. /\ \A c \in Calls : ~Is(c, {"edit", "refetch"})
          /\ calls' = calls /\ harmed' = harmed
        BY <1>2 DEF Dialog!StartEditing, Dialog!Open
    <2> QED
        BY <1>c, <2>1 DEF AgainInv
<1>3. CASE Dialog!AskDelete \/ Dialog!CancelDelete \/ UNCHANGED dialogVars
    BY <1>c, <1>3 DEF Dialog!AskDelete, Dialog!CancelDelete, dialogVars, AgainInv
<1>4. ASSUME NEW c \in Calls, NEW r \in Receipts, Dialog!Select(c, r)
      PROVE  AgainInv'
    <2>1. /\ calls'[c].kind = "detail"
          /\ \A d \in Calls : d # c => calls'[d] = calls[d]
        BY <1>a, <1>4 DEF Dialog!Select, Dialog!Send, Dialog!TypeOK
    <2>2. /\ isEditingReceipt' = isEditingReceipt /\ harmed' = harmed
          /\ \A d \in Calls : ~Is(d, {"edit"})
        BY <1>4 DEF Dialog!Select, Dialog!Show, Dialog!Open
    <2> QED
        BY <1>c, <2>1, <2>2 DEF AgainInv
<1>5. ASSUME NEW c \in Calls, Dialog!Save(c)
      PROVE  AgainInv'
    <2>1. /\ calls'[c].kind = "edit" /\ calls'[c].id = draft.id /\ calls'[c].base = draft.revision
          /\ draft # None
          /\ \A d \in Calls : d # c => calls'[d] = calls[d]
          /\ UNCHANGED <<draft, isEditingReceipt, harmed>>
        BY <1>a, <1>5 DEF Dialog!Save, Dialog!Send, Dialog!TypeOK
    <2> QED
        BY <1>c, <2>1 DEF AgainInv
<1>6. ASSUME NEW c \in Calls, Dialog!Change(c) \/ Dialog!Reload(c) \/ Dialog!Delete(c)
      PROVE  AgainInv'
    <2>1. /\ calls'[c].kind \in {"change", "reload", "delete"}
          /\ \A d \in Calls : d # c => calls'[d] = calls[d]
          /\ UNCHANGED <<draft, isEditingReceipt>> /\ "draft" \notin harmed'
        BY <1>a, <1>c, <1>6
           DEF Dialog!Change, Dialog!Reload, Dialog!Delete, Dialog!Send, Dialog!TypeOK
    <2> QED
        BY <1>c, <2>1 DEF AgainInv
<1>7. ASSUME NEW c \in Calls, Dialog!Serve(c)
      PROVE  AgainInv'
    <2>1. UNCHANGED <<draft, isEditingReceipt>> /\ "draft" \notin harmed'
        BY <1>c, <1>7 DEF Dialog!Serve
    <2> QED
        BY <1>a, <1>c, <1>7, <2>1, Serves DEF AgainInv
<1>8. ASSUME NEW c \in Calls,
             Dialog!DetailAnswered(c) \/ Dialog!ChangeAnswered(c)
                 \/ Dialog!DeleteAnswered(c) \/ Dialog!Failed(c)
      PROVE  AgainInv'
    <2>1. /\ calls'[c] = None /\ \A d \in Calls : d # c => calls'[d] = calls[d]
          /\ harmed' = harmed
        BY <1>a, <1>8, Closes DEF Dialog!DetailAnswered, Dialog!ChangeAnswered,
                                  Dialog!DeleteAnswered, Dialog!Failed
    <2>2. isEditingReceipt' => isEditingReceipt
        BY <1>8 DEF Dialog!DetailAnswered, Dialog!ChangeAnswered, Dialog!DeleteAnswered,
                    Dialog!Failed, Dialog!Clear, Dialog!Show
    <2>3. ASSUME NEW d \in Calls, Is(d, {"edit"}), isEditingReceipt, isEditingReceipt'
          PROVE  draft' = draft
        <3>1. /\ draft # None /\ receiptDetail # None /\ draft.id = receiptDetail.id
              /\ selectedReceiptId # None /\ receiptDetail.id = selectedReceiptId
            BY <1>a, <1>b, <1>c, <2>3 DEF DraftInv, LeftInv, ShowsTheSelected, Dialog!ShowsTheSelected
        <3>2. Is(c, {"detail"}) => calls[c].id = selectedReceiptId
            BY <1>a, <1>b, <3>1 DEF LeftInv
        <3>3. CASE Dialog!DetailAnswered(c) \/ Dialog!ChangeAnswered(c)
            <4>1. \/ draft' = draft
                  \/ /\ calls[c].id = selectedReceiptId
                     /\ Dialog!Show(Dialog!Answer(c), isEditingReceipt)
                BY <3>2, <3>3
                   DEF Dialog!DetailAnswered, Dialog!ChangeAnswered, Dialog!Answered
            <4>2. Dialog!Answer(c) # None
                BY <1>a, <3>3, AnswerType, NothingAssumption
                   DEF Dialog!DetailAnswered, Dialog!ChangeAnswered
            <4> QED
                BY <2>3, <3>1, <4>1, <4>2 DEF Dialog!Show, Dialog!Answer
        <3>4. CASE Dialog!DeleteAnswered(c) \/ Dialog!Failed(c)
            BY <2>3, <3>4 DEF Dialog!DeleteAnswered, Dialog!Failed, Dialog!Clear, Dialog!Show
        <3> QED
            BY <1>8, <3>3, <3>4
    <2> QED
        BY <1>c, <2>1, <2>2, <2>3 DEF AgainInv
<1>9. ASSUME NEW c \in Calls, Dialog!EditAnswered(c)
      PROVE  AgainInv'
    <2>1. draft # None => draft.id = calls[c].id /\ draft.revision = calls[c].base
        BY <1>a, <1>c, <1>9, Refetches DEF DraftInv
    <2>2. ~isEditingReceipt' /\ "draft" \notin harmed'
        BY <1>a, <1>c, <1>9, <2>1, Refetches DEF Dialog!EditAnswered, Dialog!DropDraft, Dialog!Show
    <2> QED
        BY <2>2 DEF AgainInv
<1>10. ASSUME NEW c \in Calls, Dialog!RefetchAnswered(c)
       PROVE  AgainInv'
    <2>1. draft = None
        BY <1>a, <1>c, <1>10 DEF Dialog!RefetchAnswered, Dialog!Answered, DraftInv
    <2>2. ~isEditingReceipt' /\ "draft" \notin harmed'
        BY <1>c, <1>10, <2>1 DEF Dialog!RefetchAnswered, Dialog!DropDraft, Dialog!Show
    <2> QED
        BY <2>2 DEF AgainInv
<1> QED
    BY <1>1, <1>2, <1>3, <1>4, <1>5, <1>6, <1>7, <1>8, <1>9, <1>10 DEF Dialog!Next

(***************************************************************************)
(* What the dialog promises                                                *)
(***************************************************************************)

(* The inductive invariant holds of the dialog within the client.           *)
THEOREM DialogInvariant == ClientSpec => []DialogIInv
<1>1. ClientInit => DialogIInv
    <2> SUFFICES ASSUME Dialog!Init
                 PROVE  DialogIInv
        BY DialogBegins
    <2>1. Dialog!TypeOK
        <3>1. 0 \in 0..MaxRevisions
            BY SizeAssumption
        <3> QED
            BY <3>1 DEF Dialog!Init, Dialog!TypeOK
    <2> QED
        BY <2>1 DEF Dialog!Init, DialogIInv, DraftInv, LeftInv, EarlyInv, AgainInv, ChangeAlone,
                    AnswersCurrent, ChangeHeld, EditBased, Is, ShowsTheSelected,
                    Dialog!ShowsTheSelected
<1>2. DialogIInv /\ [ClientNext]_clientVars => DialogIInv'
    BY DialogMoves, DialogTyped, DraftKept, LeftKept, EarlyKept, AgainKept DEF DialogIInv
<1> QED
    BY <1>1, <1>2, PTL DEF ClientSpec

(* The buttons of the dialog act on the receipt it shows: the detail is the *)
(* selected receipt's, as long as no other was selected, and none closed,   *)
(* while a detail or a correction was on its way.                           *)
THEOREM TheSelectedIsShown == ClientSpec => []ShowsTheSelected
<1>1. DialogIInv => ShowsTheSelected
    BY DEF DialogIInv, LeftInv, ShowsTheSelected, Dialog!ShowsTheSelected
<1> QED
    BY <1>1, DialogInvariant, PTL

(* No receipt is deleted but the one the user was asked about.              *)
THEOREM TheAskedIsDeleted == ClientSpec => []DeletesTheAsked
<1>1. DialogIInv => DeletesTheAsked
    BY DEF DialogIInv, LeftInv, DeletesTheAsked, Dialog!DeletesTheAsked
<1> QED
    BY <1>1, DialogInvariant, PTL

(* A correction undoes no change of the server that it did not show, for    *)
(* however many requests and changes.                                       *)
THEOREM NothingIsUndone == ClientSpec => []CorrectsWhatWasRead
<1>1. DialogIInv => CorrectsWhatWasRead
    BY DEF DialogIInv, EarlyInv, CorrectsWhatWasRead, Dialog!CorrectsWhatWasRead
<1> QED
    BY <1>1, DialogInvariant, PTL

(* The answer to one correction closes no other, and drops no draft.        *)
THEOREM NoDraftIsDropped == ClientSpec => []DraftsAreKept
<1>1. DialogIInv => DraftsAreKept
    BY DEF DialogIInv, AgainInv, DraftsAreKept, Dialog!DraftsAreKept
<1> QED
    BY <1>1, DialogInvariant, PTL

(***************************************************************************)
(* The list of receipts: its pages                                         *)
(***************************************************************************)

(* The larger and the smaller of two.                                       *)
LEMMA LargerOf == ASSUME NEW x \in Int PROVE List!Max({0, x}) = IF x > 0 THEN x ELSE 0
BY DEF List!Max

LEMMA SmallerOf ==
    ASSUME NEW x \in Int, NEW y \in Int
    PROVE  List!Min({x, y}) = IF x < y THEN x ELSE y
BY DEF List!Min

(* The rows of a page: none past the last row; and when one of the rows is  *)
(* gone, the page still has some, or the page before it has.                *)
LEMMA RowsOf ==
    ASSUME NEW n \in Nat, NEW p \in Nat \ {0}
    PROVE  /\ List!Rows(n, p) \in 0..PageSize
           /\ List!Rows(n, p) = 0 <=> n <= (p - 1) * PageSize
           /\ List!Rows(n, p) = 1 /\ p > 1 => n - 1 > (p - 2) * PageSize
           /\ List!Rows(n, p) > 1 => n - 1 > (p - 1) * PageSize
<1> DEFINE before == (p - 1) * PageSize
<1>1. before \in Nat /\ n - before \in Int /\ PageSize \in Nat \ {0}
    BY SizeAssumption
<1>2. (p - 2) * PageSize = before - PageSize
    BY <1>1
<1> HIDE DEF before
<1>3. List!Rows(n, p) = List!Max({0, List!Min({PageSize, n - before})})
    BY DEF List!Rows, before
<1> QED
    BY <1>1, <1>2, <1>3, LargerOf, SmallerOf DEF before

(* The pages of a list all begin before its end.                            *)
LEMMA PagesOf ==
    ASSUME NEW n \in Nat, NEW p \in 1..((n + PageSize - 1) \div PageSize)
    PROVE  (p - 1) * PageSize < n
BY SizeAssumption

(***************************************************************************)
(* The list within the client                                              *)
(***************************************************************************)

(* What the client begins with, and does, the list begins with, and does.   *)
LEMMA ListBegins == ClientInit => List!Init
BY DEF ClientInit

LEMMA ListMoves == [ClientNext]_clientVars => [List!Next]_listVars
BY DEF ClientNext, clientVars, listVars

(* What is fetched is of the type of a request.                             *)
LEMMA FetchType ==
    ASSUME List!TypeOK, NEW c \in Calls, NEW v \in Views, NEW p \in List!Pages, List!Fetch(c, v, p)
    PROVE  /\ loads' \in [Calls -> List!Load \cup {None}]
           /\ listCrossed' \subseteq {"together", "failed", "moved"}
BY DEF List!Fetch, List!Load, List!TypeOK

(* The list's state keeps its types.                                        *)
LEMMA ListTyped ==
    ASSUME List!TypeOK, [List!Next]_listVars
    PROVE  List!TypeOK'
<1> USE SizeAssumption
<1>a. /\ view \in Views /\ count \in [Views -> 0..MaxReceipts]
      /\ shown.page \in List!Pages /\ shown.view \in Views
    BY DEF List!TypeOK
<1>b. 1 \in List!Pages /\ \A p \in List!Pages : p > 1 => p - 1 \in List!Pages
    BY DEF List!Pages
<1>1. ASSUME NEW kind \in {"deletion", "correction"}, List!Alter(kind)
      PROVE  List!TypeOK'
    BY <1>a, <1>1 DEF List!Alter, List!Alteration, List!TypeOK
<1>2. CASE List!ServeDeletion
    <2>1. change.view \in Views /\ change' \in List!Alteration
        BY <1>2 DEF List!ServeDeletion, List!Alteration, List!TypeOK
    <2>2. count' \in [Views -> 0..MaxReceipts]
        BY <1>a, <1>2, <2>1 DEF List!ServeDeletion
    <2> QED
        BY <1>2, <2>1, <2>2 DEF List!ServeDeletion, List!Alteration, List!TypeOK
<1>3. ASSUME NEW v \in Views, List!ServeCorrection(v)
      PROVE  List!TypeOK'
    <2>1. change.view \in Views /\ change' \in List!Alteration
        BY <1>3 DEF List!ServeCorrection, List!Alteration, List!TypeOK
    <2>2. count' \in [Views -> 0..MaxReceipts]
        BY <1>a, <1>3, <2>1 DEF List!ServeCorrection
    <2> QED
        BY <1>3, <2>1, <2>2 DEF List!ServeCorrection, List!Alteration, List!TypeOK
<1>4. CASE List!ChangeFailed
    BY <1>4 DEF List!ChangeFailed, List!TypeOK
<1>5. ASSUME NEW c \in Calls, NEW v \in Views, List!Choose(c, v) \/ List!AddExpense(c, v)
      PROVE  List!TypeOK'
    <2>1. PICK w \in Views : List!Fetch(c, w, 1)
        BY <1>a, <1>5 DEF List!Choose, List!AddExpense
    <2>2. count' \in [Views -> 0..MaxReceipts]
        BY <1>a, <1>5 DEF List!Choose, List!AddExpense
    <2> QED
        BY <1>5, <1>b, <2>1, <2>2, FetchType DEF List!Choose, List!AddExpense, List!TypeOK
<1>6. ASSUME NEW c \in Calls, NEW p \in List!Pages, List!TurnTo(c, p)
      PROVE  List!TypeOK'
    BY <1>a, <1>6, FetchType DEF List!TurnTo, List!TypeOK
<1>7. ASSUME NEW c \in Calls, List!Serve(c)
      PROVE  List!TypeOK'
    BY <1>a, <1>7 DEF List!Serve, List!Load, List!TypeOK
<1>8. ASSUME NEW c \in Calls, List!ListAnswered(c)
      PROVE  List!TypeOK'
    <2>1. loads[c] \in [view : Views, page : List!Pages, total : 0..MaxReceipts]
        BY <1>8 DEF List!ListAnswered, List!Load, List!TypeOK
    <2>2. List!Rows(loads[c].total, loads[c].page) \in 0..PageSize
        <3>1. loads[c].total \in Nat /\ loads[c].page \in Nat \ {0}
            BY <2>1, SizeAssumption DEF List!Pages
        <3> QED
            BY <3>1, RowsOf
    <2>3. shown' \in [view : Views, page : List!Pages, rows : 0..PageSize, total : 0..MaxReceipts]
        BY <1>8, <2>1, <2>2 DEF List!ListAnswered
    <2> QED
        BY <1>8, <2>3 DEF List!ListAnswered, List!TypeOK
<1>9. ASSUME NEW c \in Calls, List!ListFailed(c)
      PROVE  List!TypeOK'
    BY <1>9 DEF List!ListFailed, List!TypeOK
<1>10. ASSUME NEW c \in Calls, List!Deleted(c) \/ List!Corrected(c)
       PROVE  List!TypeOK'
    <2>1. PICK p \in List!Pages : List!Fetch(c, view, p)
        BY <1>a, <1>b, <1>10 DEF List!Deleted, List!Corrected
    <2> QED
        BY <1>a, <1>10, <2>1, FetchType DEF List!Deleted, List!Corrected, List!TypeOK
<1>11. CASE UNCHANGED listVars
    BY <1>11 DEF listVars, List!TypeOK
<1> QED
    BY <1>1, <1>2, <1>3, <1>4, <1>5, <1>6, <1>7, <1>8, <1>9, <1>10, <1>11 DEF List!Next

(***************************************************************************)
(* The inductive invariant of the list                                     *)
(***************************************************************************)

(* A page that has rows, or is the first.                                   *)
Fits(n, p) == p = 1 \/ (p - 1) * PageSize < n

(* What has been taken from the list and not been fetched again.            *)
Gone == IF change.kind = "deletion" /\ change.served THEN 1 ELSE 0

(* While the user waits, and nothing fails or leaves the view: one thing is *)
(* on its way, each page that is fetched or shown has rows or is the first, *)
(* and what is shown is what the server has, but for what is being deleted. *)
ListInv ==
    listCrossed = {} =>
        /\ \A c, d \in List!Loading : c = d
        /\ List!Loading # {} => change = None
        /\ \A c \in List!Loading :
               /\ loads[c].view = view
               /\ Fits(count[view], loads[c].page)
               /\ loads[c].total \in {None, count[view]}
        /\ Fits(shown.total, shown.page)
        /\ List!Loading = {} =>
               shown.view = view /\ shown.rows = List!Rows(shown.total, shown.page)
        /\ List!Loading = {} /\ change = None => shown.total \in {0, count[view]}
        /\ change # None =>
               change.view = view /\ shown.rows > 0 /\ shown.total = count[view] + Gone

ListIInv == List!TypeOK /\ ListInv

(* A page that is fetched, and alone on its way, keeps the invariant.       *)
LEMMA FetchKeeps ==
    ASSUME ListIInv, NEW c \in Calls, NEW p \in List!Pages, List!Fetch(c, view', p),
           view' \in Views, change' = None \/ change' = change,
           shown' = shown \/ shown' = [shown EXCEPT !.page = 1], Fits(count'[view'], p)
    PROVE  ListInv'
<1> SUFFICES ASSUME listCrossed' = {}
             PROVE  ListInv'
    BY DEF ListInv
<1>1. listCrossed = {} /\ List!Loading = {} /\ change' = None
    BY DEF List!Fetch
<1>2. loads'[c] = [view |-> view', page |-> p, total |-> None]
      /\ \A d \in Calls : d # c => loads'[d] = loads[d]
    BY DEF List!Fetch, ListIInv, List!TypeOK
<1>3. loads'[c] # None
    BY <1>2, NothingAssumption DEF List!Load
<1>4. \A d \in Calls : d # c => loads'[d] = None
    BY <1>1, <1>2 DEF List!Loading
<1>5. Fits(shown.total, shown.page)
    BY <1>1 DEF ListIInv, ListInv
<1>6. Fits(shown'.total, shown'.page)
    BY <1>5 DEF ListIInv, List!TypeOK, Fits
<1> QED
    BY <1>1, <1>2, <1>3, <1>4, <1>6 DEF ListInv, List!Loading, Fits

(* The list stays as the server has it.                                     *)
LEMMA ListKept ==
    ASSUME ListIInv, [List!Next]_listVars
    PROVE  ListInv'
<1> USE SizeAssumption
<1>a. /\ List!TypeOK /\ view \in Views /\ count \in [Views -> 0..MaxReceipts]
      /\ shown.page \in List!Pages /\ shown.total \in 0..MaxReceipts /\ shown.rows \in 0..PageSize
      /\ shown.view \in Views
    BY DEF ListIInv, List!TypeOK
<1>b. listCrossed = {} =>
          /\ \A c, d \in List!Loading : c = d
          /\ List!Loading # {} => change = None
          /\ \A c \in List!Loading :
                 /\ loads[c].view = view
                 /\ Fits(count[view], loads[c].page)
                 /\ loads[c].total \in {None, count[view]}
          /\ Fits(shown.total, shown.page)
          /\ List!Loading = {} =>
                 shown.view = view /\ shown.rows = List!Rows(shown.total, shown.page)
          /\ List!Loading = {} /\ change = None => shown.total \in {0, count[view]}
          /\ change # None =>
                 change.view = view /\ shown.rows > 0 /\ shown.total = count[view] + Gone
    BY DEF ListIInv, ListInv
<1>1. ASSUME NEW kind \in {"deletion", "correction"}, List!Alter(kind)
      PROVE  ListInv'
    <2> SUFFICES ASSUME listCrossed' = {}
                 PROVE  ListInv'
        BY DEF ListInv
    <2>1. /\ listCrossed = {} /\ List!Loading = {} /\ change = None /\ shown.rows > 0
          /\ change' = [kind |-> kind, view |-> shown.view, served |-> FALSE]
          /\ UNCHANGED <<count, view, shown, loads>>
        BY <1>1 DEF List!Alter
    <2>2. shown.total = count[view]
        <3>1. /\ shown.page \in Nat \ {0} /\ (shown.page - 1) * PageSize \in Nat
              /\ List!Rows(shown.total, shown.page) > 0 /\ shown.total \in {0, count[view]}
            BY <1>a, <1>b, <2>1 DEF List!Pages
        <3>2. 0 \in Nat /\ 0 <= (shown.page - 1) * PageSize
            BY <3>1
        <3>3. List!Rows(0, shown.page) = 0
            BY <3>1, <3>2, RowsOf
        <3> QED
            BY <3>1, <3>3
    <2>3. /\ shown.view = view
          /\ shown.rows = List!Rows(shown.total, shown.page) /\ Fits(shown.total, shown.page)
        BY <1>b, <2>1
    <2>4. change'.view = view /\ Gone' = 0 /\ List!Loading' = {}
        BY <2>1, <2>3 DEF Gone, List!Loading
    <2> QED
        BY <1>a, <2>1, <2>2, <2>3, <2>4 DEF ListInv, Fits
<1>2. CASE List!ServeDeletion
    <2> SUFFICES ASSUME listCrossed' = {}
                 PROVE  ListInv'
        BY DEF ListInv
    <2>1. /\ listCrossed = {} /\ change # None /\ change.kind = "deletion" /\ ~change.served
          /\ change'.kind = "deletion" /\ change'.served /\ change'.view = change.view
          /\ UNCHANGED <<view, shown, loads>>
        BY <1>a, <1>2 DEF List!ServeDeletion, List!Alteration, List!TypeOK
    <2>2. /\ change.view = view /\ List!Loading = {} /\ shown.view = view /\ shown.rows > 0
          /\ shown.rows = List!Rows(shown.total, shown.page) /\ Fits(shown.total, shown.page)
          /\ shown.total = count[view] + Gone
        BY <1>b, <2>1
    <2>3. count'[view] = count[view] - 1 /\ count[view] \in Nat
        BY <1>a, <1>2, <2>2 DEF List!ServeDeletion
    <2>4. change'.view = view /\ Gone = 0 /\ Gone' = 1 /\ List!Loading' = {}
        BY <2>1, <2>2 DEF Gone, List!Loading
    <2>5. shown.total = count'[view] + Gone'
        BY <1>a, <2>2, <2>3, <2>4
    <2>6. change' # None
        BY <1>a, <1>2, NothingAssumption DEF List!ServeDeletion, List!Alteration, List!TypeOK
    <2> QED
        BY <2>1, <2>2, <2>4, <2>5, <2>6 DEF ListInv, Fits
<1>3. ASSUME NEW v \in Views, List!ServeCorrection(v)
      PROVE  ListInv'
    <2> SUFFICES ASSUME listCrossed' = {}
                 PROVE  ListInv'
        BY DEF ListInv
    <2>1. /\ listCrossed = {} /\ change # None /\ change.kind = "correction"
          /\ v = change.view
          /\ change'.kind = "correction" /\ change'.view = change.view
          /\ UNCHANGED <<view, shown, loads>>
        BY <1>a, <1>3 DEF List!ServeCorrection, List!Alteration, List!TypeOK
    <2>2. count'[view] = count[view] /\ List!Loading = {}
        BY <1>a, <1>b, <1>3, <2>1 DEF List!ServeCorrection
    <2> QED
        BY <1>a, <1>b, <2>1, <2>2 DEF ListInv, List!Loading, Gone, Fits
<1>4. CASE List!ChangeFailed
    BY <1>4 DEF List!ChangeFailed, ListInv
<1>5. ASSUME NEW c \in Calls, NEW v \in Views, List!Choose(c, v) \/ List!AddExpense(c, v)
      PROVE  ListInv'
    <2>1. /\ List!Fetch(c, view', 1) /\ change' = change /\ view' \in Views
          /\ shown' = shown \/ shown' = [shown EXCEPT !.page = 1]
        BY <1>a, <1>5 DEF List!Choose, List!AddExpense
    <2> QED
        BY <2>1, FetchKeeps DEF Fits, List!Pages
<1>6. ASSUME NEW c \in Calls, NEW p \in List!Pages, List!TurnTo(c, p)
      PROVE  ListInv'
    <2> SUFFICES ASSUME listCrossed' = {}
                 PROVE  ListInv'
        BY DEF ListInv
    <2>1. /\ List!Fetch(c, view', p) /\ UNCHANGED <<change, shown, view, count>>
          /\ List!Loading = {} /\ listCrossed = {}
        BY <1>6 DEF List!TurnTo, List!Fetch
    <2>2. change = None
        BY <1>6, <2>1 DEF List!TurnTo, List!Fetch
    <2>3. p = shown.page \/ p \in 1..((shown.total + PageSize - 1) \div PageSize)
        BY <1>6 DEF List!TurnTo
    <2>4. Fits(shown.total, p)
        BY <1>a, <1>b, <2>1, <2>3, PagesOf DEF Fits
    <2>5. Fits(count[view], p)
        <3>1. CASE shown.total = count[view]
            BY <2>4, <3>1
        <3>2. CASE shown.total = 0
            <4>1. (p - 1) * PageSize \in Nat
                BY DEF List!Pages
            <4> QED
                BY <2>4, <3>2, <4>1 DEF Fits
        <3> QED
            BY <1>b, <2>1, <2>2, <3>1, <3>2
    <2> QED
        BY <1>a, <2>1, <2>5, FetchKeeps
<1>7. ASSUME NEW c \in Calls, List!Serve(c)
      PROVE  ListInv'
    <2> SUFFICES ASSUME listCrossed' = {}
                 PROVE  ListInv'
        BY DEF ListInv
    <2>1. /\ UNCHANGED <<count, view, shown, change>> /\ listCrossed = {} /\ loads[c] # None
          /\ loads[c] \in List!Load
        BY <1>a, <1>7 DEF List!Serve, List!TypeOK
    <2>2. /\ loads'[c] = [loads[c] EXCEPT !.total = count[loads[c].view]]
          /\ \A d \in Calls : d # c => loads'[d] = loads[d]
        BY <1>a, <1>7 DEF List!Serve, List!TypeOK
    <2>3. /\ loads'[c].view = loads[c].view /\ loads'[c].page = loads[c].page
          /\ loads'[c].total = count[loads[c].view]
        BY <2>1, <2>2 DEF List!Load
    <2>4. loads'[c] \in List!Load
        BY <1>a, <2>1, <2>2 DEF List!Load
    <2>5. List!Loading' = List!Loading /\ c \in List!Loading
        BY <2>1, <2>2, <2>4, NothingAssumption DEF List!Loading
    <2>6. loads'[c].total = count[view]
        BY <1>b, <2>1, <2>3, <2>5
    <2> QED
        BY <1>b, <2>1, <2>2, <2>3, <2>5, <2>6 DEF ListInv, Gone, Fits
<1>8. ASSUME NEW c \in Calls, List!ListAnswered(c)
      PROVE  ListInv'
    <2> SUFFICES ASSUME listCrossed' = {}
                 PROVE  ListInv'
        BY DEF ListInv
    <2>1. /\ UNCHANGED <<count, view, change>> /\ listCrossed = {}
          /\ loads[c] # None /\ loads[c].total # None
          /\ loads'[c] = None /\ \A d \in Calls : d # c => loads'[d] = loads[d]
          /\ shown' = [view |-> loads[c].view, page |-> loads[c].page, total |-> loads[c].total,
                       rows |-> List!Rows(loads[c].total, loads[c].page)]
        BY <1>a, <1>8 DEF List!ListAnswered, List!TypeOK
    <2>2. c \in List!Loading
        BY <2>1 DEF List!Loading
    <2>3. /\ change = None /\ loads[c].view = view /\ loads[c].total = count[view]
          /\ Fits(count[view], loads[c].page)
        BY <1>b, <2>1, <2>2
    <2>4. \A d \in Calls : loads'[d] = None
        BY <1>b, <2>1, <2>2 DEF List!Loading
    <2> QED
        BY <2>1, <2>3, <2>4 DEF ListInv, List!Loading, Fits
<1>9. ASSUME NEW c \in Calls, List!ListFailed(c)
      PROVE  ListInv'
    BY <1>9 DEF List!ListFailed, ListInv
<1>10. ASSUME NEW c \in Calls, List!Deleted(c)
       PROVE  ListInv'
    <2> SUFFICES ASSUME listCrossed' = {}
                 PROVE  ListInv'
        BY DEF ListInv
    <2> DEFINE p == IF shown.rows = 1 /\ shown.page > 1 THEN shown.page - 1 ELSE shown.page
    <2>1. /\ List!Fetch(c, view, p) /\ change' = None /\ UNCHANGED <<shown, view, count>>
          /\ change # None /\ change.kind = "deletion" /\ change.served
        BY <1>10 DEF List!Deleted
    <2>2. listCrossed = {}
        BY <2>1 DEF List!Fetch
    <2>3. /\ shown.total = count[view] + 1 /\ shown.rows > 0
          /\ shown.rows = List!Rows(shown.total, shown.page) /\ Fits(shown.total, shown.page)
        BY <1>b, <2>1, <2>2 DEF Gone
    <2>4. p \in List!Pages /\ shown.page \in Nat \ {0} /\ count[view] \in Nat /\ shown.total \in Nat
        BY <1>a DEF List!Pages
    <2>5. Fits(count[view], p)
        <3>1. CASE shown.rows = 1 /\ shown.page > 1
            <4>1. shown.total - 1 > (shown.page - 2) * PageSize
                BY <2>3, <2>4, <3>1, RowsOf
            <4> QED
                BY <2>3, <2>4, <3>1, <4>1 DEF Fits
        <3>2. CASE shown.page = 1
            BY <3>2 DEF Fits
        <3>3. CASE shown.rows > 1
            <4>1. shown.total - 1 > (shown.page - 1) * PageSize
                BY <2>3, <2>4, <3>3, RowsOf
            <4> QED
                BY <2>3, <2>4, <3>3, <4>1 DEF Fits
        <3> QED
            BY <1>a, <2>3, <2>4, <3>1, <3>2, <3>3
    <2> QED
        BY <1>a, <2>1, <2>4, <2>5, FetchKeeps
<1>11. ASSUME NEW c \in Calls, List!Corrected(c)
       PROVE  ListInv'
    <2> SUFFICES ASSUME listCrossed' = {}
                 PROVE  ListInv'
        BY DEF ListInv
    <2>1. /\ List!Fetch(c, view, shown.page) /\ change' = None /\ UNCHANGED <<shown, view, count>>
          /\ change # None /\ change.kind = "correction" /\ listCrossed = {}
        BY <1>11 DEF List!Corrected, List!Fetch
    <2>2. Fits(count[view], shown.page)
        BY <1>a, <1>b, <2>1 DEF Gone
    <2> QED
        BY <1>a, <2>1, <2>2, FetchKeeps
<1>12. CASE UNCHANGED listVars
    BY <1>12 DEF listVars, ListIInv, ListInv, List!Loading, Gone, Fits
<1> QED
    BY <1>1, <1>2, <1>3, <1>4, <1>5, <1>6, <1>7, <1>8, <1>9, <1>10, <1>11, <1>12 DEF List!Next

(***************************************************************************)
(* What the list promises                                                  *)
(***************************************************************************)

(* The inductive invariant holds of the list within the client.             *)
THEOREM ListInvariant == ClientSpec => []ListIInv
<1>1. ClientInit => ListIInv
    <2> SUFFICES ASSUME List!Init
                 PROVE  ListIInv
        BY ListBegins
    <2>1. List!TypeOK
        BY SizeAssumption DEF List!Init, List!TypeOK, List!Pages
    <2>2. List!Rows(0, 1) = 0
        <3>1. 0 \in Nat /\ 1 \in Nat \ {0} /\ 0 <= (1 - 1) * PageSize
            BY SizeAssumption
        <3> QED
            BY <3>1, RowsOf
    <2> QED
        BY <2>1, <2>2 DEF List!Init, ListIInv, ListInv, List!Loading, Fits
<1>2. ListIInv /\ [ClientNext]_clientVars => ListIInv'
    BY ListMoves, ListTyped, ListKept DEF ListIInv
<1> QED
    BY <1>1, <1>2, PTL DEF ClientSpec

(* For pages of every length and lists of every size: who deletes the last  *)
(* row of a page, and waits for it, is not left on an empty page.           *)
THEOREM NoPageIsEmpty == ClientSpec => []NoEmptyPage
<1>1. ListIInv => NoEmptyPage
    <2> SUFFICES ASSUME ListIInv, List!Settled, listCrossed = {}, shown.rows = 0
                 PROVE  shown.page = 1
        BY DEF NoEmptyPage, List!NoEmptyPage
    <2>1. /\ List!Rows(shown.total, shown.page) = 0 /\ Fits(shown.total, shown.page)
          /\ shown.total \in Nat /\ shown.page \in Nat \ {0}
        BY SizeAssumption DEF ListIInv, ListInv, List!TypeOK, List!Pages, List!Settled
    <2> DEFINE before == (shown.page - 1) * PageSize
    <2>2. before \in Nat /\ shown.total <= before
        BY <2>1, RowsOf, SizeAssumption
    <2>3. shown.page = 1 \/ before < shown.total
        BY <2>1 DEF Fits
    <2> HIDE DEF before
    <2> QED
        BY <2>1, <2>2, <2>3
<1> QED
    BY <1>1, ListInvariant, PTL

=============================================================================
