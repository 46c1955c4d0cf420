------------------------------- MODULE MCClient -------------------------------
(* The stores of the client that keep their state apart from one another,   *)
(* one of them in use in each behaviour: where receipts of an upload go,    *)
(* what screens hold of an account, the dialog of a receipt, the list of    *)
(* receipts, the session, the conversation with the assistant.              *)
EXTENDS TripChoice, AccountViews, Integers, Sequences, TLC

CONSTANTS Receipts, MaxRevisions, Views, PageSize, MaxReceipts, Tabs, Families, MaxTokens,
          MaxMessages, MaxThreads, Calls

VARIABLES
    focus,  \* the store in use
    alive, revision, selectedReceiptId, receiptDetail, isLoadingDetail, isEditingReceipt, draft,
    pendingDeleteId, calls, dialogCrossed, harmed,
    count, view, shown, loads, change, listCrossed,
    token, storage, memory, refreshes, leaving, left, sessionCrossed,
    conversations, open, pending, sending, opening, attaching, written, thread, chatCrossed

dialogVars == <<alive, revision, selectedReceiptId, receiptDetail, isLoadingDetail,
                isEditingReceipt, draft, pendingDeleteId, calls, dialogCrossed, harmed>>
listVars == <<count, view, shown, loads, change, listCrossed>>
sessionVars == <<token, storage, memory, refreshes, leaving, left, sessionCrossed>>
chatVars == <<conversations, open, pending, sending, opening, attaching, written, thread,
              chatCrossed>>
clientVars == <<focus, vars, accountVars, dialogVars, listVars, sessionVars, chatVars>>

Dialog == INSTANCE ReceiptScreen WITH crossed <- dialogCrossed
List == INSTANCE ReceiptList WITH crossed <- listCrossed
Session == INSTANCE Sessions WITH crossed <- sessionCrossed
Chat == INSTANCE Conversation WITH crossed <- chatCrossed

(* Nothing is none of what it stands in for.                                *)
ASSUME NothingAssumption ==
    /\ None \notin Receipts /\ None \notin Dialog!Detail /\ None \notin Dialog!Call
    /\ None \notin List!Load /\ None \notin List!Alteration
    /\ None \notin Session!Session /\ None \notin Session!Request /\ None \notin Session!Leaving
    /\ None \notin Chat!Post /\ None \notin 0..MaxRevisions /\ None \notin 1..MaxMessages

(* A page has a row, a session a token, and the user may write.             *)
ASSUME SizeAssumption ==
    /\ {MaxRevisions, MaxReceipts} \subseteq Nat
    /\ {PageSize, MaxTokens, MaxMessages, MaxThreads} \subseteq Nat \ {0}

(* Every store keeps its type.                                              *)
ClientTypeOK == /\ TypeOK /\ AccountTypeOK
                /\ Dialog!TypeOK /\ List!TypeOK /\ Session!TypeOK /\ Chat!TypeOK

ClientInit ==
    /\ focus \in {"trip", "account", "dialog", "list", "session", "chat"}
    /\ Init /\ AccountInit
    /\ Dialog!Init /\ List!Init /\ Session!Init /\ Chat!Init

ClientNext ==
    \/ /\ focus = "trip" /\ Next
       /\ UNCHANGED <<focus, accountVars, dialogVars, listVars, sessionVars, chatVars>>
    \/ /\ focus = "account" /\ AccountNext
       /\ UNCHANGED <<focus, vars, dialogVars, listVars, sessionVars, chatVars>>
    \/ /\ focus = "dialog" /\ Dialog!Next
       /\ UNCHANGED <<focus, vars, accountVars, listVars, sessionVars, chatVars>>
    \/ /\ focus = "list" /\ List!Next
       /\ UNCHANGED <<focus, vars, accountVars, dialogVars, sessionVars, chatVars>>
    \/ /\ focus = "session" /\ Session!Next
       /\ UNCHANGED <<focus, vars, accountVars, dialogVars, listVars, chatVars>>
    \/ /\ focus = "chat" /\ Chat!Next
       /\ UNCHANGED <<focus, vars, accountVars, dialogVars, listVars, sessionVars>>

ClientSpec == ClientInit /\ [][ClientNext]_clientVars

(* Bound: the kinds of impatience in one behaviour.                         *)
Bounds == \A marks \in {crossed, dialogCrossed, listCrossed, sessionCrossed} :
              Cardinality(marks) <= 1
(* A list that is not in use is empty: one initial state for the others.    *)
Unused == focus # "list" => \A v \in Views : count[v] = 0
ClientSymmetry ==
    Permutations(Receipts) \cup Permutations(Calls) \cup Permutations(Tabs)

(* ReceiptScreen: the detail is the selected receipt's.                     *)
ShowsTheSelected == Dialog!ShowsTheSelected
(* ReceiptScreen: what is deleted was asked about.                          *)
DeletesTheAsked == Dialog!DeletesTheAsked
(* ReceiptScreen: a correction writes over nothing it did not show.         *)
CorrectsWhatWasRead == Dialog!CorrectsWhatWasRead
(* ReceiptScreen: an answer closes only the correction it answers.          *)
DraftsAreKept == Dialog!DraftsAreKept
(* ReceiptList: no empty page while there are rows.                         *)
NoEmptyPage == List!NoEmptyPage
(* Sessions: one refresh serves all that were refused.                      *)
StaysSignedIn == Session!StaysSignedIn
(* Sessions: a session signed out of does not come back.                    *)
OutStaysOut == Session!OutStaysOut
(* Conversation: messages land together and in order.                       *)
LandsTogether == Chat!LandsTogether
=============================================================================
