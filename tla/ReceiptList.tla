----------------------------- MODULE ReceiptList -----------------------------
(***************************************************************************)
(* The list of receipts (stores/ReceiptStore.ts): the view that is chosen, *)
(* by period, order, filters and scope, and the page of it that is shown.  *)
(* Every request is answered into the list, the last answer wins.          *)
(***************************************************************************)
EXTENDS Integers, FiniteSets, FiniteSetsExt

CONSTANTS
    Views,        \* what the filters, the period and the scope may choose
    Calls,        \* requests that may be open at once
    PageSize,     \* rows on a page
    MaxReceipts,  \* bound: the receipts of one view
    None          \* no request

VARIABLES
    count,     \* the server: how many receipts each view holds
    view,      \* the filters as they stand
    shown,     \* the list: the view its rows were fetched for, its page, its rows
    loads,     \* GET /receipts that have not been answered
    change,    \* the deletion or the correction that has not been answered
    crossed    \* what has been done that a patient user would not do

vars == <<count, view, shown, loads, change, crossed>>

Pages == 1..(MaxReceipts + 1)
Rows(n, p) == Max({0, Min({PageSize, n - (p - 1) * PageSize})})

Load == [view : Views, page : Pages, total : 0..MaxReceipts \cup {None}]
Alteration == [kind : {"deletion", "correction"}, view : Views, served : BOOLEAN]

TypeOK ==
    /\ count \in [Views -> 0..MaxReceipts]
    /\ view \in Views
    /\ shown \in [view : Views, page : Pages, rows : 0..PageSize, total : 0..MaxReceipts]
    /\ loads \in [Calls -> Load \cup {None}]
    /\ change \in Alteration \cup {None}
    /\ crossed \subseteq {"together", "failed", "moved"}

Init ==
    /\ count \in [Views -> 0..MaxReceipts]
    /\ view \in Views
    /\ shown = [view |-> view, page |-> 1, rows |-> 0, total |-> 0]
    /\ loads = [c \in Calls |-> None]
    /\ change = None /\ crossed = {}

Loading == {c \in Calls : loads[c] # None}

(* fetchReceipts: the filters are read when it is sent.                     *)
Fetch(c, v, p) ==
    /\ loads[c] = None
    /\ loads' = [loads EXCEPT ![c] = [view |-> v, page |-> p, total |-> None]]
    /\ crossed' = IF Loading # {} \/ (change # None /\ change' # None)
                  THEN crossed \cup {"together"} ELSE crossed

(***************************************************************************)
(* What the user does                                                      *)
(***************************************************************************)

(* choosePeriod, chooseOrder, setFilters, setScope: from the first page,    *)
(* which is the list's at once, while the rows stay.                        *)
Choose(c, v) ==
    /\ view' = v
    /\ shown' = [shown EXCEPT !.page = 1]
    /\ UNCHANGED change
    /\ Fetch(c, v, 1)
    /\ UNCHANGED count

(* The page is opened, or turned.                                           *)
TurnTo(c, p) ==
    /\ p \in {shown.page} \cup 1..((shown.total + PageSize - 1) \div PageSize)
    /\ UNCHANGED change
    /\ Fetch(c, view, p)
    /\ UNCHANGED <<count, view, shown>>

(* addManualExpense: the first page again, whatever view it falls in.       *)
AddExpense(c, v) ==
    /\ count[v] < MaxReceipts
    /\ count' = [count EXCEPT ![v] = @ + 1]
    /\ UNCHANGED change
    /\ Fetch(c, view, 1)
    /\ UNCHANGED <<view, shown>>

(* A receipt is deleted or corrected from the list that shows it.           *)
Alter(kind) ==
    /\ change = None /\ shown.rows > 0
    /\ change' = [kind |-> kind, view |-> shown.view, served |-> FALSE]
    /\ crossed' = IF Loading # {} THEN crossed \cup {"together"} ELSE crossed
    /\ UNCHANGED <<count, view, shown, loads>>

(***************************************************************************)
(* The server, and its answers                                             *)
(***************************************************************************)

Serve(c) ==
    /\ loads[c] # None /\ loads[c].total = None
    /\ loads' = [loads EXCEPT ![c].total = count[loads[c].view]]
    /\ UNCHANGED <<count, view, shown, change, crossed>>

ServeDeletion ==
    /\ change # None /\ change.kind = "deletion" /\ ~change.served
    /\ count[change.view] > 0
    /\ count' = [count EXCEPT ![change.view] = @ - 1]
    /\ change' = [change EXCEPT !.served = TRUE]
    /\ UNCHANGED <<view, shown, loads, crossed>>

(* A corrected date, shop or total may take the receipt out of the view.    *)
ServeCorrection(v) ==
    /\ change # None /\ change.kind = "correction" /\ ~change.served
    /\ count[change.view] > 0
    /\ v # change.view => count[v] < MaxReceipts
    /\ count' = [w \in Views |-> count[w] + (IF w = v THEN 1 ELSE 0)
                                          - (IF w = change.view THEN 1 ELSE 0)]
    /\ change' = [change EXCEPT !.served = TRUE]
    /\ crossed' = IF v # change.view THEN crossed \cup {"moved"} ELSE crossed
    /\ UNCHANGED <<view, shown, loads>>

ListAnswered(c) ==
    /\ loads[c] # None /\ loads[c].total # None
    /\ shown' = [view |-> loads[c].view, page |-> loads[c].page, total |-> loads[c].total,
                 rows |-> Rows(loads[c].total, loads[c].page)]
    /\ loads' = [loads EXCEPT ![c] = None]
    /\ UNCHANGED <<count, view, change, crossed>>

ListFailed(c) ==
    /\ loads[c] # None
    /\ loads' = [loads EXCEPT ![c] = None]
    /\ crossed' = crossed \cup {"failed"}
    /\ UNCHANGED <<count, view, shown, change>>

(* Mutated Deleted: the page that was shown is fetched again.               *)
DeletedStayingThere(c) ==
    /\ change # None /\ change.kind = "deletion" /\ change.served
    /\ change' = None
    /\ Fetch(c, view, shown.page)
    /\ UNCHANGED <<count, view, shown>>

(* Mutated Deleted: back from the first page too.                           *)
DeletedPastTheFirst(c) ==
    /\ change # None /\ change.kind = "deletion" /\ change.served
    /\ change' = None
    /\ Fetch(c, view, IF shown.rows = 1 THEN shown.page - 1 ELSE shown.page)
    /\ UNCHANGED <<count, view, shown>>

(* deleteReceipt: one page back when the last row of a page went.           *)
Deleted(c) ==
    /\ change # None /\ change.kind = "deletion" /\ change.served
    /\ change' = None
    /\ Fetch(c, view, IF shown.rows = 1 /\ shown.page > 1 THEN shown.page - 1 ELSE shown.page)
    /\ UNCHANGED <<count, view, shown>>

(* updateReceipt: the same page, whatever is left of it.                    *)
Corrected(c) ==
    /\ change # None /\ change.kind = "correction" /\ change.served
    /\ change' = None
    /\ Fetch(c, view, shown.page)
    /\ UNCHANGED <<count, view, shown>>

(* Refused, or its answer lost: nothing is fetched.                         *)
ChangeFailed ==
    /\ change # None
    /\ change' = None
    /\ crossed' = crossed \cup {"failed"}
    /\ UNCHANGED <<count, view, shown, loads>>

Next ==
    \/ Alter("deletion") \/ Alter("correction") \/ ServeDeletion \/ ChangeFailed
    \/ \E v \in Views : ServeCorrection(v)
    \/ \E c \in Calls :
        \/ \E v \in Views : Choose(c, v) \/ AddExpense(c, v)
        \/ \E p \in Pages : TurnTo(c, p)
        \/ Serve(c) \/ ListAnswered(c) \/ ListFailed(c) \/ Deleted(c) \/ Corrected(c)

Spec == Init /\ [][Next]_vars

(***************************************************************************)
(* Properties                                                              *)
(***************************************************************************)

Settled == Loading = {} /\ change = None

(* The user is not left looking at an empty page of a list that has rows    *)
(* (deleteReceipt's step back), unless a correction took the page's last    *)
(* receipt out of the view.                                                 *)
NoEmptyPage == Settled /\ crossed = {} /\ shown.rows = 0 => shown.page = 1

=============================================================================
