--------------------------- MODULE MonthSnapshots ---------------------------
(***************************************************************************)
(* The figure of a finished month, kept as a snapshot taken on the first   *)
(* look (services/budget.py) and dropped by the flush that changes one of  *)
(* the month's receipts (db/snapshot_invalidation.py).  A look is four     *)
(* reads and an insert, a change a load, the hook's DELETE, the statement  *)
(* and the commit; each statement sees what is committed when it runs.     *)
(***************************************************************************)
EXTENDS Integers, Sequences

CONSTANTS
    Receipts,
    Months,     \* the months receipts are filed under, 1..n
    Amounts,    \* what the lines of a receipt may come to
    Requests,   \* requests in flight at once
    TripKinds,  \* the kinds of trip the user records: \subseteq {"personal", "business"}
    None,       \* no snapshot, no trip, no month, no receipt
    Unstored,   \* a receipt that is not there yet
    Deleted

ASSUME TripKindsAssumption == TripKinds \subseteq {"personal", "business"}
ASSUME MonthsAssumption == Months \subseteq Nat
ASSUME MissingAssumption == Unstored # Deleted

VARIABLES
    row,       \* each receipt: its month, status, lines' total, its place in the trip
    trip,      \* the kind of the user's trip
    snapshot,  \* monthly_snapshots
    today,     \* the first month that is not over anywhere on Earth
    stage,     \* what each request is doing
    month,     \* the month it looks at
    read,      \* the parts of the figure it has read
    receipt,   \* the receipt it changes
    loaded,    \* that receipt as it loaded it
    wanted,    \* and as it wants it
    drops,     \* the snapshots it has deleted, not committed
    met,       \* looks that a change was flushed during, or the trip passed by
    chancy,    \* history: months whose snapshot such a look saved
    passed     \* history: months with a snapshot whose figure the trip has changed

data == <<row, trip, snapshot, today>>
look == <<month, read>>
change == <<receipt, loaded, wanted, drops>>
history == <<met, chancy, passed>>
vars == <<data, stage, look, change, history>>

Fields == {"month", "parsed", "paid", "away"}
Row == [month : Months, parsed : BOOLEAN, paid : Amounts, away : BOOLEAN]
Missing == {Unstored, Deleted}

ASSUME RowAssumption == Row \cap Missing = {}
ASSUME NoneAssumption == None # "business"

(* month_total's sum and count, month_under_review's count and value: each  *)
(* is a statement of its own.  Sums and counts are kept as what is summed   *)
(* and counted.                                                             *)
Parts == <<"total", "receipt_count", "excluded_count", "excluded_amount">>

(* on_trip(BUSINESS): put in a business trip by hand.                       *)
Repaid(r) == trip = "business" /\ row[r].away

Counted(m) == {r \in Receipts : row[r] \notin Missing /\ row[r].month = m
                                    /\ row[r].parsed /\ ~Repaid(r)}
InReview(m) == {r \in Receipts : row[r] \notin Missing /\ row[r].month = m
                                     /\ ~row[r].parsed /\ ~Repaid(r)}

Part(m, n) ==
    CASE Parts[n] = "total"           -> {<<r, row[r].paid>> : r \in Counted(m)}
      [] Parts[n] = "receipt_count"   -> {<<r>> : r \in Counted(m)}
      [] Parts[n] = "excluded_count"  -> {<<r>> : r \in InReview(m)}
      [] Parts[n] = "excluded_amount" -> {<<r, row[r].paid>> : r \in InReview(m)}

(* _live: the figure of the month as its receipts stand.                    *)
Figure(m) == [n \in DOMAIN Parts |-> Part(m, n)]

PartValue == (SUBSET (Receipts \X Amounts)) \cup (SUBSET {<<r>> : r \in Receipts})

TypeOK ==
    /\ row \in [Receipts -> Row \cup Missing]
    /\ trip \in TripKinds \cup {None}
    /\ snapshot \in [Months -> [DOMAIN Parts -> PartValue] \cup {None}]
    /\ today \in Nat
    /\ stage \in [Requests -> {"idle", "looking", "loaded", "dropped", "written"}]
    /\ month \in [Requests -> Months \cup {None}]
    /\ read \in [Requests -> Seq(PartValue)]
    /\ \A q \in Requests : Len(read[q]) <= Len(Parts)
    /\ receipt \in [Requests -> Receipts \cup {None}]
    /\ loaded \in [Requests -> Row \cup Missing]
    /\ wanted \in [Requests -> Row \cup Missing]
    /\ drops \in [Requests -> SUBSET Months]
    /\ met \subseteq Requests
    /\ chancy \subseteq Months
    /\ passed \subseteq Months

Init ==
    /\ row = [r \in Receipts |-> Unstored]
    /\ trip = None
    /\ snapshot = [m \in Months |-> None]
    /\ today \in Months
    /\ stage = [q \in Requests |-> "idle"]
    /\ month = [q \in Requests |-> None]
    /\ read = [q \in Requests |-> <<>>]
    /\ receipt = [q \in Requests |-> None]
    /\ loaded = [q \in Requests |-> Unstored]
    /\ wanted = [q \in Requests |-> Unstored]
    /\ drops = [q \in Requests |-> {}]
    /\ met = {}
    /\ chancy = {}
    /\ passed = {}

(* The request is over and its session closed.                              *)
Rest(q) ==
    /\ stage' = [stage EXCEPT ![q] = "idle"]
    /\ month' = [month EXCEPT ![q] = None]
    /\ read' = [read EXCEPT ![q] = <<>>]
    /\ receipt' = [receipt EXCEPT ![q] = None]
    /\ loaded' = [loaded EXCEPT ![q] = Unstored]
    /\ wanted' = [wanted EXCEPT ![q] = Unstored]
    /\ drops' = [drops EXCEPT ![q] = {}]
    /\ met' = met \ {q}

Flushing == {q \in Requests : stage[q] \in {"dropped", "written"}}

(* Another request has deleted m's snapshot and not committed.              *)
Held(q, m) == \E p \in Requests \ {q} : m \in drops[p]

(***************************************************************************)
(* A look at a month                                                       *)
(***************************************************************************)

(* _figure: find gives nothing, and the month has ended for everyone.  A    *)
(* month that has a snapshot, or is not over, changes nothing.              *)
BeginLook(q, m) ==
    /\ stage[q] = "idle"
    /\ m < today
    /\ snapshot[m] = None
    /\ stage' = [stage EXCEPT ![q] = "looking"]
    /\ month' = [month EXCEPT ![q] = m]
    /\ met' = IF Flushing # {} THEN met \cup {q} ELSE met
    /\ UNCHANGED <<data, read, change, chancy, passed>>

ReadPart(q) ==
    /\ stage[q] = "looking"
    /\ Len(read[q]) < Len(Parts)
    /\ read' = [read EXCEPT ![q] = Append(@, Part(month[q], Len(@) + 1))]
    /\ UNCHANGED <<data, stage, month, change, history>>

(* Mutated Save: stored before the held-out receipts were read.             *)
SaveEarly(q) ==
    /\ stage[q] = "looking"
    /\ ~Held(q, month[q])
    /\ snapshot' = [snapshot EXCEPT ![month[q]] = IF @ = None THEN read[q] ELSE @]
    /\ Rest(q)
    /\ UNCHANGED <<row, trip, today, chancy, passed>>

(* save: INSERT ... ON CONFLICT DO NOTHING, and the request commits.  The   *)
(* insert waits for a deletion of the same month to end.                    *)
Save(q) ==
    /\ stage[q] = "looking"
    /\ Len(read[q]) = Len(Parts)
    /\ ~Held(q, month[q])
    /\ \/ /\ snapshot[month[q]] = None
          /\ snapshot' = [snapshot EXCEPT ![month[q]] = read[q]]
          /\ chancy' = IF q \in met THEN chancy \cup {month[q]} ELSE chancy
       \/ /\ snapshot[month[q]] # None
          /\ UNCHANGED <<snapshot, chancy>>
    /\ Rest(q)
    /\ UNCHANGED <<row, trip, today, passed>>

(***************************************************************************)
(* A change of a receipt                                                   *)
(***************************************************************************)

(* The change puts the receipt in the trip by hand.                         *)
PutAway(old, new) == new # Deleted /\ new.away /\ (old \in Missing \/ ~old.away)

(* place_receipt leaves what update_receipt writes, and the other way round. *)
OneEdit(old, new) == new.away # old.away => new = [old EXCEPT !.away = new.away]

(* A receipt is stored, edited, moved in or out of the trip by hand, or     *)
(* deleted.  A new one has an id no other request knows.                    *)
BeginChange(q, r) ==
    /\ stage[q] = "idle"
    /\ row[r] # Deleted
    /\ row[r] = Unstored => r \notin {receipt[p] : p \in Requests}
    /\ \E x \in Row \cup {Deleted} :
        /\ x # row[r]
        /\ row[r] = Unstored => x # Deleted
        /\ row[r] # Unstored /\ x # Deleted => OneEdit(row[r], x)
        /\ PutAway(row[r], x) => trip # None
        /\ wanted' = [wanted EXCEPT ![q] = x]
    /\ stage' = [stage EXCEPT ![q] = "loaded"]
    /\ receipt' = [receipt EXCEPT ![q] = r]
    /\ loaded' = [loaded EXCEPT ![q] = row[r]]
    /\ UNCHANGED <<data, look, drops, history>>

MonthOf(x) == IF x \in Missing THEN {} ELSE {x.month}

(* Mutated Touched: only what the session knows.                            *)
TouchedLoaded(q) == MonthOf(loaded[q]) \cup MonthOf(wanted[q])

(* The months of the attributes before and after, and the receipt's month   *)
(* in the database.                                                         *)
Touched(q) == MonthOf(loaded[q]) \cup MonthOf(wanted[q]) \cup MonthOf(row[receipt[q]])

(* invalidate_monthly_snapshots: the first statement of the flush.  It      *)
(* waits for another deletion of the same snapshot to end.                  *)
Drop(q) ==
    /\ stage[q] = "loaded"
    /\ \A m \in Touched(q) : ~Held(q, m)
    /\ drops' = [drops EXCEPT ![q] = {m \in Touched(q) : snapshot[m] # None}]
    /\ stage' = [stage EXCEPT ![q] = "dropped"]
    /\ met' = met \cup {p \in Requests : stage[p] = "looking"}
    /\ UNCHANGED <<data, look, receipt, loaded, wanted, chancy, passed>>

(* Only the columns that changed are written: those of the receipts row,    *)
(* the lines', or both.                                                     *)
Columns(q) ==
    IF loaded[q] \in Missing \/ wanted[q] \in Missing
    THEN Fields
    ELSE {c \in Fields : wanted[q][c] # loaded[q][c]}
Locks(q) == {IF c = "paid" THEN "line" ELSE "receipt" : c \in Columns(q)}
Locked(q) ==
    \E p \in Requests \ {q} :
        stage[p] = "written" /\ receipt[p] = receipt[q] /\ Locks(p) \cap Locks(q) # {}

(* The statement itself.  An UPDATE of a row that is gone raises, and so    *)
(* does one that names a trip that is gone; a DELETE of it does not.        *)
Write(q) ==
    /\ stage[q] = "dropped"
    /\ ~Locked(q)
    /\ row[receipt[q]] = Deleted => wanted[q] = Deleted
    /\ PutAway(loaded[q], wanted[q]) => trip # None
    /\ stage' = [stage EXCEPT ![q] = "written"]
    /\ UNCHANGED <<data, look, change, history>>

Commit(q) ==
    /\ stage[q] = "written"
    /\ row' = [row EXCEPT ![receipt[q]] =
                   IF wanted[q] = Deleted \/ @ = Unstored
                   THEN wanted[q]
                   ELSE [c \in Fields |-> IF c \in Columns(q) THEN wanted[q][c] ELSE @[c]]]
    /\ snapshot' = [m \in Months |-> IF m \in drops[q] THEN None ELSE snapshot[m]]
    /\ chancy' = chancy \ drops[q]
    /\ passed' = passed \ drops[q]
    /\ Rest(q)
    /\ UNCHANGED <<trip, today>>

(* A request that raises, is cancelled or loses its connection is rolled    *)
(* back; so is one PostgreSQL chooses to end a deadlock.                    *)
Abort(q) ==
    /\ stage[q] # "idle"
    /\ Rest(q)
    /\ UNCHANGED <<data, chancy, passed>>

(***************************************************************************)
(* The trip, and time                                                      *)
(***************************************************************************)

(* The months whose figure it changes that a trip is one for business, or   *)
(* is one no longer: those of the receipts put in it by hand.               *)
Turned ==
    {row[r].month : r \in {s \in Receipts :
        /\ (trip = "business") # (trip' = "business")
        /\ row[s] \notin Missing /\ row[s].away}}
Passed ==
    /\ passed' = passed \cup {m \in Turned : snapshot[m] # None}
    /\ met' = met \cup {q \in Requests : stage[q] = "looking" /\ month[q] \in Turned}

(* TripService.save: no receipt is pending, so no snapshot is dropped.      *)
SaveTrip(kind) ==
    /\ trip' = kind
    /\ Passed
    /\ UNCHANGED <<row, snapshot, today, stage, look, change, chancy>>

(* TripService.delete: release is a bulk UPDATE, which the hook does not    *)
(* see.  It waits for writes of the receipts it hands back.                 *)
DeleteTrip ==
    /\ trip # None
    /\ \A q \in Requests : stage[q] = "written" => "receipt" \notin Locks(q)
    /\ trip' = None
    /\ row' = [r \in Receipts |-> IF row[r] \in Missing THEN row[r]
                                  ELSE [row[r] EXCEPT !.away = FALSE]]
    /\ Passed
    /\ UNCHANGED <<snapshot, today, stage, look, change, chancy>>

(* Bound: the last of Months does not end.                                  *)
MonthEnds ==
    /\ today + 1 \in Months
    /\ today' = today + 1
    /\ UNCHANGED <<row, trip, snapshot, stage, look, change, history>>

Next ==
    \/ \E q \in Requests :
        \/ \E m \in Months : BeginLook(q, m)
        \/ ReadPart(q)
        \/ Save(q)
        \/ \E r \in Receipts : BeginChange(q, r)
        \/ Drop(q)
        \/ Write(q)
        \/ Commit(q)
        \/ Abort(q)
    \/ \E kind \in TripKinds : SaveTrip(kind)
    \/ DeleteTrip
    \/ MonthEnds

Spec == Init /\ [][Next]_vars

(***************************************************************************)
(* Properties                                                              *)
(***************************************************************************)

(* What the hook gives of "any mutation of a receipt in a snapshotted month *)
(* recalculates it" (docs/architecture/domain-model.md, invariant 7): a     *)
(* snapshot is not the figure of the month only if a change was between its *)
(* flush and its commit, or the trip changed, while the look that saved it  *)
(* was reading, or if the trip has changed the month since                  *)
(* (db/snapshot_invalidation.py, services/budget.py).                       *)
StaleOnlyByOverlap ==
    \A m \in Months \ (chancy \cup passed) : snapshot[m] # None => snapshot[m] = Figure(m)

=============================================================================
