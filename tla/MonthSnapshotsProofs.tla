------------------------ MODULE MonthSnapshotsProofs ------------------------
(***************************************************************************)
(* Proofs about the month snapshots.  The inductive invariant has three    *)
(* parts: what the locks keep apart (IInv), what a look that met no flush  *)
(* has read (Quiet), and what a flush has dropped (DropsCover).            *)
(***************************************************************************)
EXTENDS MonthSnapshots, TLAPS

(***************************************************************************)
(* The inductive invariant                                                 *)
(***************************************************************************)

Changing == {"loaded", "dropped", "written"}

(* A look has a month, a change a receipt and something it changes.         *)
InHand(q) ==
    /\ stage[q] = "looking" => month[q] \in Months
    /\ stage[q] \in Changing =>
           /\ receipt[q] \in Receipts
           /\ wanted[q] \in Row \cup {Deleted}
           /\ loaded[q] # wanted[q]
           /\ loaded[q] # Deleted

(* Two statements that hold the same row's locks are not of one receipt.    *)
Apart(p, q) ==
    (p # q /\ stage[p] = "written" /\ stage[q] = "written" /\ receipt[p] = receipt[q])
        => Locks(p) \cap Locks(q) = {}

(* A row is not deleted under a statement that writes it.                   *)
RowStays(q) ==
    (stage[q] = "written" /\ wanted[q] # Deleted) => row[receipt[q]] # Deleted

IInv ==
    /\ TypeOK
    /\ \A q \in Requests : InHand(q)
    /\ \A p, q \in Requests : Apart(p, q)
    /\ \A q \in Requests : RowStays(q)

(* A look that met no flush: none is under way, and what it has read is     *)
(* what it would read now.  An idle request has read nothing.               *)
Quiet(q) ==
    /\ stage[q] = "idle" => read[q] = <<>>
    /\ (stage[q] = "looking" /\ q \notin met) =>
           /\ Flushing = {}
           /\ \A m \in Months : month[q] = m =>
                  \A n \in 1..Len(read[q]) : read[q][n] = Part(m, n)

(* The snapshot of a month is gone or as good as gone while a flush that    *)
(* can change the month's figure is under way: dropped by it, or saved by   *)
(* a look that met it.                                                      *)
Covered(q) ==
    \A m \in MonthOf(row[receipt[q]]) \cup MonthOf(wanted[q]) :
        snapshot[m] = None \/ m \in chancy \/ m \in drops[q]

SInv ==
    /\ \A q \in Requests : Quiet(q)
    /\ \A q \in Requests : q \in Flushing => Covered(q)
    /\ StaleOnlyByOverlap

(***************************************************************************)
(* Operators                                                               *)
(***************************************************************************)

(* A part of a figure is a set the type invariant knows: month_total and    *)
(* month_under_review of repositories/receipt.py.                           *)
LEMMA PartType ==
    ASSUME TypeOK, NEW m \in Months, NEW n \in DOMAIN Parts
    PROVE  Part(m, n) \in PartValue
<1>1. \A r \in Receipts : row[r] \notin Missing => row[r] \in Row
  BY DEF TypeOK
<1>2. Counted(m) \subseteq Receipts /\ InReview(m) \subseteq Receipts
  BY DEF Counted, InReview
<1>3. \A r \in Counted(m) \cup InReview(m) : row[r].paid \in Amounts
  BY <1>1 DEF Counted, InReview, Row
<1>4. n \in 1..4
  BY DEF Parts
<1>5. CASE n = 1
  <2>1. Part(m, n) = {<<r, row[r].paid>> : r \in Counted(m)}
    BY <1>5 DEF Part, Parts
  <2> QED BY <2>1, <1>2, <1>3 DEF PartValue
<1>6. CASE n = 2
  <2>1. Part(m, n) = {<<r>> : r \in Counted(m)}
    BY <1>6 DEF Part, Parts
  <2>2. {<<r>> : r \in Counted(m)} \subseteq {<<r>> : r \in Receipts}
    BY <1>2
  <2>3. Part(m, n) \in SUBSET {<<r>> : r \in Receipts}
    BY <2>1, <2>2
  <2> QED BY <2>3 DEF PartValue
<1>7. CASE n = 3
  <2>1. Part(m, n) = {<<r>> : r \in InReview(m)}
    BY <1>7 DEF Part, Parts
  <2>2. {<<r>> : r \in InReview(m)} \subseteq {<<r>> : r \in Receipts}
    BY <1>2
  <2>3. Part(m, n) \in SUBSET {<<r>> : r \in Receipts}
    BY <2>1, <2>2
  <2> QED BY <2>3 DEF PartValue
<1>8. CASE n = 4
  <2>1. Part(m, n) = {<<r, row[r].paid>> : r \in InReview(m)}
    BY <1>8 DEF Part, Parts
  <2> QED BY <2>1, <1>2, <1>3 DEF PartValue
<1> QED BY <1>4, <1>5, <1>6, <1>7, <1>8

(* What a figure depends on: the receipts of its month, their status, their *)
(* totals and whether the trip repays them.                                 *)
LEMMA FigureFrame ==
    ASSUME NEW m \in Months,
           \A r \in Receipts :
               \/ row'[r] = row[r] /\ Repaid(r)' = Repaid(r)
               \/ /\ row[r] \notin Missing /\ row'[r] \notin Missing
                  /\ row'[r].month = row[r].month
                  /\ row'[r].parsed = row[r].parsed
                  /\ row'[r].paid = row[r].paid
                  /\ Repaid(r)' = Repaid(r)
               \/ m \notin MonthOf(row[r]) \cup MonthOf(row'[r])
    PROVE  /\ \A n \in DOMAIN Parts : Part(m, n)' = Part(m, n)
           /\ Figure(m)' = Figure(m)
<1>1. ASSUME NEW r \in Receipts
      PROVE  /\ (row'[r] \notin Missing /\ row'[r].month = m)
                    <=> (row[r] \notin Missing /\ row[r].month = m)
             /\ (row[r] \notin Missing /\ row[r].month = m) =>
                    /\ row'[r].parsed = row[r].parsed /\ row'[r].paid = row[r].paid
                    /\ Repaid(r)' = Repaid(r)
  BY <1>1 DEF MonthOf
<1>2. Counted(m)' = Counted(m) /\ InReview(m)' = InReview(m)
  BY <1>1 DEF Counted, InReview
<1>3. \A r \in Counted(m) \cup InReview(m) : row'[r].paid = row[r].paid
  BY <1>1 DEF Counted, InReview
<1>4. {<<r, row'[r].paid>> : r \in Counted(m)'} = {<<r, row[r].paid>> : r \in Counted(m)}
  BY <1>2, <1>3
<1>5. {<<r, row'[r].paid>> : r \in InReview(m)'} = {<<r, row[r].paid>> : r \in InReview(m)}
  BY <1>2, <1>3
<1>6. \A n \in DOMAIN Parts : Part(m, n)' = Part(m, n)
  BY <1>2, <1>4, <1>5 DEF Part
<1> QED BY <1>6 DEF Figure

(***************************************************************************)
(* Locks                                                                   *)
(***************************************************************************)

(* A request that keeps what it loaded and wants keeps its locks.           *)
LEMMA LocksFrame ==
    ASSUME NEW q \in Requests, loaded'[q] = loaded[q], wanted'[q] = wanted[q]
    PROVE  Locks(q)' = Locks(q)
BY DEF Locks, Columns

(* Two rows that differ do so in a column.                                  *)
LEMMA RowsDiffer ==
    ASSUME NEW x \in Row, NEW y \in Row, \A c \in Fields : x[c] = y[c]
    PROVE  x = y
<1>1. x.month = y.month /\ x.parsed = y.parsed /\ x.paid = y.paid /\ x.away = y.away
  BY DEF Fields
<1> QED BY <1>1 DEF Row

(* Every change locks something of its row, and a deletion all of it.       *)
LEMMA LocksTaken ==
    ASSUME TypeOK, NEW q \in Requests, InHand(q), stage[q] \in Changing
    PROVE  /\ Locks(q) # {}
           /\ Locks(q) \subseteq {"line", "receipt"}
           /\ wanted[q] = Deleted => Locks(q) = {"line", "receipt"}
<1>1. Columns(q) \subseteq Fields
  BY DEF Columns
<1>2. Columns(q) # {}
  <2>1. CASE loaded[q] \in Missing \/ wanted[q] \in Missing
    BY <2>1 DEF Columns, Fields
  <2>2. CASE loaded[q] \notin Missing /\ wanted[q] \notin Missing
    <3>1. loaded[q] \in Row /\ wanted[q] \in Row /\ loaded[q] # wanted[q]
      BY <2>2 DEF TypeOK, InHand
    <3>2. \E c \in Fields : wanted[q][c] # loaded[q][c]
      BY <3>1, RowsDiffer
    <3> QED BY <3>2, <2>2 DEF Columns
  <2> QED BY <2>1, <2>2
<1>3. wanted[q] = Deleted => Columns(q) = Fields
  BY DEF Columns, Missing
<1> QED BY <1>1, <1>2, <1>3 DEF Locks, Fields

(***************************************************************************)
(* The end of a request                                                    *)
(***************************************************************************)

(* Rest(q) forgets the request and touches no other.                        *)
LEMMA Rested ==
    ASSUME TypeOK, NEW q \in Requests, Rest(q)
    PROVE  /\ stage' \in [Requests -> {"idle", "looking", "loaded", "dropped", "written"}]
           /\ month' \in [Requests -> Months \cup {None}]
           /\ read' \in [Requests -> Seq(PartValue)]
           /\ receipt' \in [Requests -> Receipts \cup {None}]
           /\ loaded' \in [Requests -> Row \cup Missing]
           /\ wanted' \in [Requests -> Row \cup Missing]
           /\ drops' \in [Requests -> SUBSET Months]
           /\ met' = met \ {q}
           /\ stage'[q] = "idle" /\ read'[q] = <<>>
           /\ \A p \in Requests \ {q} :
                  /\ stage'[p] = stage[p] /\ month'[p] = month[p] /\ read'[p] = read[p]
                  /\ receipt'[p] = receipt[p] /\ loaded'[p] = loaded[p]
                  /\ wanted'[p] = wanted[p] /\ drops'[p] = drops[p]
<1>1. <<>> \in Seq(PartValue)
  OBVIOUS
<1>2. Unstored \in Row \cup Missing
  BY DEF Missing
<1> QED BY <1>1, <1>2 DEF TypeOK, Rest

(* A request that ends by Rest leaves nothing in hand, so the parts of the  *)
(* invariant that are about requests stay.                                  *)
LEMMA RestKeeps ==
    ASSUME IInv, NEW q \in Requests, Rest(q),
           \A p \in Requests \ {q} : RowStays(p)'
    PROVE  /\ \A p \in Requests : InHand(p)'
           /\ \A p, r \in Requests : Apart(p, r)'
           /\ \A p \in Requests : RowStays(p)'
           /\ \A p \in Requests : Len(read'[p]) <= Len(Parts)
<1>0. TypeOK
  BY DEF IInv
<1>1. ASSUME NEW p \in Requests PROVE InHand(p)'
  <2>1. CASE p = q
    <3>1. stage'[p] = "idle"
      BY <2>1, <1>0, Rested
    <3> QED BY <3>1 DEF InHand, Changing
  <2>2. CASE p # q
    <3>1. /\ stage'[p] = stage[p] /\ month'[p] = month[p] /\ receipt'[p] = receipt[p]
          /\ loaded'[p] = loaded[p] /\ wanted'[p] = wanted[p]
      BY <2>2, <1>0, Rested
    <3> QED BY <3>1 DEF IInv, InHand
  <2> QED BY <2>1, <2>2
<1>2. ASSUME NEW p \in Requests, NEW r \in Requests PROVE Apart(p, r)'
  <2>1. CASE p # q /\ r # q
    <3>1. /\ loaded'[p] = loaded[p] /\ wanted'[p] = wanted[p]
          /\ loaded'[r] = loaded[r] /\ wanted'[r] = wanted[r]
          /\ stage'[p] = stage[p] /\ stage'[r] = stage[r]
          /\ receipt'[p] = receipt[p] /\ receipt'[r] = receipt[r]
      BY <2>1, <1>0, Rested
    <3>2. Locks(p)' = Locks(p) /\ Locks(r)' = Locks(r)
      BY <3>1, LocksFrame
    <3> QED BY <3>1, <3>2 DEF IInv, Apart
  <2> QED BY <2>1, <1>0, Rested DEF Apart
<1>3. \A p \in Requests : RowStays(p)'
  BY <1>0, Rested DEF RowStays
<1>4. ASSUME NEW p \in Requests PROVE Len(read'[p]) <= Len(Parts)
  <2>1. CASE p = q
    <3>1. read'[p] = <<>>
      BY <2>1, <1>0, Rested
    <3> QED BY <3>1 DEF Parts
  <2>2. CASE p # q
    <3>1. read'[p] = read[p]
      BY <2>2, <1>0, Rested
    <3> QED BY <3>1, <1>0 DEF TypeOK
  <2> QED BY <2>1, <2>2
<1> QED BY <1>1, <1>2, <1>3, <1>4

(***************************************************************************)
(* What a commit writes                                                    *)
(***************************************************************************)

(* The row a commit leaves is a row or a deleted one; its month is the old  *)
(* row's or the one the change wants.  No other row changes.                *)
LEMMA Committed ==
    ASSUME IInv, NEW q \in Requests, Commit(q)
    PROVE  /\ receipt[q] \in Receipts
           /\ row' \in [Receipts -> Row \cup Missing]
           /\ row'[receipt[q]] \in Row \cup {Deleted}
           /\ MonthOf(row'[receipt[q]]) \subseteq MonthOf(row[receipt[q]]) \cup MonthOf(wanted[q])
           /\ row'[receipt[q]] = Deleted => wanted[q] = Deleted
           /\ \A r \in Receipts \ {receipt[q]} : row'[r] = row[r]
<1> DEFINE r0 == receipt[q]
           x == IF wanted[q] = Deleted \/ row[r0] = Unstored THEN wanted[q]
                ELSE [c \in Fields |-> IF c \in Columns(q) THEN wanted[q][c] ELSE row[r0][c]]
<1>1. stage[q] = "written" /\ r0 \in Receipts /\ wanted[q] \in Row \cup {Deleted}
  BY DEF Commit, IInv, InHand, Changing
<1>2. row' = [row EXCEPT ![r0] = x] /\ row \in [Receipts -> Row \cup Missing]
  BY DEF Commit, IInv, TypeOK
<1>3. CASE wanted[q] = Deleted \/ row[r0] = Unstored
  <2>1. x = wanted[q]
    BY <1>3
  <2> QED BY <2>1, <1>1, <1>2 DEF Missing
<1>4. CASE wanted[q] # Deleted /\ row[r0] # Unstored
  <2>1. row[r0] # Deleted
    BY <1>1, <1>4 DEF IInv, RowStays
  <2>2. row[r0] \in Row /\ wanted[q] \in Row
    BY <2>1, <1>1, <1>2, <1>4 DEF Missing
  <2> DEFINE F(c) == IF c \in Columns(q) THEN wanted[q][c] ELSE row[r0][c]
  <2>3. /\ F("month") \in {wanted[q].month, row[r0].month}
        /\ F("parsed") \in BOOLEAN /\ F("paid") \in Amounts /\ F("away") \in BOOLEAN
    BY <2>2 DEF Row
  <2>4. x = [c \in Fields |-> F(c)]
    BY <1>4
  <2> HIDE DEF F
  <2>5. x = [month |-> F("month"), parsed |-> F("parsed"), paid |-> F("paid"), away |-> F("away")]
    BY <2>4 DEF Fields
  <2>6. wanted[q].month \in Months /\ row[r0].month \in Months
    BY <2>2 DEF Row
  <2>7. x \in Row /\ x.month \in {wanted[q].month, row[r0].month}
    <3> HIDE DEF x
    <3> QED BY <2>3, <2>5, <2>6 DEF Row
  <2> HIDE DEF x
  <2>8. x \notin Missing /\ wanted[q] \notin Missing /\ row[r0] \notin Missing
    BY <2>7, <2>2, RowAssumption
  <2>9. row'[r0] = x
    BY <1>1, <1>2
  <2> QED BY <2>7, <2>8, <2>9, <1>1, <1>2 DEF MonthOf, Missing
<1> QED BY <1>3, <1>4

(***************************************************************************)
(* Type correctness, with what the locks keep apart                        *)
(***************************************************************************)

(* A step that leaves every request as it is keeps what is said of them.    *)
LEMMA RequestsFrame ==
    ASSUME IInv, UNCHANGED <<stage, look, change>>,
           \A r \in Receipts : row'[r] = Deleted => row[r] = Deleted
    PROVE  /\ \A q \in Requests : InHand(q)' /\ RowStays(q)'
           /\ \A p, q \in Requests : Apart(p, q)'
<1>1. ASSUME NEW q \in Requests PROVE InHand(q)' /\ RowStays(q)'
  <2>1. stage[q] = "written" => receipt[q] \in Receipts
    BY DEF IInv, InHand, Changing
  <2> QED BY <2>1 DEF IInv, InHand, RowStays, look, change
<1>2. ASSUME NEW p \in Requests, NEW q \in Requests PROVE Apart(p, q)'
  <2>1. Locks(p)' = Locks(p) /\ Locks(q)' = Locks(q)
    BY LocksFrame DEF change
  <2> QED BY <2>1 DEF IInv, Apart, change
<1> QED BY <1>1, <1>2

LEMMA InitIInv == Init => IInv
<1> SUFFICES ASSUME Init PROVE IInv
  OBVIOUS
<1>1. TypeOK
  BY MonthsAssumption DEF Init, TypeOK, Missing, Parts
<1> QED BY <1>1 DEF Init, IInv, InHand, Apart, RowStays, Changing

LEMMA BeginLookIInv ==
    ASSUME IInv, NEW q \in Requests, NEW m \in Months, BeginLook(q, m)
    PROVE  IInv'
<1>1. TypeOK'
  BY DEF BeginLook, IInv, TypeOK, data, change
<1>2. \A p \in Requests : InHand(p)' /\ RowStays(p)'
  BY DEF BeginLook, IInv, TypeOK, InHand, RowStays, Changing, data, change
<1>3. ASSUME NEW p \in Requests, NEW r \in Requests PROVE Apart(p, r)'
  <2>1. Locks(p)' = Locks(p) /\ Locks(r)' = Locks(r)
    BY LocksFrame DEF BeginLook, change
  <2> QED BY <2>1 DEF BeginLook, IInv, TypeOK, Apart, change
<1> QED BY <1>1, <1>2, <1>3 DEF IInv

LEMMA ReadPartIInv ==
    ASSUME IInv, NEW q \in Requests, ReadPart(q)
    PROVE  IInv'
<1>1. TypeOK /\ stage[q] = "looking" /\ month[q] \in Months
  BY DEF ReadPart, IInv, InHand
<1>2. read[q] \in Seq(PartValue) /\ Len(read[q]) \in Nat /\ Len(read[q]) < 4
  BY <1>1 DEF ReadPart, TypeOK, Parts
<1>3. Len(read[q]) + 1 \in DOMAIN Parts
  BY <1>2 DEF Parts
<1>4. Part(month[q], Len(read[q]) + 1) \in PartValue
  BY <1>1, <1>3, PartType
<1>5. /\ read' \in [Requests -> Seq(PartValue)]
      /\ \A p \in Requests : Len(read'[p]) <= Len(Parts)
  <2> DEFINE v == Part(month[q], Len(read[q]) + 1)
  <2>1. read' = [read EXCEPT ![q] = Append(read[q], v)]
    BY DEF ReadPart
  <2> HIDE DEF v
  <2>2. Append(read[q], v) \in Seq(PartValue) /\ Len(Append(read[q], v)) = Len(read[q]) + 1
    BY <1>2, <1>4 DEF v
  <2> QED BY <2>1, <2>2, <1>1, <1>2 DEF TypeOK, Parts
<1>6. TypeOK'
  BY <1>1, <1>5 DEF ReadPart, TypeOK, data, change, history
<1>7. \A p \in Requests : InHand(p)' /\ RowStays(p)'
  BY DEF ReadPart, IInv, InHand, RowStays, data, change
<1>8. ASSUME NEW p \in Requests, NEW r \in Requests PROVE Apart(p, r)'
  <2>1. Locks(p)' = Locks(p) /\ Locks(r)' = Locks(r)
    BY LocksFrame DEF ReadPart, change
  <2> QED BY <2>1 DEF ReadPart, IInv, Apart, change
<1> QED BY <1>6, <1>7, <1>8 DEF IInv

LEMMA SaveIInv ==
    ASSUME IInv, NEW q \in Requests, Save(q)
    PROVE  IInv'
<1>1. TypeOK /\ month[q] \in Months /\ Rest(q) /\ row' = row
  BY DEF Save, IInv, InHand
<1>2. read[q] \in [DOMAIN Parts -> PartValue]
  <2>1. Len(Parts) = 4 /\ DOMAIN Parts = 1..4
    BY DEF Parts
  <2>2. read[q] \in Seq(PartValue) /\ Len(read[q]) = 4
    BY <1>1, <2>1 DEF Save, TypeOK
  <2>3. read[q] \in [1..Len(read[q]) -> PartValue]
    <3>1. ASSUME NEW s \in Seq(PartValue)
          PROVE  s \in [1..Len(s) -> PartValue]
      BY <3>1
    <3> QED BY <2>2, <3>1
  <2> QED BY <2>1, <2>2, <2>3
<1>3. snapshot' \in [Months -> [DOMAIN Parts -> PartValue] \cup {None}] /\ chancy' \subseteq Months
  BY <1>1, <1>2 DEF Save, TypeOK
<1>4. \A p \in Requests \ {q} : RowStays(p)'
  <2>1. \A p \in Requests \ {q} :
            stage'[p] = stage[p] /\ receipt'[p] = receipt[p] /\ wanted'[p] = wanted[p]
    BY <1>1, Rested
  <2>2. \A p \in Requests : RowStays(p)
    BY DEF IInv
  <2> QED BY <1>1, <2>1, <2>2 DEF RowStays
<1>5. /\ \A p \in Requests : InHand(p)' /\ RowStays(p)' /\ Len(read'[p]) <= Len(Parts)
      /\ \A p, r \in Requests : Apart(p, r)'
  BY <1>1, <1>4, RestKeeps
<1>6. TypeOK'
  BY <1>1, <1>3, <1>5, Rested DEF Save, TypeOK
<1> QED BY <1>5, <1>6 DEF IInv

LEMMA BeginChangeIInv ==
    ASSUME IInv, NEW q \in Requests, NEW r \in Receipts, BeginChange(q, r)
    PROVE  IInv'
<1>1. TypeOK /\ row[r] \in Row \cup Missing /\ row[r] # Deleted
  BY DEF BeginChange, IInv, TypeOK
<1>2. PICK x \in Row \cup {Deleted} : x # row[r] /\ wanted' = [wanted EXCEPT ![q] = x]
  BY DEF BeginChange
<1>3. /\ stage' = [stage EXCEPT ![q] = "loaded"]
      /\ receipt' = [receipt EXCEPT ![q] = r]
      /\ loaded' = [loaded EXCEPT ![q] = row[r]]
      /\ UNCHANGED <<data, look, drops, history>>
  BY DEF BeginChange
<1>4. TypeOK'
  BY <1>1, <1>2, <1>3 DEF TypeOK, Missing, data, look, history
<1>5. ASSUME NEW p \in Requests PROVE InHand(p)' /\ RowStays(p)'
  <2>1. CASE p = q
    <3>1. stage'[q] = "loaded" /\ receipt'[q] = r /\ loaded'[q] = row[r] /\ wanted'[q] = x
      BY <1>1, <1>2, <1>3 DEF TypeOK
    <3> QED BY <3>1, <2>1, <1>1, <1>2 DEF InHand, RowStays
  <2>2. CASE p # q
    <3>1. /\ stage'[p] = stage[p] /\ receipt'[p] = receipt[p] /\ loaded'[p] = loaded[p]
          /\ wanted'[p] = wanted[p] /\ month'[p] = month[p] /\ row' = row
      BY <2>2, <1>1, <1>2, <1>3 DEF TypeOK, look, data
    <3> QED BY <3>1 DEF IInv, InHand, RowStays
  <2> QED BY <2>1, <2>2
<1>6. ASSUME NEW p \in Requests, NEW u \in Requests PROVE Apart(p, u)'
  <2>1. CASE p = q \/ u = q
    <3>1. stage'[q] = "loaded"
      BY <1>1, <1>3 DEF TypeOK
    <3> QED BY <3>1, <2>1 DEF Apart
  <2>2. CASE p # q /\ u # q
    <3>1. /\ loaded'[p] = loaded[p] /\ wanted'[p] = wanted[p]
          /\ loaded'[u] = loaded[u] /\ wanted'[u] = wanted[u]
          /\ stage'[p] = stage[p] /\ stage'[u] = stage[u]
          /\ receipt'[p] = receipt[p] /\ receipt'[u] = receipt[u]
      BY <2>2, <1>1, <1>2, <1>3 DEF TypeOK
    <3>2. Locks(p)' = Locks(p) /\ Locks(u)' = Locks(u)
      BY <3>1, LocksFrame
    <3> QED BY <3>1, <3>2 DEF IInv, Apart
  <2> QED BY <2>1, <2>2
<1> QED BY <1>4, <1>5, <1>6 DEF IInv

LEMMA DropIInv ==
    ASSUME IInv, NEW q \in Requests, Drop(q)
    PROVE  IInv'
<1>1. TypeOK /\ stage[q] = "loaded"
  BY DEF Drop, IInv
<1>2. loaded[q] \in Row \cup Missing /\ wanted[q] \in Row \cup Missing /\ receipt[q] \in Receipts
  BY <1>1 DEF IInv, TypeOK, InHand, Changing
<1>3. row[receipt[q]] \in Row \cup Missing
  BY <1>1, <1>2 DEF TypeOK
<1>4. \A x \in Row \cup Missing : MonthOf(x) \subseteq Months
  BY DEF MonthOf, Row
<1>5. Touched(q) \subseteq Months
  BY <1>2, <1>3, <1>4 DEF Touched
<1>6. TypeOK'
  BY <1>1, <1>5 DEF Drop, TypeOK, data, look
<1>7. \A p \in Requests : InHand(p)' /\ RowStays(p)'
  BY <1>1 DEF Drop, IInv, TypeOK, InHand, RowStays, Changing, data, look
<1>8. ASSUME NEW p \in Requests, NEW r \in Requests PROVE Apart(p, r)'
  <2>1. Locks(p)' = Locks(p) /\ Locks(r)' = Locks(r)
    BY LocksFrame DEF Drop
  <2>2. stage'[p] = "written" => stage[p] = "written"
    BY <1>1 DEF Drop, TypeOK
  <2>3. stage'[r] = "written" => stage[r] = "written"
    BY <1>1 DEF Drop, TypeOK
  <2> QED BY <2>1, <2>2, <2>3 DEF Drop, IInv, Apart
<1> QED BY <1>6, <1>7, <1>8 DEF IInv

LEMMA WriteIInv ==
    ASSUME IInv, NEW q \in Requests, Write(q)
    PROVE  IInv'
<1>1. TypeOK /\ stage[q] = "dropped" /\ stage' = [stage EXCEPT ![q] = "written"]
  BY DEF Write, IInv
<1>2. UNCHANGED <<row, trip, snapshot, today, month, read, receipt, loaded, wanted, drops, met, chancy, passed>>
  BY DEF Write, data, look, change, history
<1>3. TypeOK'
  BY <1>1, <1>2 DEF TypeOK
<1>4. \A p \in Requests : InHand(p)' /\ RowStays(p)'
  BY <1>1, <1>2 DEF Write, IInv, TypeOK, InHand, RowStays, Changing
<1>5. ASSUME NEW p \in Requests, NEW r \in Requests PROVE Apart(p, r)'
  <2>1. Locks(p)' = Locks(p) /\ Locks(r)' = Locks(r)
    BY <1>2, LocksFrame
  <2>2. \A u \in Requests : u # q => stage'[u] = stage[u]
    BY <1>1 DEF TypeOK
  <2>3. \A u \in Requests \ {q} :
            (stage[u] = "written" /\ receipt[u] = receipt[q]) => Locks(u) \cap Locks(q) = {}
    BY DEF Write, Locked
  <2>4. CASE p # q /\ r # q
    BY <2>1, <2>2, <2>4, <1>2 DEF IInv, Apart
  <2>5. CASE p = q /\ r # q
    BY <2>1, <2>2, <2>3, <2>5, <1>2 DEF Apart
  <2>6. CASE p # q /\ r = q
    BY <2>1, <2>2, <2>3, <2>6, <1>2 DEF Apart
  <2>7. CASE p = q /\ r = q
    BY <2>7 DEF Apart
  <2> QED BY <2>4, <2>5, <2>6, <2>7
<1> QED BY <1>3, <1>4, <1>5 DEF IInv

LEMMA CommitIInv ==
    ASSUME IInv, NEW q \in Requests, Commit(q)
    PROVE  IInv'
<1>1. TypeOK /\ stage[q] = "written" /\ Rest(q) /\ UNCHANGED <<trip, today>>
  BY DEF Commit, IInv
<1>2. /\ snapshot' \in [Months -> [DOMAIN Parts -> PartValue] \cup {None}]
      /\ chancy' \subseteq Months /\ passed' \subseteq Months
  BY <1>1 DEF Commit, TypeOK
<1>3. ASSUME NEW p \in Requests \ {q} PROVE RowStays(p)'
  <2> SUFFICES ASSUME stage'[p] = "written", wanted'[p] # Deleted
               PROVE  row'[receipt'[p]] # Deleted
    BY DEF RowStays
  <2>1. stage[p] = "written" /\ wanted[p] # Deleted /\ receipt'[p] = receipt[p]
    BY <1>1, Rested
  <2>2. row[receipt[p]] # Deleted /\ receipt[p] \in Receipts
    BY <2>1 DEF IInv, RowStays, InHand, Changing
  <2>3. CASE receipt[p] # receipt[q]
    BY <2>1, <2>2, <2>3, Committed
  <2>4. CASE receipt[p] = receipt[q]
    <3>1. Locks(p) \cap Locks(q) = {}
      BY <2>1, <2>4, <1>1 DEF IInv, Apart
    <3>2. Locks(p) # {} /\ Locks(p) \subseteq {"line", "receipt"}
      BY <2>1, <1>1, LocksTaken DEF IInv, Changing
    <3>3. wanted[q] = Deleted => Locks(q) = {"line", "receipt"}
      BY <1>1, LocksTaken DEF IInv, Changing
    <3>4. wanted[q] # Deleted
      BY <3>1, <3>2, <3>3
    <3> QED BY <3>4, <2>1, <2>4, Committed
  <2> QED BY <2>3, <2>4
<1>4. /\ \A p \in Requests : InHand(p)' /\ RowStays(p)' /\ Len(read'[p]) <= Len(Parts)
      /\ \A p, r \in Requests : Apart(p, r)'
  BY <1>1, <1>3, RestKeeps
<1>5. row' \in [Receipts -> Row \cup Missing]
  BY Committed
<1>6. TypeOK'
  BY <1>1, <1>2, <1>4, <1>5, Rested DEF TypeOK
<1> QED BY <1>4, <1>6 DEF IInv

LEMMA AbortIInv ==
    ASSUME IInv, NEW q \in Requests, Abort(q)
    PROVE  IInv'
<1>1. TypeOK /\ Rest(q) /\ UNCHANGED <<row, trip, snapshot, today, chancy, passed>>
  BY DEF Abort, IInv, data
<1>2. \A p \in Requests \ {q} : RowStays(p)'
  <2>1. \A p \in Requests \ {q} :
            stage'[p] = stage[p] /\ receipt'[p] = receipt[p] /\ wanted'[p] = wanted[p]
    BY <1>1, Rested
  <2>2. \A p \in Requests : RowStays(p)
    BY DEF IInv
  <2> QED BY <1>1, <2>1, <2>2 DEF RowStays
<1>3. /\ \A p \in Requests : InHand(p)' /\ RowStays(p)' /\ Len(read'[p]) <= Len(Parts)
      /\ \A p, r \in Requests : Apart(p, r)'
  BY <1>1, <1>2, RestKeeps
<1>4. TypeOK'
  BY <1>1, <1>3, Rested DEF TypeOK
<1> QED BY <1>3, <1>4 DEF IInv

(* The months of the rows whose repayment a step of the trip changes.       *)
LEMMA TurnedMonths ==
    ASSUME TypeOK, (\E kind \in TripKinds : SaveTrip(kind)) \/ DeleteTrip
    PROVE  Turned \subseteq Months
BY DEF Turned, TypeOK, Row

(* The trip and the calendar leave the requests alone; the release of a     *)
(* trip's receipts deletes none.                                            *)
LEMMA SurroundingsIInv ==
    ASSUME IInv, (\E kind \in TripKinds : SaveTrip(kind)) \/ DeleteTrip \/ MonthEnds
    PROVE  IInv'
<1>1. TypeOK
  BY DEF IInv
<1>2. CASE DeleteTrip
  <2>1. ASSUME NEW r \in Receipts
        PROVE  row'[r] \in Row \cup Missing /\ (row'[r] = Deleted => row[r] = Deleted)
    <3>1. CASE row[r] \in Missing
      BY <3>1, <1>2 DEF DeleteTrip
    <3>2. CASE row[r] \notin Missing
      <4>1. row[r] \in Row /\ row'[r] = [row[r] EXCEPT !.away = FALSE]
        BY <3>2, <1>1, <1>2 DEF DeleteTrip, TypeOK
      <4>2. row'[r] \in Row
        BY <4>1 DEF Row
      <4> QED BY <4>2, RowAssumption DEF Missing
    <3> QED BY <3>1, <3>2
  <2>2. row' \in [Receipts -> Row \cup Missing]
    BY <2>1, <1>2 DEF DeleteTrip
  <2>3. TypeOK'
    BY <2>2, <1>1, <1>2, TurnedMonths DEF DeleteTrip, Passed, TypeOK, look, change
  <2> QED BY <2>1, <2>3, <1>2, RequestsFrame DEF DeleteTrip, IInv
<1>3. CASE \E kind \in TripKinds : SaveTrip(kind)
  <2>1. TypeOK'
    BY <1>1, <1>3, TurnedMonths DEF SaveTrip, Passed, TypeOK, look, change
  <2> QED BY <2>1, <1>3, RequestsFrame DEF SaveTrip, IInv
<1>4. CASE MonthEnds
  <2>1. TypeOK'
    BY <1>1, <1>4 DEF MonthEnds, TypeOK, look, change, history
  <2> QED BY <2>1, <1>4, RequestsFrame DEF MonthEnds, IInv
<1> QED BY <1>2, <1>3, <1>4

LEMMA NextIInv == IInv /\ [Next]_vars => IInv'
<1> SUFFICES ASSUME IInv, [Next]_vars PROVE IInv'
  OBVIOUS
<1>1. CASE UNCHANGED vars
  <2>1. TypeOK'
    BY <1>1 DEF IInv, TypeOK, vars, data, look, change, history
  <2> QED BY <2>1, <1>1, RequestsFrame DEF IInv, vars, data
<1>2. CASE Next
  BY <1>2, BeginLookIInv, ReadPartIInv, SaveIInv, BeginChangeIInv, DropIInv, WriteIInv,
     CommitIInv, AbortIInv, SurroundingsIInv DEF Next
<1> QED BY <1>1, <1>2

(* The tables, the requests in flight and what each holds have their types: *)
(* no commit writes columns into a row that is not there, because the row   *)
(* locks keep a deletion and an edit of one receipt apart.                  *)
THEOREM TypeCorrect == Spec => []TypeOK
<1>1. IInv => TypeOK
  BY DEF IInv
<1> QED BY InitIInv, NextIInv, <1>1, PTL DEF Spec

(***************************************************************************)
(* A snapshot is stale only by an overlap                                  *)
(***************************************************************************)

(* A step that keeps the receipts and the trip keeps every figure.          *)
LEMMA Steady ==
    ASSUME UNCHANGED <<row, trip>>, NEW m \in Months
    PROVE  Figure(m)' = Figure(m) /\ \A n \in DOMAIN Parts : Part(m, n)' = Part(m, n)
BY FigureFrame DEF Repaid

(* Snapshots that stay where figures stay are as right as they were.        *)
LEMMA StaleFrame ==
    ASSUME StaleOnlyByOverlap, UNCHANGED <<snapshot, chancy, passed>>,
           \A m \in Months : Figure(m)' = Figure(m)
    PROVE  StaleOnlyByOverlap'
BY DEF StaleOnlyByOverlap

(* A look that goes on as it was stays quiet while the parts stay.          *)
LEMMA QuietFrame ==
    ASSUME TypeOK, NEW p \in Requests, Quiet(p),
           stage'[p] = stage[p], read'[p] = read[p], month'[p] = month[p],
           p \in met => p \in met', Flushing = {} => Flushing' = {},
           \A m \in Months, n \in DOMAIN Parts : Part(m, n)' = Part(m, n)
    PROVE  Quiet(p)'
<1>1. stage'[p] = "idle" => read'[p] = <<>>
  BY DEF Quiet
<1>2. ASSUME stage'[p] = "looking", p \notin met' PROVE Flushing' = {}
  BY <1>2 DEF Quiet
<1>3. ASSUME stage'[p] = "looking", p \notin met', NEW m \in Months, month'[p] = m,
             NEW n \in 1..Len(read'[p])
      PROVE  read'[p][n] = Part(m, n)'
  <2>1. read[p][n] = Part(m, n)
    BY <1>3 DEF Quiet
  <2>2. n \in DOMAIN Parts
    BY <1>3 DEF TypeOK, Parts
  <2> QED BY <2>1, <2>2
<1> QED BY <1>1, <1>2, <1>3 DEF Quiet

LEMMA InitSInv == Init => SInv
BY DEF Init, SInv, Quiet, Flushing, StaleOnlyByOverlap

LEMMA BeginLookSInv ==
    ASSUME IInv, IInv', SInv, NEW q \in Requests, NEW m \in Months, BeginLook(q, m)
    PROVE  SInv'
<1>1. TypeOK /\ TypeOK' /\ stage[q] = "idle" /\ stage' = [stage EXCEPT ![q] = "looking"]
  BY DEF BeginLook, IInv
<1>2. UNCHANGED <<row, trip, snapshot, read, receipt, wanted, drops, chancy, passed>>
  BY DEF BeginLook, data, change
<1>3. Flushing' = Flushing
  BY <1>1 DEF Flushing, TypeOK
<1>4. ASSUME NEW p \in Requests PROVE Quiet(p)'
  <2>1. CASE p = q
    <3>1. read'[q] = <<>> /\ stage'[q] = "looking" /\ (q \in met' \/ Flushing = {})
      BY <1>1, <1>2 DEF SInv, Quiet, BeginLook, TypeOK
    <3> QED BY <3>1, <2>1, <1>3 DEF Quiet
  <2>2. CASE p # q
    <3>1. /\ stage'[p] = stage[p] /\ read'[p] = read[p] /\ month'[p] = month[p]
          /\ p \in met => p \in met'
      BY <2>2, <1>1, <1>2 DEF BeginLook, TypeOK
    <3>2. \A u \in Months, n \in DOMAIN Parts : Part(u, n)' = Part(u, n)
      BY <1>1, <1>2, Steady
    <3> QED BY <3>1, <3>2, <1>1, <1>3, QuietFrame DEF SInv
  <2> QED BY <2>1, <2>2
<1>5. \A p \in Requests : p \in Flushing' => Covered(p)'
  BY <1>2, <1>3 DEF SInv, Covered
<1>6. StaleOnlyByOverlap'
  BY <1>1, <1>2, Steady, StaleFrame DEF SInv
<1> QED BY <1>4, <1>5, <1>6 DEF SInv

LEMMA ReadPartSInv ==
    ASSUME IInv, IInv', SInv, NEW q \in Requests, ReadPart(q)
    PROVE  SInv'
<1>1. /\ TypeOK /\ TypeOK' /\ stage[q] = "looking" /\ month[q] \in Months
      /\ read' = [read EXCEPT ![q] = Append(@, Part(month[q], Len(@) + 1))]
  BY DEF ReadPart, IInv, InHand
<1>2. UNCHANGED <<row, trip, snapshot, stage, month, receipt, wanted, drops, met, chancy, passed>>
  BY DEF ReadPart, data, change, history
<1>3. Flushing' = Flushing
  BY <1>2 DEF Flushing
<1>4. \A m \in Months, n \in DOMAIN Parts : Part(m, n)' = Part(m, n)
  BY <1>1, <1>2, Steady
<1>5. ASSUME NEW p \in Requests PROVE Quiet(p)'
  <2>1. CASE p = q
    <3> SUFFICES ASSUME q \notin met, NEW m \in Months, month[q] = m
                 PROVE  \A n \in 1..Len(read'[q]) : read'[q][n] = Part(m, n)'
      BY <2>1, <1>1, <1>2, <1>3 DEF SInv, Quiet
    <3> DEFINE s == read[q]
    <3>1. s \in Seq(PartValue) /\ Len(s) \in Nat /\ Len(s) < 4
      BY <1>1 DEF ReadPart, TypeOK, Parts
    <3>2. \A n \in 1..Len(s) : s[n] = Part(m, n)
      BY <1>1 DEF SInv, Quiet
    <3>3. read'[q] = Append(s, Part(m, Len(s) + 1))
      BY <1>1 DEF TypeOK
    <3> DEFINE v == Part(m, Len(s) + 1)
    <3>4. v = Part(m, Len(s) + 1)
      OBVIOUS
    <3> HIDE DEF s, v
    <3>5. /\ Len(Append(s, v)) = Len(s) + 1
          /\ \A n \in 1..Len(s) : Append(s, v)[n] = s[n]
          /\ Append(s, v)[Len(s) + 1] = v
      BY <3>1
    <3>6. ASSUME NEW n \in 1..Len(read'[q]) PROVE read'[q][n] = Part(m, n)
      BY <3>1, <3>2, <3>3, <3>4, <3>5
    <3>7. 1..Len(read'[q]) \subseteq DOMAIN Parts
      BY <3>1, <3>3, <3>4, <3>5 DEF Parts
    <3> QED BY <3>6, <3>7, <1>4
  <2>2. CASE p # q
    <3>1. read'[p] = read[p]
      BY <2>2, <1>1 DEF TypeOK
    <3> QED BY <3>1, <1>1, <1>2, <1>3, <1>4, QuietFrame DEF SInv
  <2> QED BY <2>1, <2>2
<1>6. \A p \in Requests : p \in Flushing' => Covered(p)'
  BY <1>2, <1>3 DEF SInv, Covered
<1>7. StaleOnlyByOverlap'
  BY <1>1, <1>2, Steady, StaleFrame DEF SInv
<1> QED BY <1>5, <1>6, <1>7 DEF SInv

(* The end of a request that is not a flush lets no flush begin or end; the *)
(* end of any lets none begin.                                              *)
LEMMA RestFlushing ==
    ASSUME TypeOK, NEW q \in Requests, Rest(q)
    PROVE  Flushing' = Flushing \ {q}
BY Rested DEF Flushing

(* Looks go on as they were when another request ends.                      *)
LEMMA RestQuiet ==
    ASSUME TypeOK, SInv, NEW q \in Requests, Rest(q),
           \A m \in Months, n \in DOMAIN Parts : Part(m, n)' = Part(m, n)
    PROVE  \A p \in Requests : Quiet(p)'
<1>1. ASSUME NEW p \in Requests PROVE Quiet(p)'
  <2>1. CASE p = q
    BY <2>1, Rested DEF Quiet
  <2>2. CASE p # q
    <3>1. /\ stage'[p] = stage[p] /\ read'[p] = read[p] /\ month'[p] = month[p]
          /\ p \in met => p \in met'
      BY <2>2, Rested
    <3> QED BY <3>1, QuietFrame, RestFlushing DEF SInv
  <2> QED BY <2>1, <2>2
<1> QED BY <1>1

LEMMA SaveSInv ==
    ASSUME IInv, IInv', SInv, NEW q \in Requests, Save(q)
    PROVE  SInv'
<1>1. /\ TypeOK /\ TypeOK' /\ stage[q] = "looking" /\ month[q] \in Months
      /\ Len(read[q]) = 4 /\ Rest(q) /\ UNCHANGED <<row, trip, passed>>
  BY DEF Save, IInv, InHand, Parts
<1>2. \A m \in Months, n \in DOMAIN Parts : Part(m, n)' = Part(m, n)
  BY <1>1, Steady
<1>3. \A m \in Months : Figure(m)' = Figure(m)
  BY <1>1, Steady
<1>4. \A p \in Requests : Quiet(p)'
  BY <1>1, <1>2, RestQuiet
<1>5. \/ UNCHANGED <<snapshot, chancy>>
      \/ /\ snapshot' = [snapshot EXCEPT ![month[q]] = read[q]]
         /\ chancy' = IF q \in met THEN chancy \cup {month[q]} ELSE chancy
  BY DEF Save
<1>6. CASE UNCHANGED <<snapshot, chancy>>
  <2>1. ASSUME NEW p \in Requests, p \in Flushing' PROVE Covered(p)'
    <3>1. /\ p # q /\ p \in Flushing
          /\ receipt'[p] = receipt[p] /\ wanted'[p] = wanted[p] /\ drops'[p] = drops[p]
      BY <2>1, <1>1, RestFlushing, Rested
    <3> QED BY <3>1, <1>1, <1>6 DEF SInv, Covered
  <2>2. StaleOnlyByOverlap'
    BY <1>1, <1>3, <1>6, StaleFrame DEF SInv
  <2> QED BY <1>4, <2>1, <2>2 DEF SInv
<1>7. CASE /\ q \in met
           /\ snapshot' = [snapshot EXCEPT ![month[q]] = read[q]]
           /\ chancy' = chancy \cup {month[q]}
  <2>1. \A m \in Months : m # month[q] => snapshot'[m] = snapshot[m]
    BY <1>7, <1>1 DEF TypeOK
  <2>2. ASSUME NEW p \in Requests, p \in Flushing' PROVE Covered(p)'
    <3>1. /\ p # q /\ p \in Flushing
          /\ receipt'[p] = receipt[p] /\ wanted'[p] = wanted[p] /\ drops'[p] = drops[p]
      BY <2>2, <1>1, RestFlushing, Rested
    <3>2. MonthOf(row[receipt[p]]) \cup MonthOf(wanted[p]) \subseteq Months
      <4>1. receipt[p] \in Receipts /\ wanted[p] \in Row \cup Missing
        BY <3>1 DEF IInv, TypeOK, InHand, Changing, Flushing
      <4>2. row[receipt[p]] \in Row \cup Missing
        BY <4>1, <1>1 DEF TypeOK
      <4> QED BY <4>1, <4>2 DEF MonthOf, Row
    <3> QED BY <3>1, <3>2, <2>1, <1>1, <1>7 DEF SInv, Covered
  <2>3. StaleOnlyByOverlap'
    BY <2>1, <1>1, <1>3, <1>7 DEF SInv, StaleOnlyByOverlap
  <2> QED BY <1>4, <2>2, <2>3 DEF SInv
<1>8. CASE /\ q \notin met
           /\ snapshot' = [snapshot EXCEPT ![month[q]] = read[q]]
           /\ chancy' = chancy
  <2>1. Flushing = {}
    BY <1>1, <1>8 DEF SInv, Quiet
  <2>2. Flushing' = {}
    BY <2>1, <1>1, RestFlushing
  <2>3. PICK m \in Months : m = month[q]
    BY <1>1
  <2>4. \A n \in 1..4 : read[q][n] = Part(m, n)
    BY <2>3, <1>1, <1>8 DEF SInv, Quiet
  <2>5. read[q] = Figure(m)
    <3>1. read[q] \in Seq(PartValue)
      BY <1>1 DEF TypeOK
    <3>2. read[q] = [n \in 1..4 |-> read[q][n]]
      BY <3>1, <1>1
    <3> QED BY <3>2, <2>4 DEF Figure, Parts
  <2>6. snapshot'[m] = Figure(m)' /\ \A u \in Months : u # m => snapshot'[u] = snapshot[u]
    BY <2>3, <2>5, <1>1, <1>3, <1>8 DEF TypeOK
  <2>7. StaleOnlyByOverlap'
    BY <2>6, <1>1, <1>3, <1>8 DEF SInv, StaleOnlyByOverlap
  <2> QED BY <1>4, <2>2, <2>7 DEF SInv
<1> QED BY <1>5, <1>6, <1>7, <1>8

LEMMA BeginChangeSInv ==
    ASSUME IInv, IInv', SInv, NEW q \in Requests, NEW r \in Receipts, BeginChange(q, r)
    PROVE  SInv'
<1>1. /\ TypeOK /\ TypeOK' /\ stage[q] = "idle" /\ stage' = [stage EXCEPT ![q] = "loaded"]
      /\ receipt' = [receipt EXCEPT ![q] = r]
  BY DEF BeginChange, IInv
<1>2. PICK x : wanted' = [wanted EXCEPT ![q] = x]
  BY DEF BeginChange
<1>3. UNCHANGED <<row, trip, snapshot, month, read, drops, met, chancy, passed>>
  BY DEF BeginChange, data, look, history
<1>4. Flushing' = Flushing /\ q \notin Flushing
  BY <1>1 DEF Flushing, TypeOK
<1>5. \A m \in Months, n \in DOMAIN Parts : Part(m, n)' = Part(m, n)
  BY <1>1, <1>3, Steady
<1>6. ASSUME NEW p \in Requests PROVE Quiet(p)'
  <2>1. CASE p = q
    <3>1. stage'[q] = "loaded"
      BY <1>1 DEF TypeOK
    <3> QED BY <3>1, <2>1 DEF Quiet
  <2>2. CASE p # q
    <3>1. stage'[p] = stage[p]
      BY <2>2, <1>1 DEF TypeOK
    <3> QED BY <3>1, <1>1, <1>3, <1>4, <1>5, QuietFrame DEF SInv
  <2> QED BY <2>1, <2>2
<1>7. ASSUME NEW p \in Requests, p \in Flushing' PROVE Covered(p)'
  <2>1. p # q /\ receipt'[p] = receipt[p] /\ wanted'[p] = wanted[p]
    BY <1>1, <1>2, <1>4, <1>7 DEF TypeOK
  <2> QED BY <2>1, <1>3, <1>4, <1>7 DEF SInv, Covered
<1>8. StaleOnlyByOverlap'
  BY <1>1, <1>3, Steady, StaleFrame DEF SInv
<1> QED BY <1>6, <1>7, <1>8 DEF SInv

LEMMA DropSInv ==
    ASSUME IInv, IInv', SInv, NEW q \in Requests, Drop(q)
    PROVE  SInv'
<1>1. /\ TypeOK /\ TypeOK' /\ stage[q] = "loaded" /\ stage' = [stage EXCEPT ![q] = "dropped"]
      /\ drops' = [drops EXCEPT ![q] = {m \in Touched(q) : snapshot[m] # None}]
      /\ met' = met \cup {p \in Requests : stage[p] = "looking"}
  BY DEF Drop, IInv
<1>2. UNCHANGED <<row, trip, snapshot, month, read, receipt, loaded, wanted, chancy, passed>>
  BY DEF Drop, data, look
<1>3. \A p \in Requests : p # q => stage'[p] = stage[p] /\ drops'[p] = drops[p]
  BY <1>1 DEF TypeOK
<1>4. stage'[q] = "dropped" /\ drops'[q] = {m \in Touched(q) : snapshot[m] # None}
  BY <1>1 DEF TypeOK
<1>5. ASSUME NEW p \in Requests PROVE Quiet(p)'
  BY <1>1, <1>2, <1>3, <1>4 DEF SInv, Quiet
<1>6. ASSUME NEW p \in Requests, p \in Flushing' PROVE Covered(p)'
  <2>1. CASE p = q
    <3>1. MonthOf(row[receipt[q]]) \cup MonthOf(wanted[q]) \subseteq Touched(q)
      BY DEF Touched
    <3> QED BY <3>1, <2>1, <1>2, <1>4 DEF Covered
  <2>2. CASE p # q
    <3>1. p \in Flushing
      BY <2>2, <1>3, <1>6 DEF Flushing
    <3> QED BY <3>1, <2>2, <1>2, <1>3 DEF SInv, Covered
  <2> QED BY <2>1, <2>2
<1>7. StaleOnlyByOverlap'
  BY <1>1, <1>2, Steady, StaleFrame DEF SInv
<1> QED BY <1>5, <1>6, <1>7 DEF SInv

LEMMA WriteSInv ==
    ASSUME IInv, IInv', SInv, NEW q \in Requests, Write(q)
    PROVE  SInv'
<1>1. TypeOK /\ TypeOK' /\ stage[q] = "dropped" /\ stage' = [stage EXCEPT ![q] = "written"]
  BY DEF Write, IInv
<1>2. UNCHANGED <<row, trip, snapshot, month, read, receipt, loaded, wanted, drops, met, chancy, passed>>
  BY DEF Write, data, look, change, history
<1>3. Flushing' = Flushing
  BY <1>1 DEF Flushing, TypeOK
<1>4. \A m \in Months, n \in DOMAIN Parts : Part(m, n)' = Part(m, n)
  BY <1>1, <1>2, Steady
<1>5. ASSUME NEW p \in Requests PROVE Quiet(p)'
  <2>1. CASE p = q
    <3>1. stage'[q] = "written"
      BY <1>1 DEF TypeOK
    <3> QED BY <3>1, <2>1 DEF Quiet
  <2>2. CASE p # q
    <3>1. stage'[p] = stage[p]
      BY <2>2, <1>1 DEF TypeOK
    <3> QED BY <3>1, <1>1, <1>2, <1>3, <1>4, QuietFrame DEF SInv
  <2> QED BY <2>1, <2>2
<1>6. \A p \in Requests : p \in Flushing' => Covered(p)'
  BY <1>2, <1>3 DEF SInv, Covered
<1>7. StaleOnlyByOverlap'
  BY <1>1, <1>2, Steady, StaleFrame DEF SInv
<1> QED BY <1>5, <1>6, <1>7 DEF SInv

(* The months a commit changes have no snapshot but one that is marked.     *)
LEMMA CommitSInv ==
    ASSUME IInv, IInv', SInv, NEW q \in Requests, Commit(q)
    PROVE  SInv'
<1>1. /\ TypeOK /\ TypeOK' /\ stage[q] = "written" /\ q \in Flushing /\ Rest(q) /\ trip' = trip
      /\ snapshot' = [m \in Months |-> IF m \in drops[q] THEN None ELSE snapshot[m]]
      /\ chancy' = chancy \ drops[q] /\ passed' = passed \ drops[q]
  BY DEF Commit, IInv, Flushing
<1>2. Covered(q)
  BY <1>1 DEF SInv
<1>3. ASSUME NEW p \in Requests PROVE Quiet(p)'
  <2>1. CASE p = q
    BY <2>1, <1>1, Rested DEF Quiet
  <2>2. CASE p # q
    <3>1. stage[p] = "looking" => p \in met
      BY <1>1 DEF SInv, Quiet
    <3>2. stage'[p] = stage[p] /\ read'[p] = read[p] /\ met' = met \ {q}
      BY <2>2, <1>1, Rested
    <3> QED BY <3>1, <3>2, <2>2 DEF SInv, Quiet
  <2> QED BY <2>1, <2>2
<1>4. ASSUME NEW p \in Requests, p \in Flushing' PROVE Covered(p)'
  <2>1. /\ p # q /\ p \in Flushing /\ receipt'[p] = receipt[p] /\ wanted'[p] = wanted[p]
        /\ drops'[p] = drops[p]
    BY <1>4, <1>1, RestFlushing, Rested
  <2>2. Covered(p) /\ receipt[p] \in Receipts /\ wanted[p] \in Row \cup Missing
    BY <2>1 DEF SInv, IInv, TypeOK, InHand, Changing, Flushing
  <2>3. MonthOf(row'[receipt[p]]) \cup MonthOf(wanted[p]) \subseteq Months
    <3>1. row'[receipt[p]] \in Row \cup Missing
      BY <2>2, Committed
    <3> QED BY <3>1, <2>2 DEF MonthOf, Row
  <2>4. ASSUME NEW m \in MonthOf(row'[receipt[p]]) \cup MonthOf(wanted[p])
        PROVE  snapshot[m] = None \/ m \in chancy \/ m \in drops[p] \/ m \in drops[q]
    <3>1. CASE receipt[p] = receipt[q]
      BY <3>1, <2>2, <1>2, Committed DEF Covered
    <3>2. CASE receipt[p] # receipt[q]
      BY <3>2, <2>2, Committed DEF Covered
    <3> QED BY <3>1, <3>2
  <2> QED BY <2>1, <2>3, <2>4, <1>1 DEF Covered
<1>5. ASSUME NEW m \in Months \ (chancy' \cup passed'), snapshot'[m] # None PROVE snapshot'[m] = Figure(m)'
  <2>1. m \notin drops[q] /\ snapshot'[m] = snapshot[m] /\ m \notin chancy \cup passed
    BY <1>1, <1>5
  <2>2. m \notin MonthOf(row[receipt[q]]) \cup MonthOf(wanted[q])
    BY <2>1, <1>2, <1>5 DEF Covered
  <2>3. m \notin MonthOf(row[receipt[q]]) \cup MonthOf(row'[receipt[q]])
    BY <2>2, Committed
  <2>4. \A r \in Receipts : row'[r] = row[r] \/ m \notin MonthOf(row[r]) \cup MonthOf(row'[r])
    BY <2>3, Committed
  <2>5. \A r \in Receipts : row'[r] = row[r] => Repaid(r)' = Repaid(r)
    BY <1>1 DEF Repaid
  <2>6. Figure(m)' = Figure(m)
    BY <2>4, <2>5, FigureFrame
  <2> QED BY <2>1, <2>6, <1>5 DEF SInv, StaleOnlyByOverlap
<1>6. StaleOnlyByOverlap'
  BY <1>5 DEF StaleOnlyByOverlap
<1> QED BY <1>3, <1>4, <1>6 DEF SInv

LEMMA AbortSInv ==
    ASSUME IInv, IInv', SInv, NEW q \in Requests, Abort(q)
    PROVE  SInv'
<1>1. /\ TypeOK /\ TypeOK' /\ Rest(q) /\ UNCHANGED <<row, trip, snapshot, chancy, passed>>
  BY DEF Abort, IInv, data
<1>2. \A m \in Months, n \in DOMAIN Parts : Part(m, n)' = Part(m, n)
  BY <1>1, Steady
<1>3. \A p \in Requests : Quiet(p)'
  BY <1>1, <1>2, RestQuiet
<1>4. ASSUME NEW p \in Requests, p \in Flushing' PROVE Covered(p)'
  <2>1. p # q /\ p \in Flushing /\ receipt'[p] = receipt[p] /\ wanted'[p] = wanted[p] /\ drops'[p] = drops[p]
    BY <1>4, <1>1, RestFlushing, Rested
  <2> QED BY <2>1, <1>1 DEF SInv, Covered
<1>5. StaleOnlyByOverlap'
  BY <1>1, Steady, StaleFrame DEF SInv
<1> QED BY <1>3, <1>4, <1>5 DEF SInv

(* The trip changes no figure but those of the months it turns.             *)
LEMMA TurnedOnly ==
    ASSUME TypeOK, (\E kind \in TripKinds : SaveTrip(kind)) \/ DeleteTrip,
           NEW m \in Months, m \notin Turned
    PROVE  Figure(m)' = Figure(m) /\ \A n \in DOMAIN Parts : Part(m, n)' = Part(m, n)
<1>1. \A r \in Receipts : row[r] \in Row \cup Missing
  BY DEF TypeOK
<1>2. \A r \in Receipts :
          ((trip = "business") # (trip' = "business") /\ row[r] \notin Missing /\ row[r].away)
              => row[r].month # m
  BY DEF Turned
<1>3. CASE \E kind \in TripKinds : SaveTrip(kind)
  <2>1. row' = row
    BY <1>3 DEF SaveTrip
  <2>2. ASSUME NEW r \in Receipts
        PROVE  Repaid(r)' = Repaid(r) \/ m \notin MonthOf(row[r]) \cup MonthOf(row'[r])
    BY <2>1, <2>2, <1>1, <1>2 DEF Repaid, MonthOf, Row
  <2> QED BY <2>1, <2>2, FigureFrame
<1>4. CASE DeleteTrip
  <2>1. trip' # "business"
    BY <1>4, NoneAssumption DEF DeleteTrip
  <2>2. ASSUME NEW r \in Receipts, row[r] \notin Missing
        PROVE  /\ row'[r] \notin Missing
               /\ row'[r].month = row[r].month
               /\ row'[r].parsed = row[r].parsed
               /\ row'[r].paid = row[r].paid
    <3>1. row[r] \in Row /\ row'[r] = [row[r] EXCEPT !.away = FALSE]
      BY <2>2, <1>1, <1>4 DEF DeleteTrip
    <3>2. row'[r] \in Row
      BY <3>1 DEF Row
    <3> QED BY <3>1, <3>2, RowAssumption DEF Row
  <2>3. ASSUME NEW r \in Receipts, row[r] \in Missing
        PROVE  m \notin MonthOf(row[r]) \cup MonthOf(row'[r])
    BY <2>3, <1>4 DEF DeleteTrip, MonthOf
  <2>4. ASSUME NEW r \in Receipts, row[r] \notin Missing
        PROVE  Repaid(r)' = Repaid(r) \/ m \notin MonthOf(row[r]) \cup MonthOf(row'[r])
    <3>1. Repaid(r)' = FALSE
      BY <2>1 DEF Repaid
    <3>2. Repaid(r) => row[r].month # m
      BY <2>1, <2>4, <1>2 DEF Repaid
    <3>3. row[r].away \in BOOLEAN
      BY <2>4, <1>1 DEF Row
    <3> QED BY <3>1, <3>2, <3>3, <2>2, <2>4 DEF Repaid, MonthOf
  <2> QED BY <2>2, <2>3, <2>4, FigureFrame
<1> QED BY <1>3, <1>4

(* A change of the trip marks the snapshots whose figure it changes, and    *)
(* the looks at their months.                                               *)
LEMMA TripSInv ==
    ASSUME IInv, IInv', SInv, (\E kind \in TripKinds : SaveTrip(kind)) \/ DeleteTrip
    PROVE  SInv'
<1>1. TypeOK /\ UNCHANGED <<snapshot, stage, month, read, receipt, wanted, drops, chancy>> /\ Passed
  BY DEF IInv, SaveTrip, DeleteTrip, look, change
<1>2. ASSUME NEW r \in Receipts PROVE MonthOf(row'[r]) = MonthOf(row[r])
  <2>1. CASE row' = row \/ row[r] \in Missing
    <3>1. row'[r] = row[r]
      BY <2>1 DEF SaveTrip, DeleteTrip
    <3> QED BY <3>1 DEF MonthOf
  <2>2. CASE row' # row /\ row[r] \notin Missing
    <3>1. row[r] \in Row /\ row'[r] = [row[r] EXCEPT !.away = FALSE]
      BY <2>2, <1>1 DEF SaveTrip, DeleteTrip, TypeOK
    <3>2. row'[r] \in Row /\ row'[r].month = row[r].month
      BY <3>1 DEF Row
    <3> QED BY <3>1, <3>2, RowAssumption DEF MonthOf
  <2> QED BY <2>1, <2>2
<1>3. Flushing' = Flushing
  BY <1>1 DEF Flushing
<1>4. ASSUME NEW p \in Requests PROVE Quiet(p)'
  <2>1. met' = met \cup {q \in Requests : stage[q] = "looking" /\ month[q] \in Turned}
    BY <1>1 DEF Passed
  <2>2. stage'[p] = "idle" => read'[p] = <<>>
    BY <1>1 DEF SInv, Quiet
  <2>3. ASSUME stage'[p] = "looking", p \notin met' PROVE Flushing' = {}
    BY <2>1, <2>3, <1>1, <1>3 DEF SInv, Quiet
  <2>4. ASSUME stage'[p] = "looking", p \notin met', NEW m \in Months, month'[p] = m,
               NEW n \in 1..Len(read'[p])
        PROVE  read'[p][n] = Part(m, n)'
    <3>1. m \notin Turned /\ read[p][n] = Part(m, n)
      BY <2>1, <2>4, <1>1 DEF SInv, Quiet
    <3>2. n \in DOMAIN Parts
      BY <2>4, <1>1 DEF TypeOK, Parts
    <3> QED BY <3>1, <3>2, <1>1, TurnedOnly
  <2> QED BY <2>2, <2>3, <2>4 DEF Quiet
<1>5. ASSUME NEW p \in Requests, p \in Flushing' PROVE Covered(p)'
  <2>1. Covered(p) /\ receipt[p] \in Receipts
    BY <1>3, <1>5 DEF SInv, IInv, InHand, Changing, Flushing
  <2> QED BY <2>1, <1>1, <1>2 DEF Covered
<1>6. ASSUME NEW m \in Months \ (chancy' \cup passed'), snapshot'[m] # None
      PROVE  snapshot'[m] = Figure(m)'
  <2>1. m \notin chancy \cup passed \cup Turned /\ snapshot[m] # None
    BY <1>1, <1>6 DEF Passed
  <2> QED BY <2>1, <1>1, TurnedOnly DEF SInv, StaleOnlyByOverlap
<1>7. StaleOnlyByOverlap'
  BY <1>6 DEF StaleOnlyByOverlap
<1> QED BY <1>4, <1>5, <1>7 DEF SInv

(* The calendar changes no figure.                                          *)
LEMMA CalendarSInv ==
    ASSUME IInv, SInv, UNCHANGED <<row, trip, snapshot, stage, look, change, history>>
    PROVE  SInv'
<1>1. TypeOK
  BY DEF IInv
<1>2. \A m \in Months : Figure(m)' = Figure(m) /\ \A n \in DOMAIN Parts : Part(m, n)' = Part(m, n)
  BY Steady
<1>3. Flushing' = Flushing
  BY DEF Flushing
<1>4. ASSUME NEW p \in Requests PROVE Quiet(p)'
  BY <1>1, <1>2, <1>3, QuietFrame DEF SInv, look, history
<1>5. \A p \in Requests : p \in Flushing' => Covered(p)'
  BY <1>3 DEF SInv, Covered, change, history
<1>6. StaleOnlyByOverlap'
  BY <1>2, StaleFrame DEF SInv, history
<1> QED BY <1>4, <1>5, <1>6 DEF SInv

LEMMA NextSInv == IInv /\ IInv' /\ SInv /\ [Next]_vars => SInv'
<1> SUFFICES ASSUME IInv, IInv', SInv, [Next]_vars PROVE SInv'
  OBVIOUS
<1>1. CASE UNCHANGED vars \/ MonthEnds
  BY <1>1, CalendarSInv DEF MonthEnds, vars, data
<1>2. CASE (\E kind \in TripKinds : SaveTrip(kind)) \/ DeleteTrip
  BY <1>2, TripSInv
<1>3. CASE \E q \in Requests :
              \/ \E m \in Months : BeginLook(q, m)
              \/ ReadPart(q) \/ Save(q) \/ Drop(q) \/ Write(q) \/ Commit(q) \/ Abort(q)
              \/ \E r \in Receipts : BeginChange(q, r)
  BY <1>3, BeginLookSInv, ReadPartSInv, SaveSInv, BeginChangeSInv, DropSInv, WriteSInv,
     CommitSInv, AbortSInv
<1> QED BY <1>1, <1>2, <1>3 DEF Next

(* For any number of requests, receipts and months, in any order: a         *)
(* snapshot that is not the figure of its month was saved by a look that    *)
(* met a change between its flush and its commit, or one of the trip, or    *)
(* the trip has changed the month since (db/snapshot_invalidation.py,       *)
(* services/budget.py, services/trip.py).                                   *)
THEOREM StaleByOverlap == Spec => []StaleOnlyByOverlap
<1>1. SInv => StaleOnlyByOverlap
  BY DEF SInv
<1>2. IInv /\ SInv /\ [Next]_vars => (IInv /\ SInv)'
  BY NextIInv, NextSInv
<1> QED BY InitIInv, InitSInv, <1>1, <1>2, PTL DEF Spec

=============================================================================
