---------------------------- MODULE IntakeProofs ----------------------------
(***************************************************************************)
(* Proofs about Intake, for any number of uploads, receipts, messages,     *)
(* deliveries and requests at once: what the lookups before a store do     *)
(* give without any lock or unique column.  NoOlder is the heart: whatever *)
(* a lookup did not find was stored after the looker began.                *)
(***************************************************************************)
EXTENDS Intake, TLAPS

(* What a request holds while it is at work.                                *)
RequestInv ==
    \A q \in Requests :
        /\ stage[q] \in {"editing", "storing"} => job[q] \in Jobs /\ copy[q] \in Readings
        /\ stage[q] \in {"deleting"} \cup Flushed => victim[q] \in Receipt
        /\ stage[q] = "unerased" => victim[q].photo # NoPhoto
        /\ since[q] <= commits
        /\ q \in stale => Working(q)

(* A delivery names the message it brings from the moment it is accepted.   *)
MailInv == \A d \in Deliveries : mail[d] # "none" => message[d] \in Messages

Typed == TypeOK /\ RequestInv /\ MailInv

(* Whatever a lookup under way has not found was stored after the looker    *)
(* began: a receipt with an identity that a request has kept or a mail task *)
(* has looked up, and a receipt of a message whose reference was checked.   *)
RowsInv ==
    \A r \in receipts : r.commit <= commits /\ r.began < r.commit

KeptInv ==
    \A q \in Requests :
        /\ stage[q] # "storing" => kept[q] = {}
        /\ \A n \in kept[q] : Identity(<<job[q], n>>) # Unidentified =>
              /\ \A r \in receipts : r.identity = Identity(<<job[q], n>>) => r.commit > since[q]
              /\ \A m \in kept[q] :
                    Identity(<<job[q], m>>) = Identity(<<job[q], n>>) => m = n

LookedInv ==
    \A d \in Deliveries :
        /\ seen[d] <= commits
        /\ mail[d] = "looked" /\ identity[d] # Unidentified =>
              \A r \in receipts : r.identity = identity[d] => r.commit > seen[d]
        /\ mail[d] \in {"uploaded", "read", "looked"} =>
              \A r \in receipts : r.source = message[d] => r.commit > seen[d]

NoOlder == RowsInv /\ KeptInv /\ LookedInv

USE DEF sharedVars, jobVars, requestVars, history, wizardVars, mailVars
USE DEF Stage, Mail, Flushed

(* A fiscal identity is one of those the sources show, or none.             *)
LEMMA IdentityOfSource == \A s \in Sources : Identity(s) \in Identities
BY DEF Identities

LEMMA NoneIsIdentity == Unidentified \in Identities
BY DEF Identities

(* What an edit leaves is a reading still.                                  *)
LEMMA EditedIsReading == \A x \in Reading : Edited(x) \subseteq Reading
<1> SUFFICES ASSUME NEW x \in Reading, NEW y \in Edited(x) PROVE y \in Reading
  OBVIOUS
<1>1. y \in Answered(x) => y \in Reading
  BY DEF Answered, Reading
<1>2. ASSUME y \in Settled(x) PROVE y \in Reading
  <2>1. PICK b \in BOOLEAN : y = [x EXCEPT !.doubtful = b]
    BY <1>2 DEF Settled
  <2> QED BY <2>1 DEF Reading
<1>3. ASSUME y \in Rechecked(x) PROVE y \in Reading
  <2>1. PICK b \in BOOLEAN : y = [x EXCEPT !.doubtful = b, !.skipped = FALSE,
                                         !.already = FALSE, !.pictured = FALSE]
    BY <1>3 DEF Rechecked
  <2> QED BY <2>1 DEF Reading
<1> QED BY <1>1, <1>2, <1>3 DEF Edited

(* A request that is over keeps nothing.                                    *)
LEMMA RestTypes ==
    ASSUME Typed, NEW q \in Requests, NEW written, Rest(q, written)
    PROVE  /\ stage' \in [Requests -> Stage]
           /\ job' \in [Requests -> Jobs \cup {Nothing}]
           /\ copy' \in [Requests -> Readings \cup {Nothing}]
           /\ todo' \in [Requests -> SUBSET Indices]
           /\ kept' \in [Requests -> SUBSET Indices]
           /\ since' \in [Requests -> Nat]
           /\ victim' \in [Requests -> Receipt \cup {Nothing}]
           /\ stale' \subseteq Requests
BY DEF Typed, TypeOK, WizardTypeOK, Rest

LEMMA RestHolds ==
    ASSUME Typed, NEW q \in Requests, NEW written, Rest(q, written),
           commits' \in Nat, commits <= commits'
    PROVE  RequestInv'
<1> USE DEF Typed, TypeOK, WizardTypeOK, SharedTypeOK, RequestInv, Working
<1>1. ASSUME NEW p \in Requests, p # q
      PROVE  /\ stage'[p] = stage[p] /\ job'[p] = job[p] /\ copy'[p] = copy[p]
             /\ victim'[p] = victim[p] /\ since'[p] = since[p]
             /\ p \in stale' => Working(p)
  BY <1>1 DEF Rest
<1>2. stage'[q] = "idle" /\ since'[q] = 0 /\ q \notin stale'
  BY DEF Rest
<1> QED BY <1>1, <1>2

(* What CommitStore and StoreMail add to the table are receipts.            *)
LEMMA StoredAreReceipts ==
    ASSUME Typed, NEW q \in Requests, CommitStore(q)
    PROVE  receipts' \subseteq Receipt /\ carried' \subseteq Photos \cup {NoPhoto}
<1>1. job[q] \in Jobs /\ copy[q] \in Readings /\ kept[q] \subseteq Indices
  BY DEF Typed, TypeOK, WizardTypeOK, RequestInv, CommitStore
<1>2. \A n \in kept[q] : <<job[q], n>> \in Sources /\ <<job[q], n>> \in Photos
  BY <1>1 DEF Sources, Extractions, Photos
<1>3. commits + 1 \in Nat /\ since[q] \in Nat
  BY DEF Typed, TypeOK, SharedTypeOK, WizardTypeOK
<1>4. ASSUME NEW n \in kept[q]
      PROVE  Row(q, n) \in Receipt
  BY <1>2, <1>3, IdentityOfSource DEF Receipt, Row
<1>5. \A n \in kept[q] : Row(q, n).photo \in Photos \cup {NoPhoto}
  BY <1>4 DEF Receipt
<1> QED BY <1>4, <1>5 DEF CommitStore, Store, Typed, TypeOK, SharedTypeOK

(* Every step of a request keeps the types, and what requests hold.         *)
LEMMA RequestStepTypes ==
    ASSUME Typed, NEW q \in Requests, RequestStep(q), UNCHANGED mailVars
    PROVE  Typed'
<1> USE DEF Typed, TypeOK, SharedTypeOK, WizardTypeOK, MailTypeOK
<1>0. MailTypeOK' /\ MailInv'
  BY DEF MailInv
<1>1. ASSUME NEW j \in Jobs, BeginEdit(q, j) PROVE Typed'
  <2>1. readings[j] \in Readings
    BY <1>1 DEF BeginEdit
  <2>2. PICK n \in Indices : \E x \in Edited(readings[j][n]) :
            copy' = [copy EXCEPT ![q] = [readings[j] EXCEPT ![n] = x]]
    BY <1>1 DEF BeginEdit
  <2>3. readings[j][n] \in Reading
    BY <2>1 DEF Readings
  <2>4. PICK x \in Reading : copy' = [copy EXCEPT ![q] = [readings[j] EXCEPT ![n] = x]]
    BY <2>2, <2>3, EditedIsReading
  <2>5. [readings[j] EXCEPT ![n] = x] \in Readings
    BY <2>1 DEF Readings
  <2> QED BY <1>0, <1>1, <2>4, <2>5 DEF BeginEdit, RequestInv, Working
<1>2. ASSUME NEW j \in Jobs, BeginStore(q, j) PROVE Typed'
  <2>1. readings[j] \in Readings
    BY <1>2 DEF BeginStore
  <2>2. todo' \in [Requests -> SUBSET Indices]
    BY <1>2 DEF BeginStore
  <2> QED BY <1>0, <1>2, <2>1, <2>2 DEF BeginStore, RequestInv, Working
<1>3. ASSUME NEW r \in receipts, BeginDelete(q, r) PROVE Typed'
  BY <1>0, <1>3 DEF BeginDelete, RequestInv, Working
<1>4. CASE FinishEdit(q)
  <2>1. job[q] \in Jobs /\ copy[q] \in Readings
    BY <1>4 DEF FinishEdit, RequestInv
  <2>2. \A n \in Indices : <<job[q], n>> \in Extractions
    BY <2>1 DEF Extractions
  <2>3. readings' \in [Jobs -> Readings \cup {Nothing}] /\ refused' \subseteq Extractions
    BY <1>4, <2>1, <2>2 DEF FinishEdit
  <2>4. overwritten' \subseteq Jobs
    BY <1>4, <2>1 DEF FinishEdit, Used
  <2> QED BY <1>0, <1>4, <2>3, <2>4, RestTypes, RestHolds DEF FinishEdit
<1>5. CASE LookUp(q)
  <2>1. todo' \in [Requests -> SUBSET Indices] /\ kept' \in [Requests -> SUBSET Indices]
    <3>1. PICK n \in todo[q] :
              /\ \/ kept' = [kept EXCEPT ![q] = @ \cup {n}]
                 \/ kept' = [kept EXCEPT ![q] = @]
              /\ todo' = [todo EXCEPT ![q] = @ \ {n}]
      BY <1>5 DEF LookUp
    <3> QED BY <3>1
  <2> QED BY <1>0, <1>5, <2>1 DEF LookUp, RequestInv, Working
<1>6. CASE CommitStore(q)
  <2>1. receipts' \subseteq Receipt /\ carried' \subseteq Photos \cup {NoPhoto}
    BY <1>6, StoredAreReceipts
  <2>2. commits' = commits + 1
    BY <1>6 DEF CommitStore, Store
  <2>3. job[q] \in Jobs
    BY <1>6 DEF CommitStore, RequestInv
  <2>4. overwritten' \subseteq Jobs
    BY <1>6, <2>3 DEF CommitStore, Used
  <2> QED BY <1>0, <1>6, <2>1, <2>2, <2>3, <2>4, RestTypes, RestHolds DEF CommitStore
<1>7. CASE FlushDelete(q)
  BY <1>0, <1>7 DEF FlushDelete, RequestInv, Working
<1>8. CASE Erase(q)
  BY <1>0, <1>8 DEF Erase, RequestInv, Working
<1>9. CASE CommitDelete(q)
  <2>1. victim[q] \in Receipt
    BY <1>9 DEF CommitDelete, RequestInv
  <2>2. victim[q].source \in Sources /\ victim[q].photo \in Photos \cup {NoPhoto}
    BY <2>1 DEF Receipt
  <2>3. strayed' \subseteq Photos /\ erased' \subseteq Sources
    BY <1>9, <2>2 DEF CommitDelete, RequestInv
  <2> QED BY <1>0, <1>9, <2>3, RestTypes, RestHolds DEF CommitDelete
<1>10. CASE Abort(q)
  <2>1. unwound' \subseteq Photos \cup {NoPhoto}
    <3>1. stage[q] = "erased" => victim[q].photo \in Photos \cup {NoPhoto}
      BY DEF RequestInv, Receipt
    <3> QED BY <1>10, <3>1 DEF Abort
  <2> QED BY <1>0, <1>10, <2>1, RestTypes, RestHolds DEF Abort
<1> QED
  BY <1>1, <1>2, <1>3, <1>4, <1>5, <1>6, <1>7, <1>8, <1>9, <1>10 DEF RequestStep

(* What the readings of uploads leave alone.                                *)
LEMMA ReadingLeaves ==
    ReadingStep => /\ UNCHANGED <<receipts, commits, carried, requestVars, history>>
                   /\ photos \subseteq photos'
BY DEF ReadingStep, StorePhoto, ReadJob, FailJob, LoseJob, SweepJobs

(* Every step of a reading keeps the types.                                 *)
LEMMA ReadingTypes ==
    ASSUME Typed, ReadingStep, UNCHANGED mailVars
    PROVE  Typed'
<1> USE DEF Typed, TypeOK, SharedTypeOK, WizardTypeOK, MailTypeOK
<1>1. MailTypeOK' /\ MailInv'
  BY DEF MailInv
<1>2. RequestInv'
  BY ReadingLeaves DEF RequestInv, Working
<1>3. ASSUME NEW j \in Jobs, NEW n \in Indices, StorePhoto(j, n) PROVE Typed'
  <2>1. <<j, n>> \in Photos
    BY DEF Photos, Extractions
  <2> QED BY <1>1, <1>2, <1>3, <2>1 DEF StorePhoto
<1>4. ASSUME NEW j \in Jobs, ReadJob(j) PROVE Typed'
  <2>1. PICK rs \in Readings : readings' = [readings EXCEPT ![j] = rs]
    BY <1>4 DEF ReadJob
  <2> QED BY <1>1, <1>2, <1>4, <2>1 DEF ReadJob
<1>5. ASSUME NEW j \in Jobs, FailJob(j) \/ LoseJob(j) PROVE Typed'
  BY <1>1, <1>2, <1>5 DEF FailJob, LoseJob
<1>6. CASE SweepJobs
  BY <1>1, <1>2, <1>6 DEF SweepJobs
<1> QED BY <1>3, <1>4, <1>5, <1>6 DEF ReadingStep

(* A receipt stored from a message is a receipt.                            *)
LEMMA MailStoresReceipts ==
    ASSUME Typed, NEW d \in Deliveries, StoreMail(d)
    PROVE  receipts' \subseteq Receipt /\ carried' \subseteq Photos \cup {NoPhoto}
<1> USE DEF Typed, TypeOK, SharedTypeOK, MailTypeOK
<1>1. message[d] \in Sources /\ d \in Photos
  BY DEF StoreMail, Move, MailInv, Sources, Photos
<1>2. commits + 1 \in Nat /\ seen[d] \in Nat /\ identity[d] \in Identities
  OBVIOUS
<1>3. [source |-> message[d], identity |-> identity[d], photo |-> d,
       commit |-> commits + 1, began |-> seen[d]] \in Receipt
  BY <1>1, <1>2 DEF Receipt
<1> QED BY <1>1, <1>3 DEF StoreMail, Store

(* Every step of a mail task keeps the types.                               *)
LEMMA MailStepTypes ==
    ASSUME Typed, MailNext, UNCHANGED wizardVars
    PROVE  Typed'
<1> USE DEF Typed, TypeOK, SharedTypeOK, MailTypeOK, MailInv, Move
<1>1. WizardTypeOK'
  BY DEF WizardTypeOK
<1>2. commits' \in Nat /\ commits <= commits' => RequestInv'
  BY DEF RequestInv, WizardTypeOK, Working
<1>3. PICK d \in Deliveries :
        \/ \E m \in Messages : Deliver(d, m)
        \/ CheckReference(d) \/ ReadReceipt(d) \/ ReadIncome(d) \/ KeepIncome(d)
        \/ LookUpMail(d) \/ StoreMail(d) \/ Lose(d)
  BY DEF MailNext
<1>4. ASSUME NEW m \in Messages, Deliver(d, m) PROVE Typed'
  BY <1>1, <1>2, <1>4 DEF Deliver
<1>5. CASE CheckReference(d)
  BY <1>1, <1>2, <1>5 DEF CheckReference, Photos
<1>6. CASE ReadReceipt(d)
  <2>1. identity' \in [Deliveries -> Identities]
    <3>1. message[d] \in Sources
      BY <1>6 DEF ReadReceipt, Sources
    <3> QED BY <1>6, <3>1, IdentityOfSource, NoneIsIdentity DEF ReadReceipt
  <2> QED BY <1>1, <1>2, <1>6, <2>1 DEF ReadReceipt
<1>7. CASE ReadIncome(d)
  BY <1>1, <1>2, <1>7 DEF ReadIncome
<1>8. CASE KeepIncome(d)
  BY <1>1, <1>2, <1>8 DEF KeepIncome
<1>9. CASE LookUpMail(d)
  BY <1>1, <1>2, <1>9 DEF LookUpMail
<1>10. CASE StoreMail(d)
  <2>1. receipts' \subseteq Receipt /\ carried' \subseteq Photos \cup {NoPhoto}
    BY <1>10, MailStoresReceipts
  <2>2. commits' = commits + 1 /\ UNCHANGED <<photos, message, seen, identity, letters>>
    BY <1>10 DEF StoreMail, Store
  <2>3. mail' = [mail EXCEPT ![d] = "over"] /\ mail[d] = "looked"
    BY <1>10 DEF StoreMail
  <2> QED BY <1>1, <1>2, <2>1, <2>2, <2>3
<1>11. CASE Lose(d)
  BY <1>1, <1>2, <1>11 DEF Lose
<1> QED
  BY <1>3, <1>4, <1>5, <1>6, <1>7, <1>8, <1>9, <1>10, <1>11

LEMMA InitTyped == Init => Typed
<1> SUFFICES ASSUME Init PROVE Typed
  OBVIOUS
<1>1. SharedTypeOK
  BY DEF Init, SharedInit, SharedTypeOK
<1>2. WizardTypeOK
  BY DEF Init, WizardInit, WizardTypeOK
<1>3. MailTypeOK
  BY NoneIsIdentity DEF Init, MailInit, MailTypeOK
<1>4. RequestInv /\ MailInv
  BY <1>1 DEF Init, WizardInit, MailInit, RequestInv, MailInv, SharedInit
<1> QED BY <1>1, <1>2, <1>3, <1>4 DEF Typed, TypeOK

LEMMA StepTyped == Typed /\ [Next]_vars => Typed'
<1> SUFFICES ASSUME Typed, [Next]_vars PROVE Typed'
  OBVIOUS
<1>1. CASE ReadingStep /\ UNCHANGED mailVars
  BY <1>1, ReadingTypes
<1>2. ASSUME NEW q \in Requests, RequestStep(q), UNCHANGED mailVars PROVE Typed'
  BY <1>2, RequestStepTypes
<1>3. CASE MailNext /\ UNCHANGED wizardVars
  BY <1>3, MailStepTypes
<1>4. CASE UNCHANGED vars
  BY <1>4 DEF vars, Typed, TypeOK, SharedTypeOK, WizardTypeOK, MailTypeOK, RequestInv, MailInv, Working
<1> QED BY <1>1, <1>2, <1>3, <1>4 DEF Next, WizardNext

THEOREM AlwaysTyped == Spec => []Typed
BY InitTyped, StepTyped, PTL DEF Spec

(* Every variable keeps its type, whatever the channels do at once.         *)
THEOREM TypeCorrect == Spec => []TypeOK
<1>1. Typed => TypeOK
  BY DEF Typed
<1> QED BY AlwaysTyped, <1>1, PTL

(***************************************************************************)
(* What the lookups give                                                   *)
(***************************************************************************)

(* A receipt new to the table carries the commit that stored it, and began  *)
(* no later than that commit.                                               *)
NewRow(r) == r.commit = commits' /\ commits' = commits + 1 /\ r.began <= commits

LEMMA StoreGrows ==
    ASSUME Typed, NEW q \in Requests, CommitStore(q), NEW r \in receipts', r \notin receipts
    PROVE  NewRow(r)
<1>1. \E n \in kept[q] :
        r = Row(q, n)
  BY DEF CommitStore, Store
<1>2. since[q] <= commits /\ commits' = commits + 1
  BY DEF Typed, RequestInv, CommitStore, Store
<1> QED BY <1>1, <1>2 DEF NewRow, Row

LEMMA MailGrows ==
    ASSUME LookedInv, NEW d \in Deliveries, StoreMail(d), NEW r \in receipts', r \notin receipts
    PROVE  NewRow(r)
<1>1. r = [source |-> message[d], identity |-> identity[d], photo |-> d,
           commit |-> commits + 1, began |-> seen[d]]
  BY DEF StoreMail, Store
<1>2. seen[d] <= commits /\ commits' = commits + 1
  BY DEF LookedInv, StoreMail, Store
<1> QED BY <1>1, <1>2 DEF NewRow

(* The table changes by the two stores and by deletions, in no other way.   *)
LEMMA OnlyStoresGrow ==
    ASSUME [Next]_vars
    PROVE  \/ receipts' \subseteq receipts /\ commits' = commits
           \/ \E q \in Requests : CommitStore(q)
           \/ \E d \in Deliveries : StoreMail(d)
<1>1. CASE ReadingStep
  BY <1>1, ReadingLeaves
<1>2. ASSUME NEW q \in Requests, RequestStep(q), ~CommitStore(q)
      PROVE  receipts' \subseteq receipts /\ commits' = commits
  BY <1>2 DEF RequestStep, BeginEdit, BeginStore, BeginDelete, FinishEdit, LookUp,
              FlushDelete, Erase, CommitDelete, Abort
<1>3. ASSUME NEW d \in Deliveries,
             \/ \E m \in Messages : Deliver(d, m)
             \/ CheckReference(d) \/ ReadReceipt(d) \/ ReadIncome(d) \/ KeepIncome(d)
             \/ LookUpMail(d) \/ Lose(d)
      PROVE  receipts' = receipts /\ commits' = commits
  BY <1>3 DEF Deliver, CheckReference, ReadReceipt, ReadIncome, KeepIncome, LookUpMail, Lose
<1>4. CASE UNCHANGED vars
  BY <1>4 DEF vars
<1> QED
  BY <1>1, <1>2, <1>3, <1>4 DEF Next, WizardNext, MailNext

LEMMA Growth ==
    ASSUME Typed, LookedInv, [Next]_vars
    PROVE  /\ commits \in Nat /\ commits' \in Nat /\ commits <= commits'
           /\ \A r \in receipts' : r \in receipts \/ NewRow(r)
<1>1. commits \in Nat
  BY DEF Typed, TypeOK, SharedTypeOK
<1>2. ASSUME NEW q \in Requests, CommitStore(q)
      PROVE  /\ commits' = commits + 1
             /\ \A r \in receipts' : r \in receipts \/ NewRow(r)
  BY <1>2, StoreGrows DEF CommitStore, Store
<1>3. ASSUME NEW d \in Deliveries, StoreMail(d)
      PROVE  /\ commits' = commits + 1
             /\ \A r \in receipts' : r \in receipts \/ NewRow(r)
  BY <1>3, MailGrows DEF StoreMail, Store
<1> QED BY <1>1, <1>2, <1>3, OnlyStoresGrow

(* The commits of a receipt are numbers, to be compared.                    *)
LEMMA RowNumbers == Typed => \A r \in receipts : r.commit \in Nat /\ r.began \in Nat
BY DEF Typed, TypeOK, SharedTypeOK, Receipt

LEMMA StepRows ==
    ASSUME Typed, Typed', LookedInv, RowsInv, [Next]_vars PROVE RowsInv'
<1> SUFFICES ASSUME NEW r \in receipts' PROVE r.commit <= commits' /\ r.began < r.commit
  BY DEF RowsInv
<1>1. CASE r \in receipts
  BY <1>1, Growth, RowNumbers DEF RowsInv
<1>2. CASE NewRow(r)
  <2>1. r.began \in Nat
    BY DEF Typed, TypeOK, SharedTypeOK, Receipt
  <2> QED BY <1>2, <2>1, Growth DEF NewRow
<1> QED BY <1>1, <1>2, Growth

(* Of one request: what it has kept is nowhere else, or younger than it.    *)
Kept(q) ==
    /\ stage[q] # "storing" => kept[q] = {}
    /\ \A n \in kept[q] : Identity(<<job[q], n>>) # Unidentified =>
          /\ \A r \in receipts : r.identity = Identity(<<job[q], n>>) => r.commit > since[q]
          /\ \A m \in kept[q] :
                Identity(<<job[q], m>>) = Identity(<<job[q], n>>) => m = n

(* A request that does not move keeps this, whatever is stored meanwhile.   *)
LEMMA KeptAtRest ==
    ASSUME Typed, Typed', LookedInv, [Next]_vars, NEW q \in Requests, Kept(q),
           stage'[q] = stage[q], kept'[q] = kept[q], job'[q] = job[q], since'[q] = since[q]
    PROVE  Kept(q)'
<1>1. since[q] \in Nat /\ since[q] <= commits
  BY DEF Typed, TypeOK, WizardTypeOK, RequestInv
<1>2. \A r \in receipts' : r \in receipts \/ r.commit > since[q]
  BY <1>1, Growth DEF NewRow
<1> QED BY <1>2 DEF Kept

(* One turn of the loop keeps only what neither the table nor the request   *)
(* itself has.                                                              *)
LEMMA LookUpKeeps ==
    ASSUME Typed, NEW q \in Requests, Kept(q), LookUp(q) PROVE Kept(q)'
<1>1. PICK n \in todo[q] :
        kept' = [kept EXCEPT ![q] =
                    IF /\ Identity(<<job[q], n>>) # Unidentified
                       /\ \/ Stored(Identity(<<job[q], n>>))
                          \/ \E m \in kept[q] : Identity(<<job[q], m>>) = Identity(<<job[q], n>>)
                    THEN @ ELSE @ \cup {n}]
  BY DEF LookUp
<1>2. kept \in [Requests -> SUBSET Indices]
  BY DEF Typed, TypeOK, WizardTypeOK
<1>3. UNCHANGED <<receipts, stage, job, since>> /\ stage[q] = "storing"
  BY DEF LookUp
<1>4. CASE kept'[q] = kept[q]
  BY <1>3, <1>4 DEF Kept
<1>5. CASE /\ kept'[q] = kept[q] \cup {n}
           /\ Identity(<<job[q], n>>) # Unidentified =>
                 /\ ~Stored(Identity(<<job[q], n>>))
                 /\ \A m \in kept[q] : Identity(<<job[q], m>>) # Identity(<<job[q], n>>)
  BY <1>3, <1>5 DEF Kept, Stored
<1> QED BY <1>1, <1>2, <1>4, <1>5

LEMMA StepKept ==
    ASSUME Typed, Typed', LookedInv, KeptInv, [Next]_vars PROVE KeptInv'
<1>1. \A q \in Requests : Kept(q)
  BY DEF KeptInv, Kept
<1> SUFFICES ASSUME NEW p \in Requests PROVE Kept(p)'
  BY DEF KeptInv, Kept
<1>2. CASE UNCHANGED <<stage, kept, job, since>>
  BY <1>1, <1>2, KeptAtRest
<1>3. ASSUME NEW q \in Requests, RequestStep(q) PROVE Kept(p)'
  <2> USE DEF Typed, TypeOK, WizardTypeOK
  <2>1. CASE p # q
    <3> DEFINE Still == /\ stage'[p] = stage[p] /\ kept'[p] = kept[p]
                        /\ job'[p] = job[p] /\ since'[p] = since[p]
    <3>1. ASSUME NEW written, Rest(q, written) PROVE Still
      BY <2>1, <3>1 DEF Rest
    <3>2. LookUp(q) => Still
      BY <2>1 DEF LookUp
    <3>3. ASSUME NEW j \in Jobs, BeginEdit(q, j) \/ BeginStore(q, j) PROVE Still
      BY <2>1, <3>3 DEF BeginEdit, BeginStore
    <3>4. ASSUME NEW r \in receipts, BeginDelete(q, r) PROVE Still
      BY <2>1, <3>4 DEF BeginDelete
    <3>5. FlushDelete(q) \/ Erase(q) => Still
      BY <2>1 DEF FlushDelete, Erase
    <3>6. Still
      BY <1>3, <3>1, <3>2, <3>3, <3>4, <3>5
         DEF RequestStep, FinishEdit, CommitStore, CommitDelete, Abort
    <3> QED BY <1>1, <3>6, KeptAtRest
  <2>2. CASE p = q /\ LookUp(q)
    BY <1>1, <2>2, LookUpKeeps
  <2>3. ASSUME p = q, NEW written, Rest(q, written) PROVE Kept(p)'
    <3>1. kept'[q] = {}
      BY <2>3 DEF Rest
    <3> QED BY <2>3, <3>1 DEF Kept
  <2>4. CASE /\ p = q /\ stage[q] # "storing" /\ UNCHANGED kept
    BY <1>1, <2>4 DEF Kept
  <2> QED
    BY <1>3, <2>1, <2>2, <2>3, <2>4 DEF RequestStep, BeginEdit, BeginStore, BeginDelete,
       FinishEdit, CommitStore, FlushDelete, Erase, CommitDelete, Abort, Stage, Flushed
<1>4. CASE ReadingStep
  BY <1>2, <1>4, ReadingLeaves
<1> QED
  BY <1>2, <1>3, <1>4 DEF Next, WizardNext, vars

(* Of one delivery: what its lookups did not find is younger than it.       *)
Looked(d) ==
    /\ seen[d] <= commits
    /\ mail[d] = "looked" /\ identity[d] # Unidentified =>
          \A r \in receipts : r.identity = identity[d] => r.commit > seen[d]
    /\ mail[d] \in {"uploaded", "read", "looked"} =>
          \A r \in receipts : r.source = message[d] => r.commit > seen[d]

LEMMA LookedAtRest ==
    ASSUME Typed, Typed', LookedInv, [Next]_vars, NEW d \in Deliveries,
           mail'[d] = mail[d] \/ mail'[d] \in {"over", "lost", "income"},
           message'[d] = message[d], identity'[d] = identity[d], seen'[d] = seen[d]
    PROVE  Looked(d)'
<1>1. seen[d] \in Nat /\ seen[d] <= commits /\ Looked(d)
  BY DEF Typed, TypeOK, MailTypeOK, LookedInv, Looked
<1>2. \A r \in receipts' : r \in receipts \/ r.commit > seen[d]
  BY <1>1, Growth DEF NewRow
<1>3. seen'[d] <= commits'
  BY <1>1, Growth
<1> QED BY <1>1, <1>2, <1>3 DEF Looked

LEMMA StepLooked ==
    ASSUME Typed, Typed', LookedInv, [Next]_vars PROVE LookedInv'
<1> USE DEF Move
<1> SUFFICES ASSUME NEW p \in Deliveries PROVE Looked(p)'
  BY DEF LookedInv, Looked
<1>0. Looked(p)
  BY DEF LookedInv, Looked
<1>1. CASE UNCHANGED mailVars
  BY <1>1, LookedAtRest
<1>2. ASSUME NEW d \in Deliveries,
             \/ \E m \in Messages : Deliver(d, m)
             \/ CheckReference(d) \/ ReadReceipt(d) \/ ReadIncome(d) \/ KeepIncome(d)
             \/ LookUpMail(d) \/ StoreMail(d) \/ Lose(d)
      PROVE  Looked(p)'
  <2> USE DEF Typed, TypeOK, MailTypeOK, SharedTypeOK
  <2>1. CASE p # d
    <3>1. /\ mail'[p] = mail[p] /\ message'[p] = message[p]
          /\ identity'[p] = identity[p] /\ seen'[p] = seen[p]
      BY <1>2, <2>1 DEF Deliver, CheckReference, ReadReceipt, ReadIncome, KeepIncome,
                        LookUpMail, StoreMail, Lose
    <3> QED BY <3>1, LookedAtRest
  <2>2. CASE p = d /\ \E m \in Messages : Deliver(d, m)
    BY <1>0, <2>2 DEF Deliver, Looked
  <2>3. CASE p = d /\ CheckReference(d)
    BY <1>0, <2>3 DEF CheckReference, Looked, Referenced
  <2>4. CASE p = d /\ ReadReceipt(d)
    BY <1>0, <2>4 DEF ReadReceipt, Looked
  <2>5. CASE p = d /\ LookUpMail(d)
    BY <1>0, <2>5 DEF LookUpMail, Looked, Stored
  <2>6. CASE p = d /\ (ReadIncome(d) \/ KeepIncome(d) \/ StoreMail(d) \/ Lose(d))
    <3>1. /\ mail'[d] \in {"over", "lost", "income"} /\ message'[d] = message[d]
          /\ identity'[d] = identity[d] /\ seen'[d] = seen[d]
      BY <2>6 DEF ReadIncome, KeepIncome, StoreMail, Lose
    <3> QED BY <2>6, <3>1, LookedAtRest
  <2> QED BY <1>2, <2>1, <2>2, <2>3, <2>4, <2>5, <2>6
<1> QED
  BY <1>1, <1>2 DEF Next, MailNext, vars

LEMMA InitNoOlder == Init => NoOlder
BY DEF Init, SharedInit, WizardInit, MailInit, NoOlder, RowsInv, KeptInv, LookedInv

(* What a row shows of the request that stores it.                          *)
LEMMA RowFields ==
    \A q \in Requests : \A n \in kept[q] :
        /\ Row(q, n).source = <<job[q], n>>
        /\ Row(q, n).identity = Identity(<<job[q], n>>)
        /\ Row(q, n).commit = commits + 1
        /\ Row(q, n).began = since[q]
BY DEF Row

(* What a commit adds overlapped with every twin it finds in the table.     *)
LEMMA StepTwins ==
    ASSUME Typed, Typed', NoOlder, [Next]_vars, TwinsOnlyFromOverlap
    PROVE  TwinsOnlyFromOverlap'
<1> SUFFICES ASSUME NEW r \in receipts', NEW s \in receipts', r # s,
                    r.identity = s.identity, r.identity # Unidentified
             PROVE  r.commit # s.commit /\ r.commit > s.began
  BY DEF TwinsOnlyFromOverlap, Twins
<1>1. CASE r \in receipts /\ s \in receipts
  <2>1. <<r, s>> \in Twins
    BY <1>1 DEF Twins
  <2> QED BY <2>1 DEF TwinsOnlyFromOverlap
<1>2. ASSUME NEW q \in Requests, CommitStore(q) PROVE r.commit # s.commit /\ r.commit > s.began
  <2>1. \A t \in receipts' : t \in receipts \/
            \E n \in kept[q] : t = Row(q, n)
    BY <1>2 DEF CommitStore, Store
  <2>2. CASE r \in receipts /\ s \notin receipts
    <3>1. PICK n \in kept[q] : s = Row(q, n)
      BY <2>1, <2>2
    <3>2. s.identity = Identity(<<job[q], n>>) /\ s.commit = commits + 1 /\ s.began = since[q]
      BY <3>1, RowFields
    <3>3. r.commit > since[q]
      BY <2>2, <3>1, <3>2 DEF NoOlder, KeptInv
    <3>4. r.commit \in Nat /\ r.commit <= commits /\ commits \in Nat
      BY <2>2, RowNumbers DEF NoOlder, RowsInv, Typed, TypeOK, SharedTypeOK
    <3> QED BY <3>2, <3>3, <3>4
  <2>3. CASE r \notin receipts /\ s \in receipts
    <3>1. PICK n \in kept[q] : r = Row(q, n)
      BY <2>1, <2>3
    <3>2. r.commit = commits + 1
      BY <3>1, RowFields
    <3>3. /\ s.commit \in Nat /\ s.began \in Nat /\ commits \in Nat
          /\ s.commit <= commits /\ s.began < s.commit
      BY <2>3, RowNumbers DEF NoOlder, RowsInv, Typed, TypeOK, SharedTypeOK
    <3> QED BY <3>2, <3>3
  <2>4. CASE r \notin receipts /\ s \notin receipts
    <3>1. PICK n \in kept[q] : r = Row(q, n)
      BY <2>1, <2>4
    <3>2. PICK m \in kept[q] : s = Row(q, m)
      BY <2>1, <2>4
    <3>3. Identity(<<job[q], m>>) = Identity(<<job[q], n>>)
      BY <3>1, <3>2, RowFields
    <3>4. Identity(<<job[q], n>>) # Unidentified
      BY <3>1, RowFields
    <3>5. m = n
      BY <3>3, <3>4 DEF NoOlder, KeptInv
    <3> QED BY <3>1, <3>2, <3>5
  <2> QED BY <1>1, <2>2, <2>3, <2>4
<1>3. ASSUME NEW d \in Deliveries, StoreMail(d) PROVE r.commit # s.commit /\ r.commit > s.began
  <2>1. mail[d] = "looked" /\
        \A t \in receipts' : t \in receipts \/
          t = [source |-> message[d], identity |-> identity[d], photo |-> d,
               commit |-> commits + 1, began |-> seen[d]]
    BY <1>3 DEF StoreMail, Store, Move
  <2>2. CASE r \in receipts /\ s \notin receipts
    BY <2>1, <2>2, RowNumbers, Growth DEF NoOlder, RowsInv, LookedInv
  <2>3. CASE r \notin receipts /\ s \in receipts
    BY <2>1, <2>3, RowNumbers, Growth DEF NoOlder, RowsInv
  <2> QED BY <1>1, <2>1, <2>2, <2>3
<1>4. CASE receipts' \subseteq receipts
  BY <1>1, <1>4
<1> QED BY <1>2, <1>3, <1>4, OnlyStoresGrow

(* The same of two receipts of one message: only StoreMail makes those.     *)
LEMMA StepAgain ==
    ASSUME Typed, Typed', NoOlder, [Next]_vars, AgainOnlyFromOverlap
    PROVE  AgainOnlyFromOverlap'
<1> SUFFICES ASSUME NEW r \in receipts', NEW s \in receipts', r # s,
                    r.source = s.source, r.source \in Messages
             PROVE  r.commit > s.began
  BY DEF AgainOnlyFromOverlap, Emailed
<1>1. CASE r \in receipts /\ s \in receipts
  BY <1>1 DEF AgainOnlyFromOverlap, Emailed
<1>2. ASSUME NEW q \in Requests, CommitStore(q) PROVE r.commit > s.began
  <2>1. kept[q] # {} => job[q] \in Jobs
    BY <1>2 DEF Typed, RequestInv, CommitStore
  <2>2. kept[q] \subseteq Indices
    BY DEF Typed, TypeOK, WizardTypeOK
  <2>3. \A t \in receipts' : t \in receipts \/ t.source \in Extractions
    <3> SUFFICES ASSUME NEW t \in receipts', t \notin receipts PROVE t.source \in Extractions
      OBVIOUS
    <3>1. PICK n \in kept[q] : t = Row(q, n)
      BY <1>2 DEF CommitStore, Store
    <3>2. t.source = <<job[q], n>>
      BY <3>1, RowFields
    <3> QED BY <2>1, <2>2, <3>2 DEF Extractions
  <2> QED BY <1>1, <2>3, SourcesAssumption
<1>3. ASSUME NEW d \in Deliveries, StoreMail(d) PROVE r.commit > s.began
  <2>1. mail[d] = "looked" /\
        \A t \in receipts' : t \in receipts \/
          t = [source |-> message[d], identity |-> identity[d], photo |-> d,
               commit |-> commits + 1, began |-> seen[d]]
    BY <1>3 DEF StoreMail, Store, Move
  <2>2. CASE r \in receipts /\ s \notin receipts
    BY <2>1, <2>2, RowNumbers, Growth DEF NoOlder, LookedInv
  <2>3. CASE r \notin receipts /\ s \in receipts
    BY <2>1, <2>3, RowNumbers, Growth DEF NoOlder, RowsInv
  <2> QED BY <1>1, <2>1, <2>2, <2>3
<1>4. CASE receipts' \subseteq receipts
  BY <1>1, <1>4
<1> QED BY <1>2, <1>3, <1>4, OnlyStoresGrow

LEMMA StepNoOlder ==
    ASSUME Typed, Typed', NoOlder, [Next]_vars PROVE NoOlder'
BY StepRows, StepKept, StepLooked DEF NoOlder

(* Two receipts with one fiscal identity are always of two intakes that     *)
(* overlapped: neither was in the table when the other began.               *)
THEOREM TwinsNeedOverlap == Spec => []TwinsOnlyFromOverlap
<1> DEFINE IInv == NoOlder /\ TwinsOnlyFromOverlap
<1>1. Init => IInv
  BY InitNoOlder DEF Init, SharedInit, TwinsOnlyFromOverlap, Twins
<1>2. Typed /\ Typed' /\ IInv /\ [Next]_vars => IInv'
  BY StepNoOlder, StepTwins
<1>3. IInv => TwinsOnlyFromOverlap
  OBVIOUS
<1> QED BY AlwaysTyped, <1>1, <1>2, <1>3, PTL DEF Spec

(* Two receipts of one message are always of two deliveries that            *)
(* overlapped.                                                              *)
THEOREM AgainNeedsOverlap == Spec => []AgainOnlyFromOverlap
<1> DEFINE IInv == NoOlder /\ AgainOnlyFromOverlap
<1>1. Init => IInv
  BY InitNoOlder DEF Init, SharedInit, AgainOnlyFromOverlap, Emailed
<1>2. Typed /\ Typed' /\ IInv /\ [Next]_vars => IInv'
  BY StepNoOlder, StepAgain
<1>3. IInv => AgainOnlyFromOverlap
  OBVIOUS
<1> QED BY AlwaysTyped, <1>1, <1>2, <1>3, PTL DEF Spec

(***************************************************************************)
(* The photos                                                              *)
(***************************************************************************)

(* The photos of an upload come into storage while its task lives, that of  *)
(* a delivery when its task begins; nothing of them is stored as a receipt  *)
(* or deleted before the job is read and the task is over.                  *)
Begun(s) ==
    /\ \A j \in Jobs, n \in Indices : s = <<j, n>> => j \in Read
    /\ s \in Deliveries => mail[s] = "over"

Deleting(q) == stage[q] \in {"deleting"} \cup Flushed
OfTask == {"uploaded", "read", "looked", "lost", "dropped"}

RowsBegun == \A r \in receipts : Begun(r.photo) /\ Begun(r.source) /\ r.photo \in carried
VictimsBegun ==
    \A q \in Requests : Deleting(q) =>
        Begun(victim[q].photo) /\ Begun(victim[q].source) /\ victim[q].photo \in carried
CarriedBegun == \A p \in carried : Begun(p)
JobsBegun ==
    /\ \A j \in Jobs : readings[j] # Nothing \/ j \in named => j \in Read
    /\ \A q \in Requests : Working(q) => job[q] \in Read
    /\ \A j \in running : j \notin Read
ErasedGone == \A q \in Requests : stage[q] = "erased" => victim[q].photo \notin photos
MailKept ==
    \A d \in Deliveries : d \in photos =>
        mail[d] \in OfTask \/ (\E r \in receipts : r.photo = d) \/ d \in strayed
CarriedKept ==
    \A p \in carried : p \in photos => (\E r \in receipts : r.photo = p) \/ p \in strayed

PhotoInv == /\ RowsBegun /\ VictimsBegun /\ CarriedBegun /\ JobsBegun
            /\ ErasedGone /\ MailKept /\ CarriedKept

(* What a request gives up, with no other touched.                          *)
LEMMA RestOnly ==
    ASSUME Typed, NEW q \in Requests, NEW written, Rest(q, written)
    PROVE  /\ stage'[q] = "idle"
           /\ \A p \in Requests \ {q} :
                 /\ stage'[p] = stage[p] /\ job'[p] = job[p] /\ copy'[p] = copy[p]
                 /\ todo'[p] = todo[p] /\ kept'[p] = kept[p] /\ since'[p] = since[p]
                 /\ victim'[p] = victim[p]
BY DEF Rest, Typed, TypeOK, WizardTypeOK

(* A job is not read twice, and a delivery's task does not end twice.       *)
LEMMA BegunStays ==
    ASSUME Typed, JobsBegun, [Next]_vars
    PROVE  /\ \A j \in Read : j \in Read'
           /\ \A d \in Deliveries : mail[d] = "over" => mail'[d] = "over"
           /\ \A s : Begun(s) => Begun(s)'
<1> USE DEF Typed, TypeOK, WizardTypeOK, MailTypeOK, Move
<1>1. \A j \in Read : j \in Read'
  <2>1. ASSUME NEW j \in Jobs, ReadJob(j) PROVE \A i \in Read : i \in Read'
    BY <2>1 DEF ReadJob, Read
  <2>2. ASSUME NEW j \in Jobs, FailJob(j) PROVE \A i \in Read : i \in Read'
    BY <2>2 DEF FailJob, Read, JobsBegun
  <2>3. CASE SweepJobs
    BY <2>3 DEF SweepJobs, Read
  <2>4. ASSUME NEW q \in Requests, CommitStore(q) PROVE \A i \in Read : i \in Read'
    BY <2>4 DEF CommitStore, Read
  <2>5. ASSUME NEW j \in Jobs, LoseJob(j) \/ \E n \in Indices : StorePhoto(j, n)
        PROVE  status' = status
    BY <2>5 DEF LoseJob, StorePhoto
  <2>6. ASSUME NEW q \in Requests, RequestStep(q), ~CommitStore(q) PROVE status' = status
    BY <2>6 DEF RequestStep, BeginEdit, BeginStore, BeginDelete, FinishEdit, LookUp,
                FlushDelete, Erase, CommitDelete, Abort
  <2>7. status' = status => Read' = Read
    BY DEF Read
  <2> QED BY <2>1, <2>2, <2>3, <2>4, <2>5, <2>6, <2>7 DEF Next, WizardNext, ReadingStep, vars
<1>2. \A d \in Deliveries : mail[d] = "over" => mail'[d] = "over"
  <2>1. ASSUME NEW d \in Deliveries,
               \/ \E m \in Messages : Deliver(d, m)
               \/ CheckReference(d) \/ ReadReceipt(d) \/ ReadIncome(d) \/ KeepIncome(d)
               \/ LookUpMail(d) \/ StoreMail(d) \/ Lose(d)
        PROVE  mail[d] # "over" /\ \A e \in Deliveries \ {d} : mail'[e] = mail[e]
    BY <2>1 DEF Deliver, CheckReference, ReadReceipt, ReadIncome, KeepIncome, LookUpMail,
                StoreMail, Lose
  <2> QED BY <2>1 DEF Next, MailNext, vars
<1>3. \A s : Begun(s) => Begun(s)'
  BY <1>1, <1>2 DEF Begun
<1> QED BY <1>1, <1>2, <1>3

(* What a step may do to the requests.  A deletion has been one, of the     *)
(* same receipt, or begins with a stored one; an edit or a commit has been  *)
(* one, of the same job, or begins with a job that is read.  Photos that    *)
(* are erased are those of a deletion under way.                            *)
LEMMA RequestsMove ==
    ASSUME Typed, [Next]_vars, NEW q \in Requests
    PROVE  /\ Deleting(q)' => \/ Deleting(q) /\ victim'[q] = victim[q]
                              \/ victim'[q] \in receipts
           /\ Working(q)' => \/ Working(q) /\ job'[q] = job[q]
                             \/ job'[q] \in Jobs /\ readings[job'[q]] # Nothing
           /\ stage'[q] = "erased" => victim'[q] = victim[q] /\
                 (stage[q] = "erased" \/ (stage[q] = "erasing" /\ victim[q].photo \notin photos'))
<1> USE DEF Deleting, Working
<1>1. ASSUME NEW p \in Requests, RequestStep(p)
      PROVE  /\ Deleting(q)' => \/ Deleting(q) /\ victim'[q] = victim[q]
                                \/ victim'[q] \in receipts
             /\ Working(q)' => \/ Working(q) /\ job'[q] = job[q]
                               \/ job'[q] \in Jobs /\ readings[job'[q]] # Nothing
             /\ stage'[q] = "erased" => victim'[q] = victim[q] /\
                   (stage[q] = "erased" \/ (stage[q] = "erasing" /\ victim[q].photo \notin photos'))
  <2> USE DEF Typed, TypeOK, WizardTypeOK
  <2>1. ASSUME NEW written, Rest(p, written)
        PROVE  \/ stage'[q] = stage[q] /\ job'[q] = job[q] /\ victim'[q] = victim[q]
               \/ stage'[q] = "idle"
    BY <2>1, RestOnly
  <2>2. CASE \E j \in Jobs : BeginEdit(p, j) \/ BeginStore(p, j)
    BY <2>2 DEF BeginEdit, BeginStore
  <2>3. CASE \E r \in receipts : BeginDelete(p, r)
    BY <2>3 DEF BeginDelete
  <2>4. CASE LookUp(p)
    BY <2>4 DEF LookUp
  <2>5. CASE FlushDelete(p)
    BY <2>5 DEF FlushDelete
  <2>6. CASE Erase(p)
    BY <2>6 DEF Erase
  <2> QED
    BY <1>1, <2>1, <2>2, <2>3, <2>4, <2>5, <2>6
       DEF RequestStep, FinishEdit, CommitStore, CommitDelete, Abort
<1>2. CASE UNCHANGED requestVars
  BY <1>2
<1> QED BY <1>1, <1>2, ReadingLeaves DEF Next, WizardNext, vars

(* The receipts a step adds are of a job that is read or of a message whose *)
(* task is over.                                                            *)
LEMMA NewRowsBegun ==
    ASSUME Typed, [Next]_vars, JobsBegun, NEW r \in receipts', r \notin receipts
    PROVE  Begun(r.photo)' /\ Begun(r.source)' /\ r.photo \in carried'
<1>0. r.photo \in carried'
  <2>1. ASSUME NEW q \in Requests, CommitStore(q) PROVE r.photo \in carried'
    <3>1. PICK rows : receipts' = receipts \cup rows /\ carried' = carried \cup {x.photo : x \in rows}
      BY <2>1 DEF CommitStore, Store
    <3> QED BY <3>1
  <2>2. ASSUME NEW d \in Deliveries, StoreMail(d) PROVE r.photo \in carried'
    <3>1. PICK rows : receipts' = receipts \cup rows /\ carried' = carried \cup {x.photo : x \in rows}
      BY <2>2 DEF StoreMail, Store
    <3> QED BY <3>1
  <2> QED BY <2>1, <2>2, OnlyStoresGrow
<1>1. ASSUME NEW q \in Requests, CommitStore(q) PROVE Begun(r.photo)' /\ Begun(r.source)'
  <2>1. PICK n \in kept[q] : r = Row(q, n)
    BY <1>1 DEF CommitStore, Store
  <2>2. r.source = <<job[q], n>> /\ r.photo \in {<<job[q], n>>, NoPhoto}
    BY <2>1 DEF Row
  <2>3. job[q] \in Read /\ job[q] \in Jobs /\ n \in Indices
    BY <1>1 DEF CommitStore, Typed, TypeOK, WizardTypeOK, RequestInv, JobsBegun, Working
  <2>4. <<job[q], n>> \in Sources /\ <<job[q], n>> \in Photos
    BY <2>3 DEF Sources, Photos, Extractions
  <2>5. Begun(<<job[q], n>>)
    BY <2>3, <2>4, PhotosAssumption DEF Begun
  <2>6. Begun(NoPhoto)
    BY PhotosAssumption DEF Begun, Photos, Extractions
  <2> QED BY <2>2, <2>5, <2>6, BegunStays
<1>2. ASSUME NEW d \in Deliveries, StoreMail(d) PROVE Begun(r.photo)' /\ Begun(r.source)'
  <2>1. r.source = message[d] /\ r.photo = d
    BY <1>2 DEF StoreMail, Store
  <2>2. mail'[d] = "over" /\ message[d] \in Messages
    BY <1>2 DEF StoreMail, Move, Typed, TypeOK, MailTypeOK, MailInv
  <2>3. Begun(d)'
    BY <2>2, PhotosAssumption DEF Begun, Sources, Extractions
  <2>4. Begun(r.source)'
    BY <2>1, <2>2, PhotosAssumption, SourcesAssumption DEF Begun, Sources, Extractions
  <2>5. Begun(r.photo)'
    BY <2>1, <2>3
  <2> QED BY <2>4, <2>5
<1>3. ASSUME receipts' \subseteq receipts PROVE FALSE
  BY <1>3
<1> QED BY <1>0, <1>1, <1>2, <1>3, OnlyStoresGrow

(* The photos a step adds are of a job whose task lives, or of a delivery   *)
(* whose task begins: of nothing that was stored.                           *)
LEMMA NewPhotos ==
    ASSUME Typed, JobsBegun, [Next]_vars, NEW p \in photos', p \notin photos
    PROVE  /\ \/ \E j \in Jobs, n \in Indices : p = <<j, n>> /\ j \notin Read
              \/ p \in Deliveries /\ mail[p] = "accepted" /\ mail'[p] \in OfTask
           /\ ~Begun(p)
<1>1. CASE ReadingStep
  <2>1. PICK j \in Jobs, n \in Indices : StorePhoto(j, n)
    BY <1>1 DEF ReadingStep, ReadJob, FailJob, LoseJob, SweepJobs
  <2> QED BY <2>1 DEF StorePhoto, JobsBegun, Begun
<1>2. ASSUME NEW q \in Requests, RequestStep(q) PROVE photos' \subseteq photos
  BY <1>2 DEF RequestStep, BeginEdit, BeginStore, BeginDelete, FinishEdit, LookUp, CommitStore,
              FlushDelete, Erase, CommitDelete, Abort, Store
<1>3. ASSUME NEW d \in Deliveries, CheckReference(d)
      PROVE  p \in Deliveries /\ mail[p] = "accepted" /\ mail'[p] \in OfTask
  BY <1>3 DEF CheckReference, Move, OfTask, Typed, TypeOK, MailTypeOK
<1>4. ASSUME NEW d \in Deliveries,
             \/ \E m \in Messages : Deliver(d, m)
             \/ ReadReceipt(d) \/ ReadIncome(d) \/ KeepIncome(d)
             \/ LookUpMail(d) \/ StoreMail(d) \/ Lose(d)
      PROVE  photos' \subseteq photos
  BY <1>4 DEF Deliver, ReadReceipt, ReadIncome, KeepIncome, LookUpMail, StoreMail, Lose, Store
<1> QED BY <1>1, <1>2, <1>3, <1>4 DEF Next, WizardNext, MailNext, vars, Begun

(* A photo that has been carried stays so; a new one is of a row stored.    *)
LEMMA CarriedGrows ==
    ASSUME [Next]_vars
    PROVE  carried \subseteq carried' /\ \A p \in carried' : p \in carried \/ \E r \in receipts' : r.photo = p
<1>1. ASSUME NEW q \in Requests, CommitStore(q)
      PROVE  carried \subseteq carried' /\ \A p \in carried' : p \in carried \/ \E r \in receipts' : r.photo = p
  BY <1>1 DEF CommitStore, Store
<1>2. ASSUME NEW d \in Deliveries, StoreMail(d)
      PROVE  carried \subseteq carried' /\ \A p \in carried' : p \in carried \/ \E r \in receipts' : r.photo = p
  BY <1>2 DEF StoreMail, Store
<1>3. ASSUME NEW q \in Requests, RequestStep(q), ~CommitStore(q) PROVE carried' = carried
  BY <1>3 DEF RequestStep, BeginEdit, BeginStore, BeginDelete, FinishEdit, LookUp,
              FlushDelete, Erase, CommitDelete, Abort
<1>4. ASSUME NEW d \in Deliveries,
             \/ \E m \in Messages : Deliver(d, m)
             \/ CheckReference(d) \/ ReadReceipt(d) \/ ReadIncome(d) \/ KeepIncome(d)
             \/ LookUpMail(d) \/ Lose(d)
      PROVE  carried' = carried
  BY <1>4 DEF Deliver, CheckReference, ReadReceipt, ReadIncome, KeepIncome, LookUpMail, Lose
<1> QED BY <1>1, <1>2, <1>3, <1>4, ReadingLeaves DEF Next, WizardNext, MailNext, vars

LEMMA RowsStep ==
    ASSUME Typed, [Next]_vars, JobsBegun, RowsBegun, VictimsBegun, CarriedBegun
    PROVE  RowsBegun' /\ VictimsBegun' /\ CarriedBegun'
<1>1. RowsBegun'
  BY CarriedGrows, BegunStays, NewRowsBegun DEF RowsBegun
<1>2. ASSUME NEW q \in Requests, Deleting(q)'
      PROVE  (Begun(victim[q].photo) /\ Begun(victim[q].source))' /\ victim'[q].photo \in carried'
  <2>1. PICK v : v = victim'[q]
    OBVIOUS
  <2>2. Begun(v.photo) /\ Begun(v.source) /\ v.photo \in carried
    BY <1>2, <2>1, RequestsMove DEF RowsBegun, VictimsBegun
  <2>3. Begun(v.photo)' /\ Begun(v.source)'
    BY <2>2, BegunStays
  <2> QED BY CarriedGrows, <2>1, <2>2, <2>3 DEF Begun
<1>3. CarriedBegun'
  BY <1>1, CarriedGrows, BegunStays DEF CarriedBegun, RowsBegun
<1> QED BY <1>1, <1>2, <1>3 DEF VictimsBegun

LEMMA JobsStep ==
    ASSUME Typed, [Next]_vars, JobsBegun
    PROVE  JobsBegun'
<1> USE DEF Typed, TypeOK, WizardTypeOK
<1>1. ASSUME NEW j \in Jobs, readings'[j] # Nothing \/ j \in named', j \notin Read'
      PROVE  FALSE
  <2>1. j \notin Read /\ readings[j] = Nothing /\ j \notin named
    BY <1>1, BegunStays DEF JobsBegun
  <2>2. ASSUME NEW i \in Jobs, ReadJob(i) PROVE FALSE
    BY <2>1, <2>2, <1>1 DEF ReadJob, Read
  <2>3. ASSUME NEW q \in Requests, FinishEdit(q) PROVE FALSE
    BY <2>1, <2>3, <1>1 DEF FinishEdit, RequestInv, JobsBegun, Working
  <2>4. ASSUME NEW q \in Requests, CommitDelete(q) PROVE FALSE
    BY <2>1, <2>4, <1>1 DEF CommitDelete
  <2>5. ASSUME NEW q \in Requests, RequestStep(q), ~FinishEdit(q), ~CommitDelete(q) PROVE FALSE
    BY <2>1, <2>5, <1>1 DEF RequestStep, BeginEdit, BeginStore, BeginDelete, LookUp, CommitStore,
                            FlushDelete, Erase, Abort
  <2>6. ASSUME NEW i \in Jobs, FailJob(i) \/ LoseJob(i) \/ \E n \in Indices : StorePhoto(i, n) PROVE FALSE
    BY <2>1, <2>6, <1>1 DEF FailJob, LoseJob, StorePhoto
  <2>7. CASE SweepJobs
    BY <2>1, <2>7, <1>1 DEF SweepJobs
  <2> QED
    BY <2>1, <2>2, <2>3, <2>4, <2>5, <2>6, <2>7, <1>1 DEF Next, WizardNext, ReadingStep, vars
<1>2. ASSUME NEW q \in Requests, Working(q)' PROVE job'[q] \in Read'
  <2>1. job'[q] \in Read
    BY <1>2, RequestsMove DEF JobsBegun
  <2> QED BY <2>1, BegunStays
<1>3. ASSUME NEW j \in running' PROVE j \notin Read'
  <2>1. ASSUME NEW i \in Jobs, ReadJob(i) \/ FailJob(i) PROVE j \notin Read'
    BY <2>1, <1>3 DEF ReadJob, FailJob, Read, JobsBegun
  <2>2. CASE SweepJobs
    BY <2>2, <1>3 DEF SweepJobs, Read, JobsBegun
  <2>3. ASSUME NEW i \in Jobs, LoseJob(i) \/ \E n \in Indices : StorePhoto(i, n) PROVE j \notin Read'
    BY <2>3, <1>3 DEF LoseJob, StorePhoto, Read, JobsBegun
  <2>4. ASSUME NEW q \in Requests, CommitStore(q) PROVE j \notin Read'
    <3>1. job[q] \in Read /\ running' = running
      BY <2>4 DEF CommitStore, JobsBegun, Working
    <3> QED BY <2>4, <3>1, <1>3 DEF CommitStore, Read, JobsBegun
  <2>5. ASSUME NEW q \in Requests, RequestStep(q), ~CommitStore(q)
        PROVE  running' = running /\ status' = status
    BY <2>5 DEF RequestStep, BeginEdit, BeginStore, BeginDelete, FinishEdit, LookUp,
                FlushDelete, Erase, CommitDelete, Abort
  <2>6. running' = running /\ status' = status => j \notin Read'
    BY <1>3 DEF Read, JobsBegun
  <2> QED BY <2>1, <2>2, <2>3, <2>4, <2>5, <2>6 DEF Next, WizardNext, ReadingStep, vars
<1> QED BY <1>1, <1>2, <1>3 DEF JobsBegun

(* What a step adds to storage is not yet anything's photo.                 *)
LEMMA ErasedStep ==
    ASSUME Typed, [Next]_vars, JobsBegun, VictimsBegun, ErasedGone
    PROVE  ErasedGone'
<1> SUFFICES ASSUME NEW q \in Requests, stage'[q] = "erased", victim'[q].photo \in photos'
             PROVE  FALSE
  BY DEF ErasedGone
<1>1. victim'[q] = victim[q] /\ stage[q] = "erased"
  BY RequestsMove
<1>2. victim[q].photo \notin photos /\ Begun(victim[q].photo)
  BY <1>1 DEF ErasedGone, VictimsBegun, Deleting
<1> QED BY <1>1, <1>2, NewPhotos

(* A photo in storage is given up by its receipt only when it is erased or  *)
(* has failed to be.                                                        *)
LEMMA RowOrStray ==
    ASSUME Typed, [Next]_vars, ErasedGone, NEW p \in photos,
           (\E r \in receipts : r.photo = p) \/ p \in strayed
    PROVE  (\E r \in receipts' : r.photo = p) \/ p \in strayed'
<1>1. ASSUME NEW q \in Requests, CommitDelete(q)
      PROVE  (\E r \in receipts' : r.photo = p) \/ p \in strayed'
  <2>1. stage[q] = "erased" => victim[q].photo # p
    BY DEF ErasedGone
  <2>2. stage[q] = "unerased" => victim[q].photo \in strayed'
    BY <1>1 DEF CommitDelete
  <2>3. /\ receipts' = receipts \ {victim[q]} /\ stage[q] \in {"erased", "unerased"}
        /\ strayed \subseteq strayed'
    BY <1>1 DEF CommitDelete
  <2> QED BY <2>1, <2>2, <2>3
<1>2. ASSUME NEW q \in Requests, RequestStep(q), ~CommitDelete(q)
      PROVE  strayed' = strayed /\ receipts \subseteq receipts'
  BY <1>2 DEF RequestStep, BeginEdit, BeginStore, BeginDelete, FinishEdit, LookUp, CommitStore,
              FlushDelete, Erase, Abort, Store
<1>3. MailNext => receipts \subseteq receipts'
  BY DEF MailNext, Deliver, CheckReference, ReadReceipt, ReadIncome, KeepIncome, LookUpMail,
         StoreMail, Lose, Store
<1> QED BY <1>1, <1>2, <1>3, ReadingLeaves DEF Next, WizardNext, vars

LEMMA CarriedKeptStep ==
    ASSUME Typed, [Next]_vars, JobsBegun, RowsBegun, VictimsBegun, CarriedBegun, ErasedGone, CarriedKept
    PROVE  CarriedKept'
<1> SUFFICES ASSUME NEW p \in carried', p \in photos'
             PROVE  (\E r \in receipts' : r.photo = p) \/ p \in strayed'
  BY DEF CarriedKept
<1>1. CASE p \in carried
  <2>1. p \in photos
    BY <1>1, NewPhotos DEF CarriedBegun
  <2> QED BY <1>1, <2>1, RowOrStray DEF CarriedKept
<1>2. CASE p \notin carried
  <2>1. \E r \in receipts' : r.photo = p
    BY <1>2, CarriedGrows
  <2> QED BY <2>1
<1> QED BY <1>1, <1>2

(* The photo of a delivery stays accounted for: a receipt takes it over     *)
(* when its task ends well.                                                 *)
LEMMA MailKeptStep ==
    ASSUME Typed, [Next]_vars, JobsBegun, ErasedGone, MailKept
    PROVE  MailKept'
<1> USE DEF Typed, TypeOK, WizardTypeOK, MailTypeOK
<1> SUFFICES ASSUME NEW d \in Deliveries, d \in photos'
             PROVE  mail'[d] \in OfTask \/ (\E r \in receipts' : r.photo = d) \/ d \in strayed'
  BY DEF MailKept
<1>1. CASE d \notin photos
  <2>1. d \notin Sources
    BY PhotosAssumption
  <2> QED BY <1>1, <2>1, NewPhotos DEF Sources, Extractions
<1>2. CASE d \in photos /\ mail[d] \notin OfTask
  BY <1>2, RowOrStray DEF MailKept
<1>3. CASE d \in photos /\ mail[d] \in OfTask
  <2>1. ASSUME NEW e \in Deliveries,
               \/ \E m \in Messages : Deliver(e, m)
               \/ CheckReference(e) \/ ReadReceipt(e) \/ ReadIncome(e) \/ KeepIncome(e)
               \/ LookUpMail(e) \/ StoreMail(e) \/ Lose(e),
               mail'[d] \notin OfTask
        PROVE  \E r \in receipts' : r.photo = d
    <3>1. e = d
      BY <1>3, <2>1 DEF Deliver, CheckReference, ReadReceipt, ReadIncome, KeepIncome,
                        LookUpMail, StoreMail, Lose, Move
    <3>2. CASE StoreMail(d)
      <4> DEFINE r == [source |-> message[d], identity |-> identity[d], photo |-> d,
                       commit |-> commits + 1, began |-> seen[d]]
      <4>1. r \in receipts' /\ r.photo = d
        BY <3>2 DEF StoreMail, Store
      <4> QED BY <4>1
    <3>3. CASE ReadIncome(d)
      BY <3>3, <1>3, PhotosAssumption DEF ReadIncome
    <3>4. CASE ReadReceipt(d) \/ LookUpMail(d) \/ Lose(d)
      BY <2>1, <3>4 DEF ReadReceipt, LookUpMail, Lose, Move, OfTask
    <3>5. CASE (\E m \in Messages : Deliver(d, m)) \/ CheckReference(d) \/ KeepIncome(d)
      BY <1>3, <3>5 DEF Deliver, CheckReference, KeepIncome, Move, OfTask
    <3> QED BY <2>1, <3>1, <3>2, <3>3, <3>4, <3>5
  <2>2. UNCHANGED mailVars => mail'[d] \in OfTask
    BY <1>3
  <2> QED BY <2>1, <2>2 DEF Next, MailNext, vars
<1> QED BY <1>1, <1>2, <1>3

LEMMA InitPhotoInv == Init => PhotoInv
<1> SUFFICES ASSUME Init PROVE PhotoInv
  OBVIOUS
<1>1. receipts = {} /\ photos = {} /\ named = {} /\ carried = {} /\ Read = {}
  BY DEF Init, SharedInit, WizardInit, Read
<1>2. \A q \in Requests : stage[q] = "idle"
  BY DEF Init, WizardInit
<1>3. \A j \in Jobs : readings[j] = Nothing
  BY DEF Init, WizardInit
<1> QED BY <1>1, <1>2, <1>3
        DEF PhotoInv, RowsBegun, VictimsBegun, CarriedBegun, JobsBegun, ErasedGone, MailKept,
            CarriedKept, Deleting, Working

LEMMA StepPhotoInv == Typed /\ PhotoInv /\ [Next]_vars => PhotoInv'
BY RowsStep, JobsStep, ErasedStep, MailKeptStep, CarriedKeptStep DEF PhotoInv

(* Every photo in storage is a receipt's, a job's or that of a message      *)
(* being read, or strayed in one of the ways the code knows of              *)
(* (docs/adr/0007-receipt-deletion-is-a-hard-delete.md): for any number of  *)
(* uploads, failures, messages, edits, commits and deletions at once.       *)
THEOREM NoUnknownStrays == Spec => []StraysAreKnown
<1>1. Typed /\ PhotoInv => StraysAreKnown
  <2> SUFFICES ASSUME Typed, PhotoInv, NEW p \in photos
               PROVE  \/ p \in {r.photo : r \in receipts} \cup (named \X Indices) \cup strayed
                      \/ p \in ((Jobs \ Read) \X Indices) \cup ((Read \ named) \X Indices \ carried)
                      \/ p \in {d \in Deliveries : mail[d] \in OfTask}
    BY DEF StraysAreKnown, OfTask
  <2>1. CASE p \in Extractions
    <3>1. PICK j \in Jobs, n \in Indices : p = <<j, n>>
      BY <2>1 DEF Extractions
    <3>2. CASE p \in carried
      BY <3>2 DEF PhotoInv, CarriedKept
    <3>3. CASE p \notin carried
      BY <3>1, <3>3
    <3> QED BY <3>2, <3>3
  <2>2. CASE p \in Deliveries
    BY <2>2 DEF PhotoInv, MailKept
  <2> QED BY <2>1, <2>2 DEF Typed, TypeOK, SharedTypeOK, Photos
<1> QED BY AlwaysTyped, InitPhotoInv, StepPhotoInv, <1>1, PTL
        DEF Spec

(***************************************************************************)
(* A deletion erases the photos, where every receipt names its own         *)
(***************************************************************************)

(* No line item is edited, so no reading loses the names of its photos.     *)
NoLineEdits == "line" \notin Edits

Pictured(rs) == \A n \in Indices : rs[n].pictured
AllPictured ==
    /\ \A j \in Jobs : readings[j] # Nothing => Pictured(readings[j])
    /\ \A q \in Requests : Working(q) => Pictured(copy[q])
OwnPhoto(r) == r.source \in Extractions => r.photo = r.source
OwnPhotos ==
    /\ \A r \in receipts : OwnPhoto(r)
    /\ \A q \in Requests : Deleting(q) => OwnPhoto(victim[q])
ErasedInv ==
    \A j \in Jobs, n \in Indices : <<j, n>> \in erased =>
        j \in Read /\ <<j, n>> \notin photos

OwnInv == AllPictured /\ OwnPhotos /\ ErasedInv

(* The edits that are left keep the photos' names.                          *)
LEMMA EditKeepsPicture ==
    ASSUME NoLineEdits, NEW x \in Reading, x.pictured, NEW y \in Edited(x)
    PROVE  y.pictured
<1>1. ASSUME y \in Answered(x) PROVE y.pictured = x.pictured
  BY <1>1 DEF Answered, Reading
<1>2. ASSUME y \in Settled(x) PROVE y.pictured = x.pictured
  BY <1>2 DEF Settled, Reading
<1> QED BY <1>1, <1>2 DEF Edited, NoLineEdits

LEMMA PicturedStep ==
    ASSUME NoLineEdits, Typed, [Next]_vars, AllPictured
    PROVE  AllPictured'
<1> USE DEF Working
<1>1. ASSUME NEW j \in Jobs, ReadJob(j) PROVE AllPictured'
  <2>1. PICK rs \in Readings : readings' = [readings EXCEPT ![j] = rs] /\ Pictured(rs)
    BY <1>1 DEF ReadJob, Pictured
  <2>2. \A i \in Jobs : readings'[i] = IF i = j THEN rs ELSE readings[i]
    BY <2>1 DEF Typed, TypeOK, WizardTypeOK
  <2> QED BY <2>1, <2>2, <1>1 DEF ReadJob, AllPictured, Pictured
<1>2. ASSUME NEW q \in Requests, NEW j \in Jobs, BeginEdit(q, j) PROVE AllPictured'
  <2>1. readings[j] \in Readings /\ Pictured(readings[j])
    BY <1>2 DEF BeginEdit, Typed, TypeOK, WizardTypeOK, AllPictured
  <2> PICK n \in Indices : \E x \in Edited(readings[j][n]) :
            copy' = [copy EXCEPT ![q] = [readings[j] EXCEPT ![n] = x]]
    BY <1>2 DEF BeginEdit
  <2>2. PICK x \in Edited(readings[j][n]) :
            copy' = [copy EXCEPT ![q] = [readings[j] EXCEPT ![n] = x]]
    OBVIOUS
  <2>3. x.pictured
    BY <2>1, <2>2, EditKeepsPicture DEF Readings, Pictured
  <2>4. Pictured([readings[j] EXCEPT ![n] = x])
    BY <2>1, <2>3 DEF Readings, Pictured
  <2>5. \A p \in Requests : copy'[p] = IF p = q THEN [readings[j] EXCEPT ![n] = x] ELSE copy[p]
    BY <2>2 DEF Typed, TypeOK, WizardTypeOK
  <2>6. \A p \in Requests \ {q} : stage'[p] = stage[p]
    BY <1>2 DEF BeginEdit, Typed, TypeOK, WizardTypeOK
  <2>7. readings' = readings
    BY <1>2 DEF BeginEdit
  <2> QED BY <2>4, <2>5, <2>6, <2>7 DEF AllPictured, Pictured
<1>3. ASSUME NEW q \in Requests, NEW j \in Jobs, BeginStore(q, j) PROVE AllPictured'
  <2>1. Pictured(readings[j])
    BY <1>3 DEF BeginStore, AllPictured
  <2>2. /\ copy' = [copy EXCEPT ![q] = readings[j]] /\ readings' = readings
        /\ stage' = [stage EXCEPT ![q] = "storing"]
    BY <1>3 DEF BeginStore
  <2>3. \A p \in Requests : copy'[p] = IF p = q THEN readings[j] ELSE copy[p]
    BY <2>2 DEF Typed, TypeOK, WizardTypeOK
  <2>4. \A p \in Requests \ {q} : stage'[p] = stage[p]
    BY <2>2 DEF Typed, TypeOK, WizardTypeOK
  <2> QED BY <2>1, <2>2, <2>3, <2>4 DEF AllPictured, Pictured
<1>4. ASSUME NEW q \in Requests, FinishEdit(q) PROVE AllPictured'
  <2>1. /\ Pictured(copy[q]) /\ readings' = [readings EXCEPT ![job[q]] = copy[q]]
        /\ Rest(q, {job[q]}) /\ job[q] \in Jobs
    BY <1>4 DEF FinishEdit, AllPictured, Typed, RequestInv
  <2>2. \A i \in Jobs : readings'[i] = IF i = job[q] THEN copy[q] ELSE readings[i]
    BY <2>1 DEF Typed, TypeOK, WizardTypeOK
  <2> QED BY <2>1, <2>2, RestOnly DEF AllPictured, Pictured
<1>5. ASSUME NEW q \in Requests, CommitDelete(q) PROVE AllPictured'
  <2>1. \A i \in Jobs : readings'[i] \in {Nothing, readings[i]}
    BY <1>5 DEF CommitDelete
  <2> QED BY <2>1, <1>5, RestOnly DEF CommitDelete, AllPictured, Pictured
<1>6. ASSUME NEW q \in Requests, CommitStore(q) \/ Abort(q) PROVE AllPictured'
  BY <1>6, RestOnly DEF CommitStore, Abort, AllPictured, Pictured
<1>7. ASSUME NEW q \in Requests,
             (\E r \in receipts : BeginDelete(q, r)) \/ LookUp(q) \/ FlushDelete(q) \/ Erase(q)
      PROVE  AllPictured'
  <2>1. copy' = copy /\ readings' = readings
    BY <1>7 DEF BeginDelete, LookUp, FlushDelete, Erase
  <2>2. \A p \in Requests : Working(p)' => Working(p)
    BY <1>7 DEF BeginDelete, LookUp, FlushDelete, Erase, Typed, TypeOK, WizardTypeOK
  <2> QED BY <2>1, <2>2 DEF AllPictured, Pictured
<1>8. ASSUME UNCHANGED <<readings, requestVars>> PROVE AllPictured'
  BY <1>8 DEF AllPictured, Pictured
<1>9. ASSUME NEW j \in Jobs, (\E n \in Indices : StorePhoto(j, n)) \/ FailJob(j) \/ LoseJob(j)
      PROVE  UNCHANGED <<readings, requestVars>>
  BY <1>9 DEF StorePhoto, FailJob, LoseJob
<1>10. SweepJobs => UNCHANGED <<readings, requestVars>>
  BY DEF SweepJobs
<1> QED
  BY <1>1, <1>2, <1>3, <1>4, <1>5, <1>6, <1>7, <1>8, <1>9, <1>10
     DEF Next, WizardNext, ReadingStep, RequestStep, vars

LEMMA OwnPhotosStep ==
    ASSUME Typed, [Next]_vars, AllPictured, OwnPhotos
    PROVE  OwnPhotos'
<1>1. ASSUME NEW r \in receipts', r \notin receipts PROVE OwnPhoto(r)
  <2>1. ASSUME NEW q \in Requests, CommitStore(q) PROVE OwnPhoto(r)
    <3>1. PICK n \in kept[q] : r = Row(q, n)
      BY <1>1, <2>1 DEF CommitStore, Store
    <3>2. copy[q][n].pictured
      BY <2>1 DEF CommitStore, AllPictured, Pictured, Working, Typed, TypeOK, WizardTypeOK
    <3> QED BY <3>1, <3>2 DEF Row, OwnPhoto
  <2>2. ASSUME NEW d \in Deliveries, StoreMail(d) PROVE OwnPhoto(r)
    <3>1. r.source = message[d] /\ message[d] \in Messages
      BY <1>1, <2>2 DEF StoreMail, Store, Move, Typed, MailInv
    <3> QED BY <3>1, SourcesAssumption DEF OwnPhoto
  <2> QED BY <1>1, <2>1, <2>2, OnlyStoresGrow
<1>2. \A q \in Requests : Deleting(q)' => OwnPhoto(victim'[q])
  BY RequestsMove DEF OwnPhotos
<1> QED BY <1>1, <1>2 DEF OwnPhotos, OwnPhoto

LEMMA ErasedInvStep ==
    ASSUME Typed, [Next]_vars, PhotoInv, OwnPhotos, ErasedInv
    PROVE  ErasedInv'
<1> SUFFICES ASSUME NEW j \in Jobs, NEW n \in Indices, <<j, n>> \in erased'
             PROVE  j \in Read' /\ <<j, n>> \notin photos'
  BY DEF ErasedInv
<1>1. j \in Read /\ <<j, n>> \notin photos
  <2>1. CASE <<j, n>> \in erased
    BY <2>1 DEF ErasedInv
  <2>2. CASE <<j, n>> \notin erased
    <3>1. PICK q \in Requests : CommitDelete(q)
      BY <2>2, ReadingLeaves DEF Next, WizardNext, RequestStep, BeginEdit, BeginStore, BeginDelete,
                  FinishEdit, LookUp, CommitStore, FlushDelete, Erase, Abort, vars
    <3>2. stage[q] = "erased" /\ victim[q].source = <<j, n>>
      BY <2>2, <3>1 DEF CommitDelete
    <3>3. victim[q].photo = <<j, n>>
      BY <3>2 DEF OwnPhotos, OwnPhoto, Deleting, Extractions
    <3>4. <<j, n>> \notin photos
      BY <3>2, <3>3 DEF PhotoInv, ErasedGone
    <3>5. j \in Read
      BY <3>2 DEF PhotoInv, VictimsBegun, Deleting, Begun
    <3> QED BY <3>4, <3>5
  <2> QED BY <2>1, <2>2
<1>2. <<j, n>> \notin photos'
  <2>1. Begun(<<j, n>>)
    BY <1>1, PhotosAssumption DEF Begun, Sources, Extractions
  <2> QED BY <2>1, <1>1, NewPhotos DEF PhotoInv
<1> QED BY <1>1, <1>2, BegunStays DEF PhotoInv

LEMMA InitOwnInv == Init => OwnInv
BY DEF Init, SharedInit, WizardInit, OwnInv, AllPictured, OwnPhotos, ErasedInv, Deleting, Working

(* Invariant 24, "deleting a receipt erases every one of its stored photos",*)
(* for any number of requests, messages and deletions at once, as long as   *)
(* no line item was edited while the receipt was in the wizard: an edit of  *)
(* one makes the reading forget its photos (_recheck), which Intake_line    *)
(* shows.                                                                   *)
THEOREM DeletionsErase == ASSUME NoLineEdits PROVE Spec => []DeletionErases
<1>1. Typed /\ OwnInv => DeletionErases
  BY PhotosAssumption
     DEF Typed, TypeOK, SharedTypeOK, WizardTypeOK, OwnInv, ErasedInv, DeletionErases, Photos, Sources,
         Extractions
<1>2. Typed /\ PhotoInv /\ OwnInv /\ [Next]_vars => OwnInv'
  BY PicturedStep, OwnPhotosStep, ErasedInvStep DEF OwnInv
<1> QED BY AlwaysTyped, InitPhotoInv, StepPhotoInv, InitOwnInv, <1>1, <1>2, PTL DEF Spec

(***************************************************************************)
(* Stale copies.  What a request works on is what the job says, until      *)
(* another writes the job's readings: then it is stale, and what it goes   *)
(* on to write or to store is overwritten.                                 *)
(***************************************************************************)

(* A request touches no other request but to make its copy stale.           *)
Apart(p) == /\ stage'[p] = stage[p] /\ job'[p] = job[p] /\ copy'[p] = copy[p]
            /\ todo'[p] = todo[p] /\ kept'[p] = kept[p] /\ victim'[p] = victim[p]

LEMMA OthersApart ==
    ASSUME Typed, NEW q \in Requests, RequestStep(q), NEW p \in Requests, p # q
    PROVE  Apart(p) /\ (p \in stale => p \in stale')
<1> USE DEF Apart, Typed, TypeOK, WizardTypeOK
<1>1. ASSUME NEW written, Rest(q, written) PROVE Apart(p) /\ (p \in stale => p \in stale')
  BY <1>1, RestOnly DEF Rest
<1>2. ASSUME NEW j \in Jobs, BeginEdit(q, j) \/ BeginStore(q, j)
      PROVE  Apart(p) /\ (p \in stale => p \in stale')
  BY <1>2 DEF BeginEdit, BeginStore
<1>3. ASSUME NEW r \in receipts, BeginDelete(q, r) PROVE Apart(p) /\ (p \in stale => p \in stale')
  BY <1>3 DEF BeginDelete
<1>4. CASE LookUp(q)
  BY <1>4 DEF LookUp
<1>5. CASE FlushDelete(q) \/ Erase(q)
  BY <1>5 DEF FlushDelete, Erase
<1> QED
  BY <1>1, <1>2, <1>3, <1>4, <1>5 DEF RequestStep, FinishEdit, CommitStore, CommitDelete, Abort

(* What was overwritten stays so.                                           *)
LEMMA OverwrittenGrows == [Next]_vars => overwritten \subseteq overwritten'
<1>1. ASSUME NEW q \in Requests, RequestStep(q) PROVE overwritten \subseteq overwritten'
  BY <1>1 DEF RequestStep, BeginEdit, BeginStore, BeginDelete, FinishEdit, LookUp, CommitStore,
              FlushDelete, Erase, CommitDelete, Abort, Used
<1> QED BY <1>1, ReadingLeaves DEF Next, WizardNext, vars

(* The step that ends a request, after which others are stale or as before. *)
LEMMA RestStale ==
    ASSUME NEW q \in Requests, NEW written, Rest(q, written),
           NEW p \in Requests, p # q, Working(p), job[p] \in written
    PROVE  p \in stale'
BY DEF Rest

(***************************************************************************)
(* Skips                                                                   *)
(***************************************************************************)

(* An edit answers only what is asked.                                      *)
LEMMA EditKeepsAnswer ==
    ASSUME NEW x \in Reading, NEW y \in Edited(x), x.asked => x.answer = "none"
    PROVE  /\ y.asked => y.answer = "none"
           /\ x.answer = "skipped" => y.answer = "skipped"
<1>1. CASE y \in Answered(x)
  BY <1>1 DEF Answered, Reading
<1>2. CASE y \in Settled(x)
  <2>1. PICK b \in BOOLEAN : y = [x EXCEPT !.doubtful = b]
    BY <1>2 DEF Settled
  <2>2. y.asked = x.asked /\ y.answer = x.answer
    BY <2>1 DEF Reading
  <2> QED BY <2>2
<1>3. CASE y \in Rechecked(x)
  <2>1. PICK b \in BOOLEAN : y = [x EXCEPT !.doubtful = b, !.skipped = FALSE,
                                         !.already = FALSE, !.pictured = FALSE]
    BY <1>3 DEF Rechecked
  <2>2. y.asked = x.asked /\ y.answer = x.answer
    BY <2>1 DEF Reading
  <2> QED BY <2>2
<1> QED BY <1>1, <1>2, <1>3 DEF Edited

(* No edit gives a photo back.                                              *)
LEMMA EditKeepsNoPhoto ==
    ASSUME NEW x \in Reading, NEW y \in Edited(x), y.pictured
    PROVE  x.pictured
<1>1. CASE y \in Answered(x)
  BY <1>1 DEF Answered, Reading
<1>2. CASE y \in Settled(x)
  BY <1>2 DEF Settled, Reading
<1>3. ASSUME y \in Rechecked(x) PROVE FALSE
  <2>1. PICK b \in BOOLEAN : y = [x EXCEPT !.doubtful = b, !.skipped = FALSE,
                                         !.already = FALSE, !.pictured = FALSE]
    BY <1>3 DEF Rechecked
  <2>2. y.pictured = FALSE
    BY <2>1 DEF Reading
  <2> QED BY <2>2
<1> QED BY <1>1, <1>2, <1>3 DEF Edited

(* What the readings of job j say of the questions: only an unanswered one  *)
(* is asked, and a skip that was acknowledged is there.                     *)
Answers(rs, j) ==
    \A n \in Indices :
        /\ rs[n].asked => rs[n].answer = "none"
        /\ <<j, n>> \in refused => rs[n].answer = "skipped"

(* A copy says so too, unless it is stale or the job was overwritten; and   *)
(* a commit takes nothing that its copy leaves out.                         *)
SkipsKept(q) ==
    /\ Working(q) /\ q \notin stale /\ job[q] \notin overwritten => Answers(copy[q], job[q])
    /\ stage[q] = "storing" => \A n \in todo[q] \cup kept[q] : ~LeftOut(copy[q][n])

SkipInv ==
    /\ \A j \in Jobs, n \in Indices : <<j, n>> \in refused => j \in Read
    /\ \A j \in Jobs : readings[j] # Nothing /\ j \notin overwritten => Answers(readings[j], j)
    /\ \A q \in Requests : SkipsKept(q)

LEMMA InitSkipInv == Init => SkipInv
BY DEF Init, WizardInit, SkipInv, SkipsKept, Working

(* A request that is over, or deletes, has no copy to speak of.             *)
LEMMA IdleSkips ==
    ASSUME NEW q \in Requests, stage'[q] \notin {"editing", "storing"} PROVE SkipsKept(q)'
BY DEF SkipsKept, Working

(* A step that answers nothing of a request's job leaves it as it is.       *)
LEMMA SkipsApart ==
    ASSUME NEW p \in Requests, SkipsKept(p), Apart(p), p \in stale => p \in stale',
           overwritten \subseteq overwritten',
           p \in stale' \/ \A n \in Indices : <<job[p], n>> \in refused' => <<job[p], n>> \in refused
    PROVE  SkipsKept(p)'
<1>1. Working(p)' = Working(p)
  BY DEF Working, Apart
<1>2. ASSUME Working(p), p \notin stale', job[p] \notin overwritten' PROVE Answers(copy[p], job[p])'
  BY <1>2 DEF SkipsKept, Answers, Apart
<1>3. stage[p] = "storing" => \A n \in todo[p] \cup kept[p] : ~LeftOut(copy[p][n])
  BY DEF SkipsKept
<1> QED BY <1>1, <1>2, <1>3 DEF SkipsKept, Answers, Apart, LeftOut

(* Readings that only go, with no answer given.                             *)
LEMMA SkipFrame ==
    ASSUME Typed, JobsBegun, SkipInv, [Next]_vars, refused' = refused,
           \A j \in Jobs : readings'[j] \in {Nothing, readings[j]},
           NEW q \in Requests, RequestStep(q), SkipsKept(q)'
    PROVE  SkipInv'
<1>1. \A p \in Requests : SkipsKept(p)'
  BY OthersApart, OverwrittenGrows, SkipsApart DEF SkipInv
<1>2. \A j \in Jobs, n \in Indices : <<j, n>> \in refused' => j \in Read'
  BY BegunStays DEF SkipInv
<1>3. \A j \in Jobs : readings'[j] # Nothing /\ j \notin overwritten' => Answers(readings[j], j)'
  BY OverwrittenGrows DEF SkipInv, Answers
<1> QED BY <1>1, <1>2, <1>3 DEF SkipInv

(* Whoever has a copy of a job that an edit writes is stale from then on;   *)
(* the skips that the edit brings are those of its copy.                    *)
LEMMA FinishEditSkip ==
    ASSUME Typed, JobsBegun, SkipInv, [Next]_vars, NEW q \in Requests, FinishEdit(q)
    PROVE  SkipInv'
<1>1. /\ job[q] \in Jobs /\ copy[q] \in Readings /\ job[q] \in Read /\ Working(q)
      /\ Rest(q, {job[q]}) /\ Used(q)
  BY DEF FinishEdit, Typed, RequestInv, JobsBegun, Working
<1>2. \A j \in Jobs : readings'[j] = IF j = job[q] THEN copy[q] ELSE readings[j]
  BY <1>1 DEF FinishEdit, Typed, TypeOK, WizardTypeOK
<1>3. \A j \in Jobs, n \in Indices :
          <<j, n>> \in refused' => \/ <<j, n>> \in refused
                                   \/ j = job[q] /\ copy[q][n].answer = "skipped"
  BY DEF FinishEdit
<1>4. \A j \in Jobs, n \in Indices : <<j, n>> \in refused' => j \in Read'
  BY <1>1, <1>3, BegunStays DEF SkipInv
<1>5. ASSUME NEW j \in Jobs, readings'[j] # Nothing, j \notin overwritten', NEW n \in Indices
      PROVE  /\ readings'[j][n].asked => readings'[j][n].answer = "none"
             /\ <<j, n>> \in refused' => readings'[j][n].answer = "skipped"
  <2>1. j \notin overwritten
    BY <1>5, OverwrittenGrows
  <2>2. CASE j = job[q]
    <3>1. q \notin stale
      BY <2>2, <1>1, <1>5 DEF Used
    <3>2. Answers(copy[q], job[q])
      BY <3>1, <2>1, <2>2, <1>1 DEF SkipInv, SkipsKept
    <3> QED BY <3>2, <2>2, <1>2, <1>3 DEF Answers
  <2>3. CASE j # job[q]
    <3>1. Answers(readings[j], j)
      BY <2>1, <2>3, <1>2, <1>5 DEF SkipInv
    <3> QED BY <3>1, <2>3, <1>2, <1>3 DEF Answers
  <2> QED BY <2>2, <2>3
<1>6. ASSUME NEW p \in Requests PROVE SkipsKept(p)'
  <2>1. CASE p = q
    BY <2>1, <1>1, RestOnly, IdleSkips
  <2>2. CASE p # q /\ ~Working(p)
    <3>1. stage'[p] = stage[p]
      BY <2>2, OthersApart DEF RequestStep, Apart
    <3> QED BY <2>2, <3>1, IdleSkips DEF Working
  <2>3. CASE p # q /\ Working(p) /\ job[p] = job[q]
    <3>1. p \in stale'
      BY <2>3, <1>1, RestStale
    <3> QED BY <2>3, <3>1, OthersApart, OverwrittenGrows, SkipsApart DEF RequestStep, SkipInv
  <2>4. CASE p # q /\ Working(p) /\ job[p] # job[q]
    <3>1. job[p] \in Jobs
      BY <2>4 DEF Typed, RequestInv, Working
    <3>2. \A n \in Indices : <<job[p], n>> \in refused' => <<job[p], n>> \in refused
      BY <3>1, <2>4, <1>3
    <3> QED BY <2>4, <3>2, OthersApart, OverwrittenGrows, SkipsApart DEF RequestStep, SkipInv
  <2> QED BY <2>1, <2>2, <2>3, <2>4
<1> QED BY <1>4, <1>5, <1>6 DEF SkipInv, Answers

LEMMA BeginEditSkip ==
    ASSUME Typed, JobsBegun, SkipInv, [Next]_vars,
           NEW q \in Requests, NEW j \in Jobs, BeginEdit(q, j)
    PROVE  SkipInv'
<1>1. readings[j] \in Readings
  BY DEF BeginEdit, Typed, TypeOK, WizardTypeOK
<1>2. PICK n \in Indices : \E x \in Edited(readings[j][n]) :
            copy' = [copy EXCEPT ![q] = [readings[j] EXCEPT ![n] = x]]
  BY DEF BeginEdit
<1>3. PICK x \in Edited(readings[j][n]) : copy' = [copy EXCEPT ![q] = [readings[j] EXCEPT ![n] = x]]
  BY <1>2
<1>4. readings[j][n] \in Reading
  BY <1>1 DEF Readings
<1> DEFINE rs == [readings[j] EXCEPT ![n] = x]
<1>5. ASSUME j \notin overwritten PROVE Answers(rs, j)
  <2>1. Answers(readings[j], j)
    BY <1>5 DEF SkipInv, BeginEdit
  <2>2. /\ x.asked => x.answer = "none"
        /\ <<j, n>> \in refused => x.answer = "skipped"
    BY <2>1, <1>3, <1>4, EditKeepsAnswer DEF Answers
  <2> QED BY <2>1, <2>2, <1>1 DEF Answers, Readings
<1>6. /\ copy'[q] = rs /\ job'[q] = j /\ stage'[q] = "editing"
      /\ UNCHANGED <<readings, refused, overwritten>>
  BY <1>3 DEF BeginEdit, Typed, TypeOK, WizardTypeOK
<1> HIDE DEF rs
<1>7. SkipsKept(q)'
  BY <1>5, <1>6 DEF SkipsKept, Answers
<1> QED BY <1>6, <1>7, SkipFrame DEF RequestStep

LEMMA BeginStoreSkip ==
    ASSUME Typed, JobsBegun, KeptInv, SkipInv, [Next]_vars,
           NEW q \in Requests, NEW j \in Jobs, BeginStore(q, j)
    PROVE  SkipInv'
<1>1. readings[j] # Nothing /\ kept[q] = {} /\ (j \notin overwritten => Answers(readings[j], j))
  BY DEF BeginStore, SkipInv, KeptInv
<1>2. todo'[q] \subseteq {n \in Indices : ~LeftOut(readings[j][n])}
  BY DEF BeginStore, Typed, TypeOK, WizardTypeOK
<1>3. /\ copy'[q] = readings[j] /\ job'[q] = j /\ stage'[q] = "storing" /\ kept'[q] = {}
      /\ UNCHANGED <<readings, refused, overwritten>>
  BY <1>1 DEF BeginStore, Typed, TypeOK, WizardTypeOK
<1>4. SkipsKept(q)'
  BY <1>1, <1>2, <1>3 DEF SkipsKept, Answers, LeftOut
<1> QED BY <1>3, <1>4, SkipFrame DEF RequestStep

LEMMA LookUpSkip ==
    ASSUME Typed, JobsBegun, SkipInv, [Next]_vars, NEW q \in Requests, LookUp(q)
    PROVE  SkipInv'
<1>1. PICK n \in todo[q] : /\ \/ kept' = [kept EXCEPT ![q] = @ \cup {n}]
                              \/ kept' = [kept EXCEPT ![q] = @]
                           /\ todo' = [todo EXCEPT ![q] = @ \ {n}]
  BY DEF LookUp
<1>2. todo'[q] \cup kept'[q] \subseteq todo[q] \cup kept[q]
  BY <1>1 DEF Typed, TypeOK, WizardTypeOK
<1>3. stage[q] = "storing" /\ UNCHANGED <<stage, job, copy, stale, readings, refused, overwritten>>
  BY DEF LookUp
<1>4. SkipsKept(q)'
  BY <1>2, <1>3 DEF SkipInv, SkipsKept, Answers, Working, LeftOut
<1> QED BY <1>3, <1>4, SkipFrame DEF RequestStep

LEMMA EndSkip ==
    ASSUME Typed, JobsBegun, SkipInv, [Next]_vars, NEW q \in Requests,
           \/ CommitStore(q) \/ CommitDelete(q) \/ Abort(q)
           \/ (\E r \in receipts : BeginDelete(q, r)) \/ FlushDelete(q) \/ Erase(q)
    PROVE  SkipInv'
<1>1. refused' = refused /\ \A j \in Jobs : readings'[j] \in {Nothing, readings[j]}
  BY DEF CommitStore, CommitDelete, Abort, BeginDelete, FlushDelete, Erase
<1>2. stage'[q] \notin {"editing", "storing"}
  <2>1. ASSUME NEW written, Rest(q, written) PROVE stage'[q] = "idle"
    BY <2>1, RestOnly
  <2> QED
    BY <2>1 DEF CommitStore, CommitDelete, Abort, BeginDelete, FlushDelete, Erase, Typed, TypeOK,
       WizardTypeOK
<1> QED BY <1>1, <1>2, IdleSkips, SkipFrame DEF RequestStep

(* The readings of uploads write to what nobody has a copy of.              *)
LEMMA ReadingSkip ==
    ASSUME Typed, JobsBegun, SkipInv, [Next]_vars, ReadingStep
    PROVE  SkipInv'
<1>1. UNCHANGED <<requestVars, refused, overwritten>>
  BY ReadingLeaves
<1>2. \A p \in Requests : SkipsKept(p)'
  BY <1>1, SkipsApart DEF SkipInv, Apart
<1>3. \A j \in Jobs, n \in Indices : <<j, n>> \in refused' => j \in Read'
  BY <1>1, BegunStays DEF SkipInv
<1>4. ASSUME NEW j \in Jobs, readings'[j] # Nothing, j \notin overwritten'
      PROVE  Answers(readings[j], j)'
  <2>1. CASE readings'[j] = readings[j]
    BY <2>1, <1>1, <1>4 DEF SkipInv, Answers
  <2>2. ASSUME NEW i \in Jobs, ReadJob(i) PROVE Answers(readings[j], j)'
    <3>1. PICK rs \in Readings : /\ readings' = [readings EXCEPT ![i] = rs]
                                 /\ \A n \in Indices : rs[n].answer = "none"
      BY <2>2 DEF ReadJob
    <3>2. readings'[j] = IF j = i THEN rs ELSE readings[j]
      BY <3>1 DEF Typed, TypeOK, WizardTypeOK
    <3>3. \A n \in Indices : <<i, n>> \notin refused
      BY <2>2 DEF ReadJob, JobsBegun, SkipInv
    <3> QED BY <2>1, <3>1, <3>2, <3>3, <1>1 DEF Answers
  <2>3. ASSUME NEW i \in Jobs, (\E n \in Indices : StorePhoto(i, n)) \/ FailJob(i) \/ LoseJob(i)
        PROVE  readings'[j] = readings[j]
    BY <2>3 DEF StorePhoto, FailJob, LoseJob
  <2>4. SweepJobs => readings'[j] = readings[j]
    BY DEF SweepJobs
  <2> QED BY <2>1, <2>2, <2>3, <2>4 DEF ReadingStep
<1> QED BY <1>2, <1>3, <1>4 DEF SkipInv

LEMMA StepSkipInv ==
    ASSUME Typed, NoOlder, JobsBegun, SkipInv, [Next]_vars
    PROVE  SkipInv'
<1>1. CASE UNCHANGED wizardVars
  BY <1>1 DEF SkipInv, SkipsKept, Answers, Working, LeftOut, Read
<1>2. ASSUME NEW q \in Requests, RequestStep(q) PROVE SkipInv'
  BY <1>2, BeginEditSkip, BeginStoreSkip, LookUpSkip, FinishEditSkip, EndSkip
     DEF RequestStep, NoOlder
<1> QED BY <1>1, <1>2, ReadingSkip DEF Next, WizardNext, vars

(* Invariant 11c of domain-model.md, however many requests overlap: a       *)
(* receipt skipped as a duplicate is never stored afterwards, whatever      *)
(* edits, commits, deletions and emails follow the skip, unless a request   *)
(* wrote or stored readings of its job that another had replaced.           *)
THEOREM SkippedStaysOut == Spec => SkippedNeverStored
<1>1. Typed /\ SkipInv /\ [Next]_vars
          => [\A r \in receipts' \ receipts :
                r.source \in refused => \E j \in overwritten' : r.source \in {j} \X Indices]_receipts
  <2> SUFFICES ASSUME Typed, SkipInv, [Next]_vars, NEW r \in receipts', r \notin receipts,
                      r.source \in refused
               PROVE  \E j \in overwritten' : r.source \in {j} \X Indices
    OBVIOUS
  <2>1. ASSUME NEW q \in Requests, CommitStore(q)
        PROVE  \E j \in overwritten' : r.source \in {j} \X Indices
    <3>1. PICK n \in kept[q] : r = Row(q, n)
      BY <2>1 DEF CommitStore, Store
    <3>2. r.source = <<job[q], n>> /\ n \in Indices
      BY <3>1, RowFields DEF Typed, TypeOK, WizardTypeOK
    <3>3. CASE q \in stale
      <4>1. job[q] \in overwritten'
        BY <2>1, <3>3 DEF CommitStore, Used
      <4> QED BY <3>2, <4>1
    <3>4. CASE job[q] \in overwritten
      BY <3>2, <3>4, OverwrittenGrows
    <3>5. CASE q \notin stale /\ job[q] \notin overwritten
      <4>1. ~LeftOut(copy[q][n]) /\ Answers(copy[q], job[q])
        BY <2>1, <3>5 DEF CommitStore, SkipInv, SkipsKept, Working
      <4> QED BY <3>2, <4>1 DEF LeftOut, Answers
    <3> QED BY <3>3, <3>4, <3>5
  <2>2. ASSUME NEW d \in Deliveries, StoreMail(d) PROVE FALSE
    <3>1. r.source = message[d] /\ message[d] \in Messages
      BY <2>2 DEF StoreMail, Store, Move, Typed, MailInv
    <3> QED BY <3>1, SourcesAssumption DEF Typed, TypeOK, WizardTypeOK
  <2> QED BY <2>1, <2>2, OnlyStoresGrow
<1>2. Init => NoOlder
  BY InitNoOlder
<1>3. PhotoInv => JobsBegun
  BY DEF PhotoInv
<1>4. Typed /\ NoOlder /\ JobsBegun /\ SkipInv /\ [Next]_vars => SkipInv'
  BY StepSkipInv
<1>5. Typed /\ Typed' /\ NoOlder /\ [Next]_vars => NoOlder'
  BY StepNoOlder
<1> QED
  BY AlwaysTyped, <1>1, <1>2, <1>3, <1>4, <1>5, InitSkipInv, InitPhotoInv, StepPhotoInv, PTL
     DEF Spec, SkippedNeverStored

(***************************************************************************)
(* The images of what was deleted                                          *)
(***************************************************************************)

(* A copy that is not stale: what is edited keeps no photo that the job has *)
(* not, what is stored is what the job has.                                 *)
FaithfulCopy(q) ==
    /\ stage[q] = "editing" =>
           /\ readings[job[q]] # Nothing
           /\ \A n \in Indices : copy[q][n].pictured => readings[job[q]][n].pictured
    /\ stage[q] = "storing" => readings[job[q]] # Nothing /\ copy[q] = readings[job[q]]

(* Job j can still show the photo of its n-th receipt, and nobody wrote     *)
(* over what another had written.                                           *)
Shows(j, n) == readings[j] # Nothing /\ j \notin overwritten /\ readings[j][n].pictured

(* A receipt keeps no photo only where the reading it came from has lost    *)
(* its names.                                                               *)
PictureOf(r) ==
    \A j \in Jobs, n \in Indices : r.source = <<j, n>> =>
        /\ r.photo \in {<<j, n>>, NoPhoto}
        /\ r.photo = NoPhoto => ~Shows(j, n)

DeadInv ==
    /\ \A j \in Jobs : readings[j] # Nothing /\ j \notin overwritten => j \in named
    /\ \A j \in Jobs, n \in Indices : <<j, n>> \in erased => j \in Read /\ ~Shows(j, n)
    /\ \A q \in Requests : q \notin stale => FaithfulCopy(q)
    /\ \A r \in receipts : PictureOf(r)
    /\ \A q \in Requests : Deleting(q) => PictureOf(victim[q])

LEMMA InitDeadInv == Init => DeadInv
BY DEF Init, SharedInit, WizardInit, DeadInv, FaithfulCopy, Deleting

(* A request's step that brings no photo's name back.                       *)
LEMMA DeadFrame ==
    ASSUME Typed, JobsBegun, [Next]_vars, DeadInv, NEW q \in Requests, RequestStep(q),
           q \in stale' \/ FaithfulCopy(q)',
           \A p \in Requests \ {q} : Working(p) =>
               p \in stale' \/ readings'[job[p]] = readings[job[p]],
           \A j \in Jobs : readings'[j] # Nothing /\ j \notin overwritten' =>
               /\ j \in named'
               /\ readings[j] # Nothing
               /\ \A n \in Indices : readings'[j][n].pictured => readings[j][n].pictured,
           \A r \in receipts' : r \in receipts \/ PictureOf(r)',
           \A j \in Jobs, n \in Indices : <<j, n>> \in erased' =>
               <<j, n>> \in erased \/ (j \in Read /\ ~Shows(j, n)')
    PROVE  DeadInv'
<1>1. \A j \in Jobs, n \in Indices : Shows(j, n)' => Shows(j, n)
  BY OverwrittenGrows DEF Shows
<1>2. \A r : PictureOf(r) => PictureOf(r)'
  BY <1>1 DEF PictureOf
<1>3. \A r \in receipts' : PictureOf(r)'
  BY <1>2 DEF DeadInv
<1>4. ASSUME NEW p \in Requests, Deleting(p)' PROVE PictureOf(victim[p])'
  <2>1. PICK v : v = victim'[p]
    OBVIOUS
  <2>2. PictureOf(v)
    BY <1>4, <2>1, RequestsMove DEF DeadInv
  <2>3. PictureOf(v)'
    BY <1>2, <2>2
  <2> QED BY <2>1, <2>3 DEF PictureOf
<1>5. ASSUME NEW p \in Requests, p \notin stale' PROVE FaithfulCopy(p)'
  <2>1. CASE p = q
    BY <2>1, <1>5
  <2>2. CASE p # q
    <3>1. Apart(p) /\ p \notin stale
      BY <2>2, <1>5, OthersApart
    <3>2. Working(p) => readings'[job[p]] = readings[job[p]]
      BY <2>2, <1>5
    <3> QED BY <3>1, <3>2 DEF DeadInv, FaithfulCopy, Apart, Working
  <2> QED BY <2>1, <2>2
<1>6. \A j \in Jobs, n \in Indices : <<j, n>> \in erased' => j \in Read' /\ ~Shows(j, n)'
  BY <1>1, BegunStays DEF DeadInv
<1> QED BY <1>3, <1>4, <1>5, <1>6 DEF DeadInv

(* A request that begins or goes on with what it has.                       *)
LEMMA GoOnDead ==
    ASSUME Typed, JobsBegun, [Next]_vars, DeadInv, NEW q \in Requests,
           \/ \E j \in Jobs : BeginEdit(q, j) \/ BeginStore(q, j)
           \/ \E r \in receipts : BeginDelete(q, r)
           \/ LookUp(q) \/ FlushDelete(q) \/ Erase(q)
    PROVE  DeadInv'
<1> USE DEF Typed, TypeOK, WizardTypeOK
<1>1. UNCHANGED <<receipts, erased, readings, named, overwritten, stale>>
  BY DEF BeginEdit, BeginStore, BeginDelete, LookUp, FlushDelete, Erase
<1>2. q \in stale \/ FaithfulCopy(q)'
  <2>1. ASSUME NEW j \in Jobs, BeginEdit(q, j) PROVE FaithfulCopy(q)'
    <3>1. PICK n \in Indices : \E x \in Edited(readings[j][n]) :
              copy' = [copy EXCEPT ![q] = [readings[j] EXCEPT ![n] = x]]
      BY <2>1 DEF BeginEdit
    <3>2. PICK x \in Edited(readings[j][n]) :
              copy' = [copy EXCEPT ![q] = [readings[j] EXCEPT ![n] = x]]
      BY <3>1
    <3>3. readings[j] \in Readings /\ readings[j] # Nothing
      BY <2>1 DEF BeginEdit
    <3>4. x.pictured => readings[j][n].pictured
      BY <3>2, <3>3, EditKeepsNoPhoto DEF Readings
    <3> DEFINE rs == [readings[j] EXCEPT ![n] = x]
    <3>5. \A m \in Indices : rs[m].pictured => readings[j][m].pictured
      BY <3>3, <3>4 DEF Readings
    <3>6. copy'[q] = rs /\ job'[q] = j /\ stage'[q] = "editing"
      BY <2>1, <3>2 DEF BeginEdit
    <3> HIDE DEF rs
    <3> QED BY <3>3, <3>5, <3>6, <1>1 DEF FaithfulCopy
  <2>2. ASSUME NEW j \in Jobs, BeginStore(q, j) PROVE FaithfulCopy(q)'
    BY <2>2, <1>1 DEF BeginStore, FaithfulCopy
  <2>3. CASE LookUp(q)
    BY <2>3, <1>1 DEF LookUp, DeadInv, FaithfulCopy
  <2>4. CASE (\E r \in receipts : BeginDelete(q, r)) \/ FlushDelete(q) \/ Erase(q)
    BY <2>4 DEF BeginDelete, FlushDelete, Erase, FaithfulCopy
  <2> QED BY <2>1, <2>2, <2>3, <2>4
<1>3. \A j \in Jobs : readings'[j] # Nothing /\ j \notin overwritten' => j \in named'
  BY <1>1 DEF DeadInv
<1> QED BY <1>1, <1>2, <1>3, DeadFrame DEF RequestStep

(* An edit is written.                                                      *)
LEMMA FinishEditDead ==
    ASSUME Typed, JobsBegun, [Next]_vars, DeadInv, NEW q \in Requests, FinishEdit(q)
    PROVE  DeadInv'
<1> USE DEF Typed, TypeOK, WizardTypeOK
<1>1. job[q] \in Jobs /\ Rest(q, {job[q]}) /\ Used(q) /\ UNCHANGED <<receipts, erased, named>>
  BY DEF FinishEdit, RequestInv
<1>2. \A j \in Jobs : readings'[j] = IF j = job[q] THEN copy[q] ELSE readings[j]
  BY <1>1 DEF FinishEdit
<1>3. FaithfulCopy(q)'
  BY <1>1, RestOnly DEF FaithfulCopy
<1>4. ASSUME NEW p \in Requests \ {q}, Working(p)
      PROVE  p \in stale' \/ readings'[job[p]] = readings[job[p]]
  <2>1. CASE job[p] = job[q]
    BY <2>1, <1>1, <1>4, RestStale
  <2>2. CASE job[p] # job[q]
    BY <2>2, <1>2, <1>4 DEF RequestInv, Working
  <2> QED BY <2>1, <2>2
<1>5. ASSUME NEW j \in Jobs, readings'[j] # Nothing, j \notin overwritten'
      PROVE  /\ j \in named' /\ readings[j] # Nothing
             /\ \A n \in Indices : readings'[j][n].pictured => readings[j][n].pictured
  <2>1. j \notin overwritten
    BY <1>5, OverwrittenGrows
  <2>2. CASE j = job[q]
    <3>1. q \notin stale
      BY <2>2, <1>1, <1>5 DEF Used
    <3>2. FaithfulCopy(q) /\ stage[q] = "editing"
      BY <3>1 DEF DeadInv, FinishEdit
    <3> QED BY <3>2, <2>1, <2>2, <1>1, <1>2 DEF DeadInv, FaithfulCopy
  <2>3. CASE j # job[q]
    BY <2>1, <2>3, <1>1, <1>2, <1>5 DEF DeadInv
  <2> QED BY <2>2, <2>3
<1> QED BY <1>1, <1>3, <1>4, <1>5, DeadFrame DEF RequestStep

(* A commit stores what its copy shows: the job's readings, or stale ones.  *)
LEMMA CommitStoreDead ==
    ASSUME Typed, JobsBegun, [Next]_vars, DeadInv, NEW q \in Requests, CommitStore(q)
    PROVE  DeadInv'
<1> USE DEF Typed, TypeOK, WizardTypeOK
<1>1. /\ job[q] \in Jobs /\ Rest(q, {}) /\ Used(q) /\ stage[q] = "storing"
      /\ UNCHANGED <<readings, named, erased>>
  BY DEF CommitStore, RequestInv
<1>2. FaithfulCopy(q)'
  BY <1>1, RestOnly DEF FaithfulCopy
<1>3. ASSUME NEW r \in receipts', r \notin receipts PROVE PictureOf(r)'
  <2>1. PICK n \in kept[q] : r = Row(q, n)
    BY <1>3 DEF CommitStore, Store
  <2>2. r.source = <<job[q], n>> /\ n \in Indices /\
        r.photo = IF copy[q][n].pictured THEN <<job[q], n>> ELSE NoPhoto
    BY <2>1 DEF Row
  <2>3. <<job[q], n>> # NoPhoto
    BY <2>2, <1>1, PhotosAssumption DEF Photos, Extractions
  <2>4. PICK i \in Jobs : i = job[q]
    BY <1>1
  <2>5. ASSUME ~copy[q][n].pictured PROVE ~Shows(i, n)'
    <3>1. CASE q \in stale
      BY <3>1, <2>4, <1>1 DEF Used, Shows
    <3>2. CASE q \notin stale
      BY <3>2, <2>4, <2>5, <1>1 DEF DeadInv, FaithfulCopy, Shows
    <3> QED BY <3>1, <3>2
  <2> QED BY <2>2, <2>3, <2>4, <2>5 DEF PictureOf
<1>4. \A j \in Jobs : readings'[j] # Nothing /\ j \notin overwritten' => j \in named'
  BY <1>1, OverwrittenGrows DEF DeadInv
<1> QED BY <1>1, <1>2, <1>3, <1>4, DeadFrame DEF RequestStep

(* A deletion discards the payload that names the photos it erased, and     *)
(* whoever has a copy of that is stale.                                     *)
LEMMA CommitDeleteDead ==
    ASSUME Typed, JobsBegun, VictimsBegun, [Next]_vars, DeadInv, NEW q \in Requests, CommitDelete(q)
    PROVE  DeadInv'
<1> USE DEF Typed, TypeOK, WizardTypeOK
<1>1. Deleting(q) /\ PictureOf(victim[q]) /\ Rest(q, Clears(q)) /\ overwritten' = overwritten
  BY DEF CommitDelete, DeadInv, Deleting
<1>2. /\ readings' = [j \in Jobs |-> IF j \in Clears(q) THEN Nothing ELSE readings[j]]
      /\ named' = named \ Clears(q) /\ receipts' = receipts \ {victim[q]}
      /\ erased' \subseteq erased \cup {victim[q].source}
  BY DEF CommitDelete
<1>3. FaithfulCopy(q)'
  BY <1>1, RestOnly DEF FaithfulCopy
<1>4. ASSUME NEW p \in Requests \ {q}, Working(p)
      PROVE  p \in stale' \/ readings'[job[p]] = readings[job[p]]
  <2>1. CASE job[p] \in Clears(q)
    BY <2>1, <1>1, <1>4, RestStale
  <2>2. CASE job[p] \notin Clears(q)
    BY <2>2, <1>2, <1>4 DEF RequestInv, Working
  <2> QED BY <2>1, <2>2
<1>5. \A j \in Jobs : readings'[j] # Nothing /\ j \notin overwritten' =>
          j \in named' /\ readings'[j] = readings[j] /\ j \notin Clears(q)
  BY <1>1, <1>2 DEF DeadInv
<1>6. ASSUME NEW j \in Jobs, NEW n \in Indices, <<j, n>> = victim[q].source
      PROVE  j \in Read /\ ~Shows(j, n)'
  <2>1. j \in Read
    BY <1>6, <1>1 DEF VictimsBegun, Begun
  <2>2. CASE victim[q].photo = NoPhoto
    <3>1. ~Shows(j, n)
      BY <2>2, <1>1, <1>6 DEF PictureOf
    <3> QED BY <3>1, <2>1, <1>1, <1>5 DEF Shows
  <2>3. CASE victim[q].photo = <<j, n>>
    <3>1. j \in named => j \in Clears(q)
      BY <2>3 DEF Clears
    <3>2. ~(readings'[j] # Nothing /\ j \notin overwritten')
      BY <3>1, <1>2, <1>5
    <3> QED BY <3>2, <2>1 DEF Shows
  <2> QED BY <2>1, <2>2, <2>3, <1>1, <1>6 DEF PictureOf
<1> QED BY <1>1, <1>2, <1>3, <1>4, <1>5, <1>6, DeadFrame DEF RequestStep

LEMMA AbortDead ==
    ASSUME Typed, JobsBegun, [Next]_vars, DeadInv, NEW q \in Requests, Abort(q)
    PROVE  DeadInv'
<1>1. UNCHANGED <<receipts, erased, readings, named, overwritten>> /\ Rest(q, {})
  BY DEF Abort
<1>2. FaithfulCopy(q)'
  BY <1>1, RestOnly DEF FaithfulCopy
<1> QED BY <1>1, <1>2, DeadFrame DEF DeadInv, RequestStep

(* A job's first readings come when no receipt of it is stored and no       *)
(* request has a copy of it.                                                *)
LEMMA ReadingDead ==
    ASSUME Typed, RowsBegun, VictimsBegun, JobsBegun, [Next]_vars, DeadInv, ReadingStep
    PROVE  DeadInv'
<1> USE DEF Typed, TypeOK, WizardTypeOK
<1>1. UNCHANGED <<receipts, requestVars, erased, overwritten>>
  BY ReadingLeaves
<1>2. ASSUME UNCHANGED <<readings, named>> PROVE DeadInv'
  <2>1. \A j \in Jobs, n \in Indices : <<j, n>> \in erased' => j \in Read' /\ ~Shows(j, n)'
    BY <1>1, <1>2, BegunStays DEF DeadInv, Shows
  <2> QED BY <2>1, <1>1, <1>2 DEF DeadInv, FaithfulCopy, PictureOf, Shows, Deleting
<1>3. ASSUME NEW i \in Jobs, ReadJob(i) PROVE DeadInv'
  <2>1. i \notin Read /\ named' = named \cup {i}
    BY <1>3 DEF ReadJob, JobsBegun
  <2>2. \A j \in Jobs \ {i} : readings'[j] = readings[j]
    BY <1>3 DEF ReadJob
  <2>3. \A q \in Requests : Working(q) => job[q] \in Jobs \ {i}
    BY <2>1 DEF JobsBegun, RequestInv, Working
  <2>4. \A q \in Requests : q \notin stale' => FaithfulCopy(q)'
    BY <1>1, <2>2, <2>3 DEF DeadInv, FaithfulCopy, Working
  <2>5. ASSUME NEW r, Begun(r.source), PictureOf(r) PROVE PictureOf(r)'
    BY <1>1, <2>1, <2>2, <2>5 DEF Begun, PictureOf, Shows
  <2>6. \A r \in receipts' : PictureOf(r)'
    BY <1>1, <2>5 DEF DeadInv, RowsBegun
  <2>7. ASSUME NEW q \in Requests, Deleting(q)' PROVE PictureOf(victim[q])'
    <3>1. Begun(victim[q].source) /\ PictureOf(victim[q]) /\ victim' = victim
      BY <1>1, <2>7 DEF DeadInv, VictimsBegun, Deleting
    <3>2. PICK v : v = victim[q]
      OBVIOUS
    <3>3. PictureOf(v)'
      BY <3>1, <3>2, <2>5
    <3> QED BY <3>1, <3>2, <3>3 DEF PictureOf
  <2>8. \A j \in Jobs, n \in Indices : <<j, n>> \in erased' => j \in Read' /\ ~Shows(j, n)'
    BY <1>1, <2>1, <2>2, BegunStays DEF DeadInv, Shows
  <2>9. \A j \in Jobs : readings'[j] # Nothing /\ j \notin overwritten' => j \in named'
    BY <1>1, <2>1, <2>2 DEF DeadInv
  <2> QED BY <2>4, <2>6, <2>7, <2>8, <2>9 DEF DeadInv
<1>4. ASSUME NEW i \in Jobs, (\E n \in Indices : StorePhoto(i, n)) \/ FailJob(i) \/ LoseJob(i)
      PROVE  UNCHANGED <<readings, named>>
  BY <1>4 DEF StorePhoto, FailJob, LoseJob
<1>5. SweepJobs => UNCHANGED <<readings, named>>
  BY DEF SweepJobs
<1> QED BY <1>2, <1>3, <1>4, <1>5 DEF ReadingStep

(* An email stores nothing of an upload, and takes nothing from the table.  *)
LEMMA MailDead ==
    ASSUME Typed, [Next]_vars, DeadInv, MailNext \/ UNCHANGED vars, UNCHANGED wizardVars
    PROVE  DeadInv'
<1>1. ASSUME NEW r \in receipts', r \notin receipts
      PROVE  \A j \in Jobs, n \in Indices : r.source # <<j, n>>
  <2>1. PICK d \in Deliveries : StoreMail(d)
    BY <1>1 DEF MailNext, Deliver, CheckReference, ReadReceipt, ReadIncome, KeepIncome, LookUpMail,
                Lose, vars
  <2>2. r.source = message[d] /\ message[d] \in Messages
    BY <1>1, <2>1 DEF StoreMail, Store, Move, Typed, MailInv
  <2> QED BY <2>2, SourcesAssumption DEF Extractions
<1>2. \A r : PictureOf(r) => PictureOf(r)'
  BY DEF PictureOf, Shows
<1>3. \A r \in receipts' : PictureOf(r)'
  BY <1>1, <1>2 DEF DeadInv, PictureOf
<1>4. \A q \in Requests : Deleting(q)' => PictureOf(victim[q])'
  BY <1>2 DEF DeadInv, Deleting, PictureOf, Shows
<1>5. \A q \in Requests : q \notin stale' => FaithfulCopy(q)'
  BY DEF DeadInv, FaithfulCopy
<1> QED BY <1>3, <1>4, <1>5 DEF DeadInv, Shows, Read

(* Invariant 25 of domain-model.md, however many edits, commits, deletions  *)
(* and emails overlap: a job whose readings can still be shown names no     *)
(* photo that a deletion has erased, unless a request wrote or stored       *)
(* readings of it that another had replaced or discarded.                   *)
THEOREM ImagesAreThere == Spec => []NoDeadImages
<1>1. DeadInv => NoDeadImages
  BY DEF DeadInv, NoDeadImages, Shows
<1>2. Typed /\ PhotoInv /\ DeadInv /\ [Next]_vars => DeadInv'
  <2> SUFFICES ASSUME Typed, PhotoInv, DeadInv, [Next]_vars PROVE DeadInv'
    OBVIOUS
  <2>1. CASE (MailNext \/ UNCHANGED vars) /\ UNCHANGED wizardVars
    BY <2>1, MailDead
  <2>2. CASE ReadingStep
    BY <2>2, ReadingDead DEF PhotoInv
  <2>3. ASSUME NEW q \in Requests, RequestStep(q) PROVE DeadInv'
    BY <2>3, GoOnDead, FinishEditDead, CommitStoreDead, CommitDeleteDead, AbortDead
       DEF RequestStep, PhotoInv
  <2> QED BY <2>1, <2>2, <2>3 DEF Next, WizardNext, vars
<1> QED BY AlwaysTyped, InitPhotoInv, StepPhotoInv, InitDeadInv, <1>1, <1>2, PTL DEF Spec

(***************************************************************************)
(* The photos of what is stored                                            *)
(***************************************************************************)

(* What a photo was taken of: an extraction has its own, a delivery that of *)
(* the message it brought.                                                  *)
Shown(p) == IF p \in Deliveries THEN message[p] ELSE p

(* A photo is in storage, or a deletion has erased it, or is about to have. *)
Accounted(p) ==
    \/ p \in photos \cup {NoPhoto} \cup unwound
    \/ Shown(p) \in erased
    \/ \E q \in Requests : stage[q] = "erased" /\ victim[q].photo = p

OwnSource(r) == r.photo # NoPhoto => r.source = Shown(r.photo)

HeldInv ==
    /\ \A p \in carried : Accounted(p)
    /\ \A j \in Read, n \in Indices : Accounted(<<j, n>>)
    /\ \A d \in Deliveries : mail[d] \in {"uploaded", "read", "looked"} => d \in photos
    /\ \A r \in receipts : OwnSource(r)
    /\ \A q \in Requests : Deleting(q) => OwnSource(victim[q])

LEMMA InitHeldInv == Init => HeldInv
BY DEF Init, SharedInit, WizardInit, MailInit, HeldInv, Deleting, Read

(* A delivery that is over brings no other message.                         *)
LEMMA ShownStays ==
    ASSUME Typed, [Next]_vars, NEW p, Begun(p)
    PROVE  Shown(p)' = Shown(p)
<1>1. ASSUME NEW d \in Deliveries, NEW m \in Messages, Deliver(d, m)
      PROVE  mail[d] = "none" /\ \A e \in Deliveries \ {d} : message'[e] = message[e]
  BY <1>1 DEF Deliver, Move, Typed, TypeOK, MailTypeOK
<1>2. ASSUME NEW d \in Deliveries,
             \/ CheckReference(d) \/ ReadReceipt(d) \/ ReadIncome(d) \/ KeepIncome(d)
             \/ LookUpMail(d) \/ StoreMail(d) \/ Lose(d)
      PROVE  message' = message
  BY <1>2 DEF CheckReference, ReadReceipt, ReadIncome, KeepIncome, LookUpMail, StoreMail, Lose
<1> QED BY <1>1, <1>2 DEF Next, MailNext, vars, Begun, Shown

(* A photo leaves storage by the erasure of a deletion, or with a letter    *)
(* that was money received.                                                 *)
LEMMA PhotosGo ==
    ASSUME Typed, [Next]_vars, NEW p \in photos, p \notin photos'
    PROVE  \/ \E q \in Requests : stage'[q] = "erased" /\ victim'[q].photo = p /\ Deleting(q)
                                  /\ victim[q].photo = p
           \/ p \in Deliveries /\ mail[p] = "uploaded" /\ mail'[p] \in {"income", "over"}
<1>1. ASSUME NEW q \in Requests, Erase(q)
      PROVE  stage'[q] = "erased" /\ victim'[q].photo = p /\ Deleting(q) /\ victim[q].photo = p
  BY <1>1 DEF Erase, Deleting, Typed, TypeOK, WizardTypeOK
<1>2. ASSUME NEW q \in Requests, RequestStep(q), ~Erase(q) PROVE photos' = photos
  BY <1>2 DEF RequestStep, BeginEdit, BeginStore, BeginDelete, FinishEdit, LookUp, CommitStore,
              FlushDelete, CommitDelete, Abort, Store
<1>3. ASSUME NEW d \in Deliveries, ReadIncome(d)
      PROVE  p \in Deliveries /\ mail[p] = "uploaded" /\ mail'[p] \in {"income", "over"}
  BY <1>3 DEF ReadIncome, Move, Typed, TypeOK, MailTypeOK
<1>4. ASSUME NEW d \in Deliveries,
             \/ \E m \in Messages : Deliver(d, m)
             \/ CheckReference(d) \/ ReadReceipt(d) \/ KeepIncome(d)
             \/ LookUpMail(d) \/ StoreMail(d) \/ Lose(d)
      PROVE  photos \subseteq photos'
  BY <1>4 DEF Deliver, CheckReference, ReadReceipt, KeepIncome, LookUpMail, StoreMail, Lose, Store
<1> QED BY <1>1, <1>2, <1>3, <1>4, ReadingLeaves DEF Next, WizardNext, MailNext, vars

(* A deletion that has erased goes on to say so, or is rolled back.         *)
LEMMA ErasedGoesOn ==
    ASSUME Typed, [Next]_vars, NEW q \in Requests, stage[q] = "erased"
    PROVE  /\ erased \subseteq erased' /\ unwound \subseteq unwound'
           /\ \/ stage'[q] = "erased" /\ victim'[q] = victim[q]
              \/ victim[q].source \in erased'
              \/ victim[q].photo \in unwound'
<1>1. ASSUME NEW p \in Requests, RequestStep(p), p # q
      PROVE  /\ erased \subseteq erased' /\ unwound \subseteq unwound'
             /\ stage'[q] = "erased" /\ victim'[q] = victim[q]
  <2>1. stage'[q] = stage[q] /\ victim'[q] = victim[q]
    BY <1>1, OthersApart DEF Apart
  <2>2. erased \subseteq erased' /\ unwound \subseteq unwound'
    BY <1>1 DEF RequestStep, BeginEdit, BeginStore, BeginDelete, FinishEdit, LookUp, CommitStore,
                FlushDelete, Erase, CommitDelete, Abort
  <2> QED BY <2>1, <2>2
<1>2. CASE RequestStep(q)
  <2>1. CommitDelete(q) \/ Abort(q)
    BY <1>2 DEF RequestStep, BeginEdit, BeginStore, BeginDelete, FinishEdit, LookUp, CommitStore,
                FlushDelete, Erase
  <2> QED BY <2>1 DEF CommitDelete, Abort
<1> QED BY <1>1, <1>2, ReadingLeaves DEF Next, WizardNext, vars

LEMMA HistoryGrows == [Next]_vars => erased \subseteq erased' /\ unwound \subseteq unwound'
<1>1. ASSUME NEW q \in Requests, RequestStep(q) PROVE erased \subseteq erased' /\ unwound \subseteq unwound'
  BY <1>1 DEF RequestStep, BeginEdit, BeginStore, BeginDelete, FinishEdit, LookUp, CommitStore,
              FlushDelete, Erase, CommitDelete, Abort
<1> QED BY <1>1, ReadingLeaves DEF Next, WizardNext, vars

(* What is accounted for stays so.                                          *)
LEMMA AccountedStays ==
    ASSUME Typed, [Next]_vars, HeldInv, NEW p, Begun(p), Accounted(p)
    PROVE  Accounted(p)'
<1>1. Shown(p)' = Shown(p)
  BY ShownStays
<1>2. CASE p \in {NoPhoto} \cup unwound \/ Shown(p) \in erased
  BY <1>1, <1>2, HistoryGrows DEF Accounted
<1>3. CASE p \in photos
  <2>1. ASSUME p \notin photos' PROVE \E q \in Requests : stage'[q] = "erased" /\ victim'[q].photo = p
    <3>1. ~(p \in Deliveries /\ mail[p] = "uploaded")
      BY DEF Begun
    <3> QED BY <3>1, <1>3, <2>1, PhotosGo
  <2> QED BY <2>1 DEF Accounted
<1>4. ASSUME NEW q \in Requests, stage[q] = "erased", victim[q].photo = p, p # NoPhoto
      PROVE  Accounted(p)'
  <2>1. victim[q].source = Shown(p)
    BY <1>4 DEF HeldInv, OwnSource, Deleting
  <2>2. CASE stage'[q] = "erased" /\ victim'[q] = victim[q]
    BY <2>2, <1>4 DEF Accounted
  <2>3. CASE victim[q].source \in erased' \/ victim[q].photo \in unwound'
    BY <2>1, <2>3, <1>1, <1>4 DEF Accounted
  <2> QED BY <2>2, <2>3, <1>4, ErasedGoesOn
<1> QED BY <1>2, <1>3, <1>4 DEF Accounted

(* What a step adds to the table carries a photo of its own source, and one *)
(* that is accounted for.                                                   *)
LEMMA NewRowsHeld ==
    ASSUME Typed, PhotoInv, HeldInv, [Next]_vars, NEW r \in receipts', r \notin receipts
    PROVE  OwnSource(r)' /\ Accounted(r.photo)'
<1>1. Begun(r.photo)'
  BY NewRowsBegun DEF PhotoInv
<1>2. ASSUME NEW q \in Requests, CommitStore(q) PROVE OwnSource(r)' /\ Accounted(r.photo)'
  <2>1. PICK n \in kept[q] : r = Row(q, n)
    BY <1>2 DEF CommitStore, Store
  <2>2. r.source = <<job[q], n>> /\ r.photo \in {<<job[q], n>>, NoPhoto}
    BY <2>1 DEF Row
  <2>3. job[q] \in Read /\ job[q] \in Jobs /\ n \in Indices
    BY <1>2 DEF CommitStore, Typed, TypeOK, WizardTypeOK, RequestInv, PhotoInv, JobsBegun, Working
  <2>4. <<job[q], n>> \in Sources
    BY <2>3 DEF Sources, Extractions
  <2>5. <<job[q], n>> \notin Deliveries
    BY <2>4, PhotosAssumption
  <2>6. OwnSource(r)'
    BY <2>2, <2>5 DEF OwnSource, Shown
  <2>7. PICK p : p = <<job[q], n>>
    OBVIOUS
  <2>8. Begun(p) /\ Accounted(p)
    BY <2>3, <2>4, <2>5, <2>7 DEF Begun, HeldInv
  <2>9. Accounted(p)'
    BY <2>8, AccountedStays
  <2>10. Accounted(NoPhoto)'
    BY DEF Accounted
  <2> QED BY <2>2, <2>6, <2>7, <2>9, <2>10
<1>3. ASSUME NEW d \in Deliveries, StoreMail(d) PROVE OwnSource(r)' /\ Accounted(r.photo)'
  <2>1. r.source = message[d] /\ r.photo = d /\ UNCHANGED <<photos, message>> /\ mail[d] = "looked"
    BY <1>3 DEF StoreMail, Store, Move
  <2> QED BY <2>1 DEF OwnSource, Shown, Accounted, HeldInv
<1> QED BY <1>2, <1>3, OnlyStoresGrow

(* Photos are all in storage when a job's readings are written, and a       *)
(* deletion takes none of a message that is being read.                     *)
LEMMA StepHeldInv ==
    ASSUME Typed, PhotoInv, HeldInv, [Next]_vars
    PROVE  HeldInv'
<1>1. ASSUME NEW p \in carried' PROVE Accounted(p)'
  <2>1. CASE p \in carried
    BY <2>1, AccountedStays DEF HeldInv, PhotoInv, CarriedBegun
  <2>2. CASE \E r \in receipts' : r \notin receipts /\ r.photo = p
    BY <2>2, NewRowsHeld
  <2>3. CASE \E r \in receipts : r.photo = p
    BY <2>3, AccountedStays DEF HeldInv, PhotoInv, RowsBegun
  <2> QED BY <2>1, <2>2, <2>3, CarriedGrows
<1>2. ASSUME NEW j \in Read', NEW n \in Indices PROVE Accounted(<<j, n>>)'
  <2>1. CASE j \in Read
    <3>1. Begun(<<j, n>>)
      BY <2>1, PhotosAssumption DEF Begun, Read, Sources, Extractions
    <3> QED BY <2>1, <3>1, AccountedStays DEF HeldInv
  <2>2. CASE j \notin Read
    <3>1. j \in Jobs
      BY DEF Read
    <3>2. ReadJob(j)
      <4>1. ASSUME NEW i \in Jobs, ReadJob(i) PROVE i = j
        BY <2>2, <4>1 DEF ReadJob, Read, Typed, TypeOK, WizardTypeOK
      <4>2. ASSUME NEW i \in Jobs, FailJob(i) PROVE FALSE
        BY <2>2, <4>2 DEF FailJob, Read, Typed, TypeOK, WizardTypeOK
      <4>3. CASE SweepJobs
        BY <2>2, <4>3 DEF SweepJobs, Read
      <4>4. ASSUME NEW q \in Requests, CommitStore(q) PROVE FALSE
        BY <2>2, <4>4 DEF CommitStore, Read, Typed, TypeOK, WizardTypeOK, PhotoInv, JobsBegun, Working
      <4>5. ASSUME NEW i \in Jobs, LoseJob(i) \/ \E m \in Indices : StorePhoto(i, m)
            PROVE  status' = status
        BY <4>5 DEF LoseJob, StorePhoto
      <4>6. ASSUME NEW q \in Requests, RequestStep(q), ~CommitStore(q) PROVE status' = status
        BY <4>6 DEF RequestStep, BeginEdit, BeginStore, BeginDelete, FinishEdit, LookUp,
                    FlushDelete, Erase, CommitDelete, Abort
      <4>7. status' # status
        BY <2>2 DEF Read
      <4> QED
        BY <4>1, <4>2, <4>3, <4>4, <4>5, <4>6, <4>7 DEF Next, WizardNext, ReadingStep, vars
    <3>3. <<j, n>> \in photos'
      BY <3>2 DEF ReadJob
    <3> QED BY <3>3 DEF Accounted
  <2> QED BY <2>1, <2>2
<1>3. ASSUME NEW d \in Deliveries, mail'[d] \in {"uploaded", "read", "looked"}
      PROVE  d \in photos'
  <2>1. CASE mail[d] \in {"uploaded", "read", "looked"}
    <3>1. d \in photos
      BY <2>1 DEF HeldInv
    <3>2. ASSUME NEW q \in Requests, Deleting(q) PROVE victim[q].photo # d
      BY <2>1, <3>2 DEF PhotoInv, VictimsBegun, Begun
    <3> QED BY <3>1, <3>2, <1>3, PhotosGo
  <2>2. CASE mail[d] \notin {"uploaded", "read", "looked"}
    <3>1. ASSUME NEW e \in Deliveries, CheckReference(e) PROVE d \in photos'
      BY <2>2, <3>1, <1>3 DEF CheckReference, Move, Typed, TypeOK, MailTypeOK
    <3>2. ASSUME NEW e \in Deliveries,
                 \/ \E m \in Messages : Deliver(e, m)
                 \/ ReadReceipt(e) \/ ReadIncome(e) \/ KeepIncome(e)
                 \/ LookUpMail(e) \/ StoreMail(e) \/ Lose(e)
          PROVE  FALSE
      BY <2>2, <3>2, <1>3 DEF Deliver, ReadReceipt, ReadIncome, KeepIncome, LookUpMail, StoreMail,
                              Lose, Move, Typed, TypeOK, MailTypeOK
    <3> QED BY <2>2, <3>1, <3>2, <1>3 DEF Next, MailNext, vars
  <2> QED BY <2>1, <2>2
<1>4. ASSUME NEW r, Begun(r.photo), OwnSource(r) PROVE OwnSource(r)'
  BY <1>4, ShownStays DEF OwnSource
<1>5. \A r \in receipts' : OwnSource(r)'
  BY <1>4, NewRowsHeld DEF HeldInv, PhotoInv, RowsBegun
<1>6. ASSUME NEW q \in Requests, Deleting(q)' PROVE OwnSource(victim[q])'
  <2>1. PICK v : v = victim'[q]
    OBVIOUS
  <2>2. OwnSource(v) /\ Begun(v.photo)
    BY <1>6, <2>1, RequestsMove DEF HeldInv, PhotoInv, RowsBegun, VictimsBegun
  <2>3. OwnSource(v)'
    BY <1>4, <2>2
  <2> QED BY <2>1, <2>3 DEF OwnSource
<1> QED BY <1>1, <1>2, <1>3, <1>5, <1>6 DEF HeldInv

(* The photo of every stored receipt is in storage, or is being erased, or  *)
(* went with the deletion of a row of the same source or with one that was  *)
(* rolled back after it had erased: for any number of uploads, messages,    *)
(* commits and deletions at once.                                           *)
THEOREM PhotosAreHeld == Spec => []ReceiptsKeepPhotos
<1>1. Typed /\ PhotoInv /\ HeldInv => ReceiptsKeepPhotos
  <2> SUFFICES ASSUME Typed, PhotoInv, HeldInv, NEW r \in receipts
               PROVE  \/ r.photo \in photos \cup {NoPhoto} \cup unwound
                      \/ r.source \in erased
                      \/ \E q \in Requests : stage[q] \in Flushed /\ victim[q].photo = r.photo
    BY DEF ReceiptsKeepPhotos
  <2>1. Accounted(r.photo) /\ OwnSource(r)
    BY DEF PhotoInv, RowsBegun, HeldInv
  <2> QED BY <2>1 DEF Accounted, OwnSource
<1>2. Typed /\ PhotoInv /\ HeldInv /\ [Next]_vars => HeldInv'
  BY StepHeldInv
<1> QED BY AlwaysTyped, InitPhotoInv, StepPhotoInv, InitHeldInv, <1>1, <1>2, PTL DEF Spec

=============================================================================
