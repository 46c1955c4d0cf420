---------------------------- MODULE TripChoiceProofs ----------------------------
(***************************************************************************)
(* What TripChoice promises, for every set of trips and of receipts.       *)
(***************************************************************************)
EXTENDS TripChoice, TLAPS

(* What the answers may be: none without a review; with dates left alone,   *)
(* about the trip of the receipt's own day; a trip only as the user said.   *)
AnswersInv ==
    /\ ~reviewing => \A i \in Items : tripAnswers[i] = Asking
    /\ "dated" \notin crossed =>
           \A i \in Items : tripAnswers[i] \in {Asking, None} \/ tripAnswers[i] = day[i]
    /\ \A i \in Items : tripAnswers[i] \in Trips => tripAnswers[i] \in said[i]

(* A page that is left with nothing loading leaves no trip behind.          *)
PageInv ==
    "left" \notin crossed =>
        /\ loading \subseteq {page}
        /\ page = Closed => fromTrip = None

TripIInv == TypeOK /\ AnswersInv /\ PageInv /\ FromTripIsThePages /\ PlacedAsShown

LEMMA Names == /\ Asking \notin Somewhere /\ Closed \notin Somewhere
               /\ None \notin Trips /\ Closed # Asking
BY NamesAssumption DEF Somewhere, Asking, Closed

(* The trip a receipt is asked about is its day's, one the page has, or none.*)
LEMMA TripForItsDay ==
    ASSUME TypeOK, NEW i \in Items, tripFor(i) # None
    PROVE  tripFor(i) = day[i] /\ tripFor(i) \in Trips /\ fromTrip = None
BY Names DEF tripFor, TypeOK

(* While the answers are about the day, the screen says what is stored.     *)
LEMMA ShownIsPlaced ==
    ASSUME TripIInv, "dated" \notin crossed, trips # {}, NEW i \in Items
    PROVE  Placed(i) = Shown(i)
<1>1. trips = Trips /\ day[i] \in Somewhere
    BY DEF TripIInv, TypeOK
<1>2. tripAnswers[i] \in {Asking, None} \/ tripAnswers[i] = day[i]
    BY DEF TripIInv, AnswersInv
<1>3. CASE fromTrip # None
    BY <1>3 DEF Placed, Shown
<1>4. CASE fromTrip = None
    <2>1. tripFor(i) = IF day[i] \in Trips THEN day[i] ELSE None
        BY <1>1, <1>4 DEF tripFor
    <2>2. CASE tripAnswers[i] = Asking
        BY <1>1, <1>4, <2>1, <2>2, Names, PersonalAssumption DEF Placed, Shown, goesIntoTrip
    <2>3. CASE tripAnswers[i] # Asking
        BY <1>1, <1>2, <1>4, <2>1, <2>3, Names DEF Placed, Shown, goesIntoTrip, Somewhere
    <2> QED
        BY <2>2, <2>3
<1> QED
    BY <1>3, <1>4

(***************************************************************************)
(* The steps                                                               *)
(***************************************************************************)

(* Ending a review keeps the types and the answers' invariant.              *)
LEMMA OverKeeps ==
    ASSUME TripIInv, Over, UNCHANGED <<day, said>>
    PROVE  /\ AnswersInv'
           /\ tripAnswers' \in [Items -> Somewhere \cup {Asking}]
           /\ selected' \subseteq Items /\ reviewing' \in BOOLEAN
BY Names DEF Over, NoAnswers, AnswersInv, Somewhere, TripIInv

(* Storing writes what the screen says, or marks that no trips were there.  *)
LEMMA CommitKeeps ==
    ASSUME TripIInv, Commit
    PROVE  TripIInv'
<1>0. TypeOK /\ AnswersInv /\ PageInv /\ FromTripIsThePages /\ PlacedAsShown
    BY DEF TripIInv
<1>1. \A i \in Items : Placed(i) \in Somewhere /\ Shown(i) \in Somewhere
    BY <1>0, PersonalAssumption, TripForItsDay DEF Placed, Shown, goesIntoTrip, TypeOK, Somewhere
<1>2. TypeOK'
    <2>1. /\ tripAnswers' \in [Items -> Somewhere \cup {Asking}]
          /\ selected' \subseteq Items /\ reviewing' \in BOOLEAN
        BY OverKeeps DEF Commit
    <2>2. placed' \in [Items -> Somewhere \cup {Asking}] /\ seen' \in [Items -> Somewhere]
        BY <1>1 DEF Commit, Somewhere
    <2> QED
        BY <1>0, <2>1, <2>2 DEF Commit, TypeOK
<1>3. AnswersInv'
    BY OverKeeps DEF Commit
<1>4. PageInv' /\ FromTripIsThePages'
    BY <1>0 DEF Commit, PageInv, FromTripIsThePages
<1>5. PlacedAsShown'
    <2> SUFFICES ASSUME crossed' \cap {"dated", "unloaded"} = {},
                        NEW i \in Items, placed'[i] # Asking
                 PROVE  placed'[i] = seen'[i]
        BY DEF PlacedAsShown
    <2>1. "dated" \notin crossed /\ trips # {}
        BY DEF Commit
    <2>2. i \in selected
        BY DEF Commit
    <2> QED
        BY <2>1, <2>2, ShownIsPlaced DEF Commit
<1> QED
    BY <1>2, <1>3, <1>4, <1>5 DEF TripIInv

(* A step that leaves a page or hears of its trips.                         *)
LEMMA PageKeeps ==
    ASSUME TripIInv, LeavePage \/ (\E t \in Somewhere : OpenPage(t) \/ Loaded(t))
    PROVE  TripIInv'
<1>0. TypeOK /\ AnswersInv /\ PageInv /\ FromTripIsThePages /\ PlacedAsShown
    BY DEF TripIInv
<1>1. CASE LeavePage
    <2>1. TypeOK'
        BY <1>0, <1>1 DEF LeavePage, NoAnswers, TypeOK, Somewhere
    <2>2. AnswersInv'
        BY <1>0, <1>1, Names DEF LeavePage, NoAnswers, AnswersInv, Somewhere
    <2>3. PageInv' /\ FromTripIsThePages' /\ PlacedAsShown'
        BY <1>0, <1>1 DEF LeavePage, PageInv, FromTripIsThePages, PlacedAsShown
    <2> QED
        BY <2>1, <2>2, <2>3 DEF TripIInv
<1>2. ASSUME NEW t \in Somewhere, OpenPage(t) PROVE TripIInv'
    <2>1. TypeOK'
        BY <1>0, <1>2 DEF OpenPage, TypeOK
    <2>2. AnswersInv' /\ PlacedAsShown'
        BY <1>0, <1>2 DEF OpenPage, AnswersInv, PlacedAsShown
    <2>3. PageInv' /\ FromTripIsThePages'
        BY <1>0, <1>2, Names DEF OpenPage, PageInv, FromTripIsThePages, TypeOK
    <2> QED
        BY <2>1, <2>2, <2>3 DEF TripIInv
<1>3. ASSUME NEW t \in Somewhere, Loaded(t) PROVE TripIInv'
    <2>0. PICK known \in {trips, Trips} :
              trips' = known /\ fromTrip' = IF t \in known THEN t ELSE None
        BY <1>3 DEF Loaded
    <2>1. TypeOK'
        BY <1>0, <1>3, <2>0 DEF Loaded, NoAnswers, TypeOK, Somewhere
    <2>2. AnswersInv' /\ PlacedAsShown'
        BY <1>0, <1>3, Names DEF Loaded, NoAnswers, AnswersInv, PlacedAsShown, Somewhere
    <2>3. PageInv' /\ FromTripIsThePages'
        BY <1>0, <1>3, <2>0, Names DEF Loaded, PageInv, FromTripIsThePages
    <2> QED
        BY <2>1, <2>2, <2>3 DEF TripIInv
<1> QED
    BY <1>1, <1>2, <1>3

(* A step of the review before it ends.                                     *)
LEMMA ReviewKeeps ==
    ASSUME TripIInv, NEW i \in Items,
           \/ Leave(i)
           \/ \E into \in BOOLEAN : answerTrip(i, into)
           \/ \E d \in Somewhere : ResolveDate(i, d)
    PROVE  TripIInv'
<1>0. TypeOK /\ AnswersInv /\ PageInv /\ FromTripIsThePages /\ PlacedAsShown
    BY DEF TripIInv
<1>1. CASE Leave(i)
    <2>1. TypeOK'
        BY <1>0, <1>1 DEF Leave, TypeOK
    <2>2. AnswersInv' /\ PageInv' /\ FromTripIsThePages' /\ PlacedAsShown'
        BY <1>0, <1>1 DEF Leave, AnswersInv, PageInv, FromTripIsThePages, PlacedAsShown
    <2> QED
        BY <2>1, <2>2 DEF TripIInv
<1>2. ASSUME NEW into \in BOOLEAN, answerTrip(i, into) PROVE TripIInv'
    <2>1. tripFor(i) = day[i] /\ tripFor(i) \in Trips
        BY <1>0, <1>2, TripForItsDay DEF answerTrip
    <2> DEFINE t == tripFor(i)
    <2>2. /\ tripAnswers' = [tripAnswers EXCEPT ![i] = IF into THEN t ELSE None]
          /\ said' = [said EXCEPT ![i] = IF into THEN @ \cup {t} ELSE @ \ {t}]
          /\ reviewing
          /\ UNCHANGED <<page, loading, trips, fromTrip, day, selected, reviewing, placed, seen,
                         crossed>>
        BY <1>2 DEF answerTrip
    <2>3. t = day[i] /\ t \in Trips
        BY <2>1
    <2> HIDE DEF t
    <2>4. TypeOK'
        BY <1>0, <2>2, <2>3 DEF TypeOK, Somewhere
    <2>5. AnswersInv'
        <3>1. \A j \in Items \ {i} : tripAnswers'[j] = tripAnswers[j] /\ said'[j] = said[j]
            BY <1>0, <2>2 DEF TypeOK
        <3>2. tripAnswers'[i] = (IF into THEN t ELSE None)
            BY <1>0, <2>2 DEF TypeOK
        <3>3. into => t \in said'[i]
            BY <1>0, <2>2 DEF TypeOK
        <3> QED
            BY <1>0, <2>2, <2>3, <3>1, <3>2, <3>3, Names DEF AnswersInv
    <2>6. PageInv' /\ FromTripIsThePages' /\ PlacedAsShown'
        BY <1>0, <2>2 DEF PageInv, FromTripIsThePages, PlacedAsShown
    <2> QED
        BY <2>4, <2>5, <2>6 DEF TripIInv
<1>3. ASSUME NEW d \in Somewhere, ResolveDate(i, d) PROVE TripIInv'
    <2>1. TypeOK'
        BY <1>0, <1>3 DEF ResolveDate, TypeOK
    <2>2. AnswersInv'
        BY <1>0, <1>3 DEF ResolveDate, AnswersInv, TypeOK
    <2>3. PageInv' /\ FromTripIsThePages' /\ PlacedAsShown'
        BY <1>0, <1>3 DEF ResolveDate, PageInv, FromTripIsThePages, PlacedAsShown
    <2> QED
        BY <2>1, <2>2, <2>3 DEF TripIInv
<1> QED
    BY <1>1, <1>2, <1>3

(* Readings come, or are put aside.                                         *)
LEMMA ReadingKeeps ==
    ASSUME TripIInv, Read \/ BackToPhotos
    PROVE  TripIInv'
<1>0. TypeOK /\ AnswersInv /\ PageInv /\ FromTripIsThePages /\ PlacedAsShown
    BY DEF TripIInv
<1>1. CASE Read
    <2>1. TypeOK'
        BY <1>0, <1>1 DEF Read, TypeOK, Somewhere
    <2>2. \A i \in Items : tripAnswers'[i] = Asking
        BY <1>0, <1>1 DEF Read, AnswersInv
    <2>3. AnswersInv'
        BY <2>2, Names DEF AnswersInv, Somewhere
    <2>4. PageInv' /\ FromTripIsThePages' /\ PlacedAsShown'
        BY <1>0, <1>1 DEF Read, PageInv, FromTripIsThePages, PlacedAsShown
    <2> QED
        BY <2>1, <2>3, <2>4 DEF TripIInv
<1>2. CASE BackToPhotos
    <2>1. TypeOK' /\ AnswersInv'
        BY <1>0, <1>2, OverKeeps DEF BackToPhotos, TypeOK
    <2>2. PageInv' /\ FromTripIsThePages' /\ PlacedAsShown'
        BY <1>0, <1>2 DEF BackToPhotos, PageInv, FromTripIsThePages, PlacedAsShown
    <2> QED
        BY <2>1, <2>2 DEF TripIInv
<1> QED
    BY <1>1, <1>2

(* The invariant is inductive.                                              *)
THEOREM TripInvariant == Spec => []TripIInv
<1>1. Init => TripIInv
    BY Names DEF Init, TripIInv, TypeOK, AnswersInv, PageInv, FromTripIsThePages, PlacedAsShown,
                 Somewhere
<1>2. TripIInv /\ [Next]_vars => TripIInv'
    <2> SUFFICES ASSUME TripIInv, [Next]_vars
                 PROVE  TripIInv'
        OBVIOUS
    <2>1. CASE UNCHANGED vars
        BY <2>1 DEF vars, TripIInv, TypeOK, AnswersInv, PageInv, FromTripIsThePages, PlacedAsShown
    <2> QED
        BY <2>1, CommitKeeps, PageKeeps, ReviewKeeps, ReadingKeeps DEF Next
<1> QED
    BY <1>1, <1>2, PTL DEF Spec

(***************************************************************************)
(* The promises                                                            *)
(***************************************************************************)

(* Every variable keeps its type.                                           *)
THEOREM TripTypeCorrect == Spec => []TypeOK
<1>1. TripIInv => TypeOK
    BY DEF TripIInv
<1> QED
    BY <1>1, TripInvariant, PTL

(* A receipt is stored in the trip the screen said, while the answers are   *)
(* about its own date and the trips were known.                             *)
THEOREM StoredWhereShown == Spec => []PlacedAsShown
<1>1. TripIInv => PlacedAsShown
    BY DEF TripIInv
<1> QED
    BY <1>1, TripInvariant, PTL

(* Only a page opened from a trip puts its upload into one unasked.         *)
THEOREM TripOfThePage == Spec => []FromTripIsThePages
<1>1. TripIInv => FromTripIsThePages
    BY DEF TripIInv
<1> QED
    BY <1>1, TripInvariant, PTL

(* A business trip takes no receipt unless the user said so.                *)
THEOREM BusinessTripAsked == Spec => BusinessOnlyWhenSaid
<1> DEFINE Asked == \A i \in Items : placed'[i] # placed[i] /\ placed'[i] \in Trips \ Personal =>
                        placed'[i] \in said[i] \/ fromTrip = placed'[i]
<1>1. TripIInv /\ [Next]_vars => [Asked]_placed
    <2> SUFFICES ASSUME TripIInv, [Next]_vars, placed' # placed
                 PROVE  Asked
        OBVIOUS
    <2>1. Read \/ Commit
        BY DEF Next, vars, OpenPage, Loaded, LeavePage, Leave, answerTrip, ResolveDate,
               BackToPhotos
    <2>2. CASE Read
        BY <2>2, Names DEF Read, Somewhere
    <2>3. CASE Commit
        <3> SUFFICES ASSUME NEW i \in Items, placed'[i] \in Trips \ Personal
                     PROVE  placed'[i] \in said[i] \/ fromTrip = placed'[i]
            OBVIOUS
        <3>1. placed'[i] = Placed(i)
            BY <2>3, Names DEF Commit, Somewhere
        <3>2. tripAnswers[i] \in Trips => tripAnswers[i] \in said[i]
            BY DEF TripIInv, AnswersInv
        <3> QED
            BY <3>1, <3>2, Names DEF Placed
    <2> QED
        BY <2>1, <2>2, <2>3
<1> QED
    BY <1>1, TripInvariant, PTL DEF Spec, BusinessOnlyWhenSaid

=============================================================================
