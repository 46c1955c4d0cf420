----------------------------- MODULE TripChoice -----------------------------
(***************************************************************************)
(* The trip a receipt is stored in (stores/UploadStore.ts, F20.1): the     *)
(* trip whose page the upload started from, the user's answer, or what the *)
(* receipt's date says when there was no answer.  The answers are kept by  *)
(* the receipt's place in the upload, and the page learns the trip it was  *)
(* opened from only when the trips have been loaded.                       *)
(***************************************************************************)
EXTENDS FiniteSets

CONSTANTS
    Trips,     \* the trips the user has recorded
    Personal,  \* those that take a receipt unless it is unticked
    Items,     \* the receipts of an upload
    None       \* no trip

ASSUME PersonalAssumption == Personal \subseteq Trips
VARIABLES
    page,         \* the upload page: closed, or the trip its address names
    loading,      \* the addresses of pages whose trips are still being loaded
    trips,        \* TripsStore.trips, {} until loaded
    fromTrip,
    tripAnswers,  \* Asking where there is no answer
    day,          \* transaction_date of each reading: a day of that trip, or of none
    selected,
    reviewing,    \* readings are under review
    placed,       \* where each receipt of the last upload was stored
    seen,         \* what the screen said of it then
    said,         \* the trips the user named for it
    crossed       \* a date was changed after an answer, a page was left before its load,
                  \* receipts were stored with no trips at hand

vars == <<page, loading, trips, fromTrip, tripAnswers, day, selected, reviewing, placed, seen,
          said, crossed>>

Asking == "asking"
Closed == "closed"
ASSUME NamesAssumption == {None, Asking, Closed} \cap Trips = {} /\ None \notin {Asking, Closed}
Somewhere == Trips \cup {None}

TypeOK ==
    /\ page \in Somewhere \cup {Closed}
    /\ loading \subseteq Somewhere
    /\ trips \in {{}, Trips}
    /\ fromTrip \in Somewhere
    /\ tripAnswers \in [Items -> Somewhere \cup {Asking}]
    /\ day \in [Items -> Somewhere]
    /\ selected \subseteq Items
    /\ reviewing \in BOOLEAN
    /\ placed \in [Items -> Somewhere \cup {Asking}]
    /\ seen \in [Items -> Somewhere]
    /\ said \in [Items -> SUBSET Trips]
    /\ crossed \subseteq {"dated", "left", "unloaded"}

Init ==
    /\ page = Closed /\ loading = {} /\ trips = {} /\ fromTrip = None
    /\ tripAnswers = [i \in Items |-> Asking]
    /\ day = [i \in Items |-> None]
    /\ selected = {} /\ reviewing = FALSE
    /\ placed = [i \in Items |-> Asking]
    /\ seen = [i \in Items |-> None]
    /\ said = [i \in Items |-> {}]
    /\ crossed = {}

(***************************************************************************)
(* What the screen says                                                    *)
(***************************************************************************)

(* tripOnDay over the trips at hand: one user's trips never overlap.        *)
tripFor(i) == IF fromTrip = None /\ day[i] \in trips THEN day[i] ELSE None

(* goesIntoTrip is true; a business trip waits for its answer.              *)
goesIntoTrip(i) ==
    /\ tripFor(i) # None
    /\ IF tripAnswers[i] = Asking THEN tripFor(i) \in Personal ELSE tripAnswers[i] = tripFor(i)

unansweredTrips ==
    {i \in selected : tripFor(i) \in Trips \ Personal /\ tripAnswers[i] = Asking}

Shown(i) == IF fromTrip # None THEN fromTrip
            ELSE IF goesIntoTrip(i) THEN tripFor(i) ELSE None

(* tripChoices, and what the server does without one: a personal trip holds *)
(* what is dated within it (repository/receipt.py, on_trip).                *)
Placed(i) == IF fromTrip # None THEN fromTrip
             ELSE IF tripAnswers[i] # Asking THEN tripAnswers[i]
             ELSE IF day[i] \in Personal THEN day[i] ELSE None

NoAnswers == tripAnswers' = [i \in Items |-> Asking]

(***************************************************************************)
(* The page (UploadPage.tsx)                                               *)
(***************************************************************************)

OpenPage(t) ==
    /\ page = Closed /\ t \notin loading
    /\ page' = t
    /\ loading' = loading \cup {t}
    /\ UNCHANGED <<trips, fromTrip, tripAnswers, day, selected, reviewing, placed, seen, said,
                   crossed>>

(* Mutated LeavePage: the effect cleans nothing up.                         *)
LeavePageAsItIs ==
    /\ page # Closed
    /\ page' = Closed
    /\ crossed' = IF page \in loading THEN crossed \cup {"left"} ELSE crossed
    /\ UNCHANGED <<loading, trips, fromTrip, tripAnswers, day, selected, reviewing, placed, seen,
                   said>>

(* The effect's cleanup: setFromTrip(null).  What is loading goes on.       *)
LeavePage ==
    /\ page # Closed
    /\ page' = Closed
    /\ fromTrip' = None /\ NoAnswers
    /\ crossed' = IF page \in loading THEN crossed \cup {"left"} ELSE crossed
    /\ UNCHANGED <<loading, trips, day, selected, reviewing, placed, seen, said>>

(* The load is answered, or fails and leaves the trips as they were; either *)
(* way setFromTrip looks the address's trip up in them.                     *)
Loaded(t) ==
    /\ t \in loading
    /\ loading' = loading \ {t}
    /\ \E known \in {trips, Trips} :
        /\ trips' = known
        /\ fromTrip' = IF t \in known THEN t ELSE None
    /\ NoAnswers
    /\ UNCHANGED <<page, day, selected, reviewing, placed, seen, said, crossed>>

(***************************************************************************)
(* The review                                                              *)
(***************************************************************************)

Read ==
    /\ ~reviewing
    /\ reviewing' = TRUE
    /\ day' \in [Items -> Somewhere]
    /\ selected' = Items
    /\ placed' = [i \in Items |-> Asking] /\ seen' = [i \in Items |-> None]
    /\ said' = [i \in Items |-> {}]
    /\ UNCHANGED <<page, loading, trips, fromTrip, tripAnswers, crossed>>

(* A receipt leaves the selection: unticked, or skipped as a duplicate.     *)
Leave(i) ==
    /\ page # Closed /\ reviewing /\ i \in selected
    /\ selected' = selected \ {i}
    /\ UNCHANGED <<page, loading, trips, fromTrip, tripAnswers, day, reviewing, placed, seen,
                   said, crossed>>

(* Mutated answerTrip: the tick is kept, and not the trip it was about.     *)
AnswerTripAnywhere(i, into) ==
    /\ page # Closed /\ reviewing /\ i \in selected /\ tripFor(i) # None
    /\ tripAnswers' = [tripAnswers EXCEPT ![i] =
                          IF into THEN CHOOSE t \in trips : TRUE ELSE None]
    /\ said' = [said EXCEPT ![i] = IF into THEN @ \cup {tripFor(i)} ELSE @]
    /\ UNCHANGED <<page, loading, trips, fromTrip, day, selected, reviewing, placed, seen, crossed>>

answerTrip(i, into) ==
    /\ page # Closed /\ reviewing /\ i \in selected /\ tripFor(i) # None
    /\ tripAnswers' = [tripAnswers EXCEPT ![i] = IF into THEN tripFor(i) ELSE None]
    /\ said' = [said EXCEPT ![i] = IF into THEN @ \cup {tripFor(i)} ELSE @ \ {tripFor(i)}]
    /\ UNCHANGED <<page, loading, trips, fromTrip, day, selected, reviewing, placed, seen, crossed>>

(* resolveDate: the answer given for the old date stays.                    *)
ResolveDate(i, d) ==
    /\ page # Closed /\ reviewing /\ d # day[i]
    /\ day' = [day EXCEPT ![i] = d]
    /\ crossed' = IF tripAnswers[i] # Asking THEN crossed \cup {"dated"} ELSE crossed
    /\ UNCHANGED <<page, loading, trips, fromTrip, tripAnswers, selected, reviewing, placed, seen,
                   said>>

(* Mutated Over: the answers stay for whatever is read next.                *)
OverKeepingAnswers == reviewing' = FALSE /\ selected' = {} /\ UNCHANGED tripAnswers

(* resetData: the next readings are asked about afresh.                     *)
Over == reviewing' = FALSE /\ selected' = {} /\ NoAnswers

(* commitJob: every selected receipt is stored where the choices say.       *)
Commit ==
    /\ page # Closed /\ reviewing /\ selected # {} /\ unansweredTrips = {}
    /\ placed' = [i \in Items |-> IF i \in selected THEN Placed(i) ELSE Asking]
    /\ seen' = [i \in Items |-> IF i \in selected THEN Shown(i) ELSE None]
    /\ crossed' = IF trips = {} THEN crossed \cup {"unloaded"} ELSE crossed
    /\ Over
    /\ UNCHANGED <<page, loading, trips, fromTrip, day, said>>

BackToPhotos ==
    /\ page # Closed /\ reviewing
    /\ Over
    /\ UNCHANGED <<page, loading, trips, fromTrip, day, placed, seen, said, crossed>>

Next ==
    \/ \E t \in Somewhere : OpenPage(t) \/ Loaded(t)
    \/ LeavePage
    \/ Read
    \/ \E i \in Items :
        \/ Leave(i)
        \/ \E into \in BOOLEAN : answerTrip(i, into)
        \/ \E d \in Somewhere : ResolveDate(i, d)
    \/ Commit
    \/ BackToPhotos

Spec == Init /\ [][Next]_vars

(***************************************************************************)
(* Properties                                                              *)
(***************************************************************************)

(* A stored receipt is in the trip the screen said it goes into, unless its *)
(* date was changed after the user had answered for the old one, or the     *)
(* trips could not be loaded and nothing was said.                          *)
PlacedAsShown ==
    crossed \cap {"dated", "unloaded"} = {} =>
        \A i \in Items : placed[i] # Asking => placed[i] = seen[i]

(* A business trip takes a receipt only because the user said so of this    *)
(* receipt, or started the upload from that trip's page.                    *)
BusinessOnlyWhenSaid ==
    [][\A i \in Items : placed'[i] # placed[i] /\ placed'[i] \in Trips \ Personal =>
           placed'[i] \in said[i] \/ fromTrip = placed'[i]]_placed

(* An upload goes unasked into a trip only on a page opened from it: the    *)
(* lookup of a page that was left before its trips came may set the trip of *)
(* another page's upload.                                                   *)
FromTripIsThePages ==
    "left" \notin crossed /\ fromTrip # None => fromTrip = page

=============================================================================
