----------------------------- MODULE AccountViews -----------------------------
(***************************************************************************)
(* What one account's screens hold when another signs in in the same       *)
(* browser (stores/RootStore.ts): the stores forget what they hold, but    *)
(* what they had asked for is still answered.  Some stores count their     *)
(* requests and drop all but the latest, and some of these count the       *)
(* forgetting too.                                                         *)
(***************************************************************************)
EXTENDS FiniteSets

CONSTANTS
    Users,
    Counting,     \* count requests, and the reset: BudgetStore, StatisticsStore, IncomeStore
    Numbering,    \* count requests only: ProductsStore, HouseholdStore, BankAccountsStore
    Plain,        \* count nothing: GoalsStore, TripsStore, QuotaStore, AdviceStore
    Requests,     \* requests that may be open at once
    Nobody          \* nobody, nothing

Stores == Counting \cup Numbering \cup Plain
Profile == "profile"

ASSUME StoresAssumption == Profile \notin Stores /\ Counting \cap (Numbering \cup Plain) = {}
ASSUME NobodyAssumption == Nobody \notin Users

VARIABLES
    account,  \* whose access token the browser has
    user,     \* authStore.user, which the stores' forgetting reacts to
    held,    \* whose data each store holds
    asked,    \* the requests that have not been answered
    late      \* stores without a counter for it that were loading when the user changed

accountVars == <<account, user, held, asked, late>>

AccountTypeOK ==
    /\ account \in Users \cup {Nobody}
    /\ user \in Users \cup {Nobody}
    /\ held \in [Stores -> Users \cup {Nobody}]
    /\ asked \in [Requests -> [of : Users, store : Stores \cup {Profile}, current : BOOLEAN]
                              \cup {Nobody}]
    /\ late \subseteq Numbering \cup Plain \cup {Profile}

AccountInit ==
    /\ account = Nobody /\ user = Nobody
    /\ held = [s \in Stores |-> Nobody]
    /\ asked = [q \in Requests |-> Nobody]
    /\ late = {}

Overtaken(requests, stores) ==
    [q \in Requests |-> IF requests[q] # Nobody /\ requests[q].store \in stores
                        THEN [requests[q] EXCEPT !.current = FALSE] ELSE requests[q]]

LoadingStores == {asked[q].store : q \in {r \in Requests : asked[r] # Nobody}}

(* Mutated Forget: the counters stay as they are.                           *)
ForgetUncounted(requests) ==
    /\ held' = IF user' = user THEN held ELSE [s \in Stores |-> Nobody]
    /\ asked' = requests

(* The reaction to another user: every store is reset.                      *)
Forget(requests) ==
    /\ held' = IF user' = user THEN held ELSE [s \in Stores |-> Nobody]
    /\ asked' = IF user' = user THEN requests ELSE Overtaken(requests, Counting)

(***************************************************************************)
(* The account                                                             *)
(***************************************************************************)

SignIn(u) ==
    /\ account = Nobody
    /\ account' = u /\ user' = u
    /\ Forget(asked)
    /\ UNCHANGED late

SignOut ==
    /\ account # Nobody
    /\ account' = Nobody /\ user' = Nobody
    /\ Forget(asked)
    /\ late' = late \cup (LoadingStores \ Counting)

(***************************************************************************)
(* The stores                                                              *)
(***************************************************************************)

(* A screen asks for what it shows; a counting store's earlier request is   *)
(* no longer the latest.                                                    *)
Load(q, s) ==
    /\ account # Nobody /\ asked[q] = Nobody
    /\ LET overtaken == IF s \in Counting \cup Numbering THEN Overtaken(asked, {s}) ELSE asked
       IN  asked' = [overtaken EXCEPT ![q] = [of |-> account, store |-> s, current |-> TRUE]]
    /\ UNCHANGED <<account, user, held, late>>

StoreLoaded(q) ==
    /\ asked[q] # Nobody /\ asked[q].store \in Stores
    /\ held' = IF asked[q].current THEN [held EXCEPT ![asked[q].store] = asked[q].of] ELSE held
    /\ asked' = [asked EXCEPT ![q] = Nobody]
    /\ UNCHANGED <<account, user, late>>

(* ProfileStore.loadProfile: the answer is merged into whoever is there.    *)
ProfileLoaded(q) ==
    /\ asked[q] # Nobody /\ asked[q].store = Profile
    /\ user' = IF user = Nobody THEN Nobody ELSE asked[q].of
    /\ Forget([asked EXCEPT ![q] = Nobody])
    /\ UNCHANGED <<account, late>>

LoadFailed(q) ==
    /\ asked[q] # Nobody
    /\ asked' = [asked EXCEPT ![q] = Nobody]
    /\ UNCHANGED <<account, user, held, late>>

AccountNext ==
    \/ \E u \in Users : SignIn(u)
    \/ SignOut
    \/ \E q \in Requests :
        \/ \E s \in Stores \cup {Profile} : Load(q, s)
        \/ StoreLoaded(q) \/ ProfileLoaded(q) \/ LoadFailed(q)

AccountSpec == AccountInit /\ [][AccountNext]_accountVars

(***************************************************************************)
(* Properties                                                              *)
(***************************************************************************)

(* A new account never sees the previous one's figures while its own load   *)
(* (RootStore), in the stores that count their reset; in the others only    *)
(* what they were loading when the user changed may still come.             *)
NeverAnothersFigures ==
    /\ \A s \in Stores \ late : held[s] # Nobody => held[s] = account
    /\ Profile \notin late => user = account

=============================================================================
