--------------------------- MODULE AccountViewsProofs ---------------------------
(***************************************************************************)
(* What AccountViews promises, for every set of accounts and stores.       *)
(***************************************************************************)
EXTENDS AccountViews, TLAPS

Request == [of : Users, store : Stores \cup {Profile}, current : BOOLEAN]

(***************************************************************************)
(* Types                                                                   *)
(***************************************************************************)

(* Taking requests as overtaken leaves requests.                            *)
LEMMA OvertakenType ==
    ASSUME NEW requests \in [Requests -> Request \cup {Nobody}], NEW stores
    PROVE  Overtaken(requests, stores) \in [Requests -> Request \cup {Nobody}]
<1> SUFFICES ASSUME NEW q \in Requests
             PROVE  Overtaken(requests, stores)[q] \in Request \cup {Nobody}
    BY DEF Overtaken
<1>1. CASE requests[q] # Nobody /\ requests[q].store \in stores
    <2>1. requests[q] \in Request
        BY <1>1
    <2> QED
        BY <1>1, <2>1 DEF Overtaken, Request
<1>2. CASE ~(requests[q] # Nobody /\ requests[q].store \in stores)
    BY <1>2 DEF Overtaken
<1> QED
    BY <1>1, <1>2

(* Forgetting keeps the types of what the stores hold and have asked for.   *)
LEMMA ForgetType ==
    ASSUME AccountTypeOK, NEW requests \in [Requests -> Request \cup {Nobody}], Forget(requests)
    PROVE  /\ held' \in [Stores -> Users \cup {Nobody}]
           /\ asked' \in [Requests -> Request \cup {Nobody}]
BY OvertakenType DEF Forget, AccountTypeOK

(* Every variable keeps its type.                                           *)
THEOREM TypeCorrect == AccountSpec => []AccountTypeOK
<1>1. AccountInit => AccountTypeOK
    BY DEF AccountInit, AccountTypeOK
<1>2. AccountTypeOK /\ [AccountNext]_accountVars => AccountTypeOK'
    <2> SUFFICES ASSUME AccountTypeOK, [AccountNext]_accountVars
                 PROVE  AccountTypeOK'
        OBVIOUS
    <2>0. asked \in [Requests -> Request \cup {Nobody}]
        BY DEF AccountTypeOK, Request
    <2>1. ASSUME NEW u \in Users, SignIn(u) PROVE AccountTypeOK'
        BY <2>0, <2>1, ForgetType DEF SignIn, AccountTypeOK, Request
    <2>2. CASE SignOut
        <3>1. LoadingStores \subseteq Stores \cup {Profile}
            BY <2>0 DEF LoadingStores, Request
        <3>2. late' \subseteq Numbering \cup Plain \cup {Profile}
            BY <2>2, <3>1 DEF SignOut, AccountTypeOK, Stores
        <3>3. /\ held' \in [Stores -> Users \cup {Nobody}]
              /\ asked' \in [Requests -> Request \cup {Nobody}]
            BY <2>0, <2>2, ForgetType DEF SignOut
        <3> QED
            BY <2>2, <3>2, <3>3 DEF SignOut, AccountTypeOK, Request
    <2>3. ASSUME NEW q \in Requests, NEW s \in Stores \cup {Profile}, Load(q, s) PROVE AccountTypeOK'
        <3> DEFINE overtaken == IF s \in Counting \cup Numbering THEN Overtaken(asked, {s}) ELSE asked
        <3>1. overtaken \in [Requests -> Request \cup {Nobody}]
            BY <2>0, OvertakenType
        <3>2. [of |-> account, store |-> s, current |-> TRUE] \in Request
            BY <2>3 DEF Load, AccountTypeOK, Request
        <3> HIDE DEF overtaken
        <3>3. asked' = [overtaken EXCEPT ![q] = [of |-> account, store |-> s, current |-> TRUE]]
            BY <2>3 DEF Load, overtaken
        <3>4. asked' \in [Requests -> Request \cup {Nobody}]
            BY <3>1, <3>2, <3>3
        <3> QED
            BY <2>3, <3>4 DEF Load, AccountTypeOK, Request
    <2>4. ASSUME NEW q \in Requests, StoreLoaded(q) PROVE AccountTypeOK'
        BY <2>0, <2>4 DEF StoreLoaded, AccountTypeOK, Request
    <2>5. ASSUME NEW q \in Requests, ProfileLoaded(q) PROVE AccountTypeOK'
        <3>1. [asked EXCEPT ![q] = Nobody] \in [Requests -> Request \cup {Nobody}]
            BY <2>0
        <3>2. user' \in Users \cup {Nobody}
            BY <2>0, <2>5 DEF ProfileLoaded, Request
        <3> QED
            BY <2>5, <3>1, <3>2, ForgetType DEF ProfileLoaded, AccountTypeOK, Request
    <2>6. ASSUME NEW q \in Requests, LoadFailed(q) PROVE AccountTypeOK'
        BY <2>0, <2>6 DEF LoadFailed, AccountTypeOK, Request
    <2>7. CASE UNCHANGED accountVars
        BY <2>7 DEF accountVars, AccountTypeOK
    <2> QED
        BY <2>1, <2>2, <2>3, <2>4, <2>5, <2>6, <2>7 DEF AccountNext
<1> QED
    BY <1>1, <1>2, PTL DEF AccountSpec

(***************************************************************************)
(* No store holds another account's data                                   *)
(***************************************************************************)

(* Not inductive alone: what is still to be answered must be the account's  *)
(* own too, there is a user exactly while there is an account, and nothing  *)
(* overtakes a request for the profile.                                     *)
OwnRequests ==
    /\ account = Nobody <=> user = Nobody
    /\ \A q \in Requests :
           asked[q] # Nobody /\ asked[q].current /\ asked[q].store \notin late => asked[q].of = account
    /\ \A q \in Requests : asked[q] # Nobody /\ asked[q].store = Profile => asked[q].current

Strong == NeverAnothersFigures /\ OwnRequests

(* A request that is current after an overtaking was so before, unchanged.  *)
LEMMA OvertakenCurrent ==
    ASSUME NEW requests \in [Requests -> Request \cup {Nobody}], NEW stores, NEW q \in Requests,
           Overtaken(requests, stores)[q] # Nobody, Overtaken(requests, stores)[q].current
    PROVE  /\ Overtaken(requests, stores)[q] = requests[q]
           /\ requests[q].store \notin stores
<1>1. CASE requests[q] # Nobody /\ requests[q].store \in stores
    <2>1. requests[q] \in Request
        BY <1>1
    <2>2. Overtaken(requests, stores)[q].current = FALSE
        BY <1>1, <2>1 DEF Overtaken, Request
    <2> QED
        BY <2>2
<1>2. CASE ~(requests[q] # Nobody /\ requests[q].store \in stores)
    BY <1>2 DEF Overtaken
<1> QED
    BY <1>1, <1>2

(* Overtaking stores leaves the requests for the profile as they are.       *)
LEMMA OvertakenProfile ==
    ASSUME NEW requests \in [Requests -> Request \cup {Nobody}], NEW stores, Profile \notin stores,
           \A q \in Requests : requests[q] # Nobody /\ requests[q].store = Profile => requests[q].current
    PROVE  \A q \in Requests :
               /\ Overtaken(requests, stores)[q] # Nobody
               /\ Overtaken(requests, stores)[q].store = Profile
               => Overtaken(requests, stores)[q].current
<1> SUFFICES ASSUME NEW q \in Requests,
                    Overtaken(requests, stores)[q] # Nobody,
                    Overtaken(requests, stores)[q].store = Profile
             PROVE  Overtaken(requests, stores)[q].current
    OBVIOUS
<1>1. CASE requests[q] # Nobody /\ requests[q].store \in stores
    <2>1. requests[q] \in Request
        BY <1>1
    <2>2. Overtaken(requests, stores)[q].store = requests[q].store
        BY <1>1, <2>1 DEF Overtaken, Request
    <2> QED
        BY <1>1, <2>2
<1>2. CASE ~(requests[q] # Nobody /\ requests[q].store \in stores)
    BY <1>2 DEF Overtaken
<1> QED
    BY <1>1, <1>2

(* One account's stores never show another's figures, but for those that    *)
(* were loading without a counter when the account changed.                 *)
THEOREM FiguresAreOwn == AccountSpec => []NeverAnothersFigures
<1>1. AccountInit => Strong
    BY DEF AccountInit, Strong, NeverAnothersFigures, OwnRequests
<1>2. AccountTypeOK /\ Strong /\ [AccountNext]_accountVars => Strong'
    <2> SUFFICES ASSUME AccountTypeOK, Strong, [AccountNext]_accountVars
                 PROVE  Strong'
        OBVIOUS
    <2>0. asked \in [Requests -> Request \cup {Nobody}]
        BY DEF AccountTypeOK, Request
    <2> USE NobodyAssumption
    <2>p. Profile \notin Stores /\ Counting \subseteq Stores /\ Numbering \subseteq Stores
        BY StoresAssumption DEF Stores
    <2>o. \A q \in Requests : asked[q] # Nobody /\ asked[q].store = Profile => asked[q].current
        BY DEF Strong, OwnRequests
    <2>1. ASSUME NEW u \in Users, SignIn(u) PROVE Strong'
        <3>1. user = Nobody /\ user' = u /\ account' = u /\ late' = late
            BY <2>1 DEF SignIn, Strong, OwnRequests
        <3>2. held' = [s \in Stores |-> Nobody] /\ asked' = Overtaken(asked, Counting)
            BY <2>1, <3>1 DEF SignIn, Forget
        <3>3. ASSUME NEW q \in Requests, asked'[q] # Nobody, asked'[q].current,
                     asked'[q].store \notin late'
              PROVE  FALSE
            <4>1. asked[q] = asked'[q]
                BY <2>0, <3>2, <3>3, OvertakenCurrent
            <4>2. asked[q] \in Request /\ asked[q].of = Nobody
                BY <2>0, <2>1, <3>1, <3>3, <4>1 DEF Strong, OwnRequests, SignIn
            <4> QED
                BY <4>2 DEF Request
        <3>4. \A q \in Requests : asked'[q] # Nobody /\ asked'[q].store = Profile => asked'[q].current
            BY <2>0, <2>o, <2>p, <3>2, OvertakenProfile
        <3> QED
            BY <3>1, <3>2, <3>3, <3>4 DEF Strong, NeverAnothersFigures, OwnRequests
    <2>2. CASE SignOut
        <3>1. user # Nobody /\ user' = Nobody /\ account' = Nobody
            BY <2>2 DEF SignOut, Strong, OwnRequests
        <3>2. held' = [s \in Stores |-> Nobody] /\ asked' = Overtaken(asked, Counting)
            BY <2>2, <3>1 DEF SignOut, Forget
        <3>3. ASSUME NEW q \in Requests, asked'[q] # Nobody, asked'[q].current
              PROVE  asked'[q].store \in late'
            <4>1. asked[q] = asked'[q] /\ asked[q].store \notin Counting
                BY <2>0, <3>2, <3>3, OvertakenCurrent
            <4>2. asked[q].store \in LoadingStores
                BY <3>3, <4>1 DEF LoadingStores
            <4> QED
                BY <2>2, <4>1, <4>2 DEF SignOut
        <3>4. \A q \in Requests : asked'[q] # Nobody /\ asked'[q].store = Profile => asked'[q].current
            BY <2>0, <2>o, <2>p, <3>2, OvertakenProfile
        <3> QED
            BY <3>1, <3>2, <3>3, <3>4 DEF Strong, NeverAnothersFigures, OwnRequests
    <2>3. ASSUME NEW q \in Requests, NEW s \in Stores \cup {Profile}, Load(q, s) PROVE Strong'
        <3> DEFINE overtaken == IF s \in Counting \cup Numbering THEN Overtaken(asked, {s}) ELSE asked
        <3>1. overtaken \in [Requests -> Request \cup {Nobody}]
            BY <2>0, OvertakenType
        <3>2. ASSUME NEW r \in Requests, overtaken[r] # Nobody, overtaken[r].current
              PROVE  overtaken[r] = asked[r]
            BY <2>0, <3>2, OvertakenCurrent
        <3>6. \A r \in Requests : overtaken[r] # Nobody /\ overtaken[r].store = Profile
                                => overtaken[r].current
            <4>1. CASE s \in Counting \cup Numbering
                <5>1. Profile \notin {s}
                    BY <2>p, <4>1
                <5> QED
                    BY <2>0, <2>o, <4>1, <5>1, OvertakenProfile
            <4>2. CASE s \notin Counting \cup Numbering
                BY <2>o, <4>2
            <4> QED
                BY <4>1, <4>2
        <3> HIDE DEF overtaken
        <3>3. asked' = [overtaken EXCEPT ![q] = [of |-> account, store |-> s, current |-> TRUE]]
            BY <2>3 DEF Load, overtaken
        <3>4. UNCHANGED <<account, user, held, late>>
            BY <2>3 DEF Load
        <3>5. ASSUME NEW r \in Requests, asked'[r] # Nobody, asked'[r].current,
                     asked'[r].store \notin late'
              PROVE  asked'[r].of = account'
            <4>1. CASE r = q
                BY <3>1, <3>3, <3>4, <4>1
            <4>2. CASE r # q
                <5>1. asked'[r] = overtaken[r]
                    BY <3>1, <3>3, <4>2
                <5>2. asked'[r] = asked[r]
                    BY <3>2, <3>5, <5>1
                <5> QED
                    BY <3>4, <3>5, <5>2 DEF Strong, OwnRequests
            <4> QED
                BY <4>1, <4>2
        <3>7. \A r \in Requests : asked'[r] # Nobody /\ asked'[r].store = Profile => asked'[r].current
            BY <3>1, <3>3, <3>6
        <3> QED
            BY <3>4, <3>5, <3>7 DEF Strong, NeverAnothersFigures, OwnRequests
    <2>4. ASSUME NEW q \in Requests, StoreLoaded(q) PROVE Strong'
        <3>1. \A s \in Stores \ late : held'[s] # Nobody => held'[s] = account
            BY <2>0, <2>4 DEF StoreLoaded, Strong, NeverAnothersFigures, OwnRequests, AccountTypeOK
        <3>2. \A r \in Requests : asked'[r] # Nobody => asked'[r] = asked[r]
            BY <2>0, <2>4 DEF StoreLoaded
        <3> QED
            BY <2>4, <3>1, <3>2 DEF StoreLoaded, Strong, NeverAnothersFigures, OwnRequests
    <2>5. ASSUME NEW q \in Requests, ProfileLoaded(q) PROVE Strong'
        <3> DEFINE rest == [asked EXCEPT ![q] = Nobody]
        <3>1. rest \in [Requests -> Request \cup {Nobody}]
            BY <2>0
        <3>2. UNCHANGED <<account, late>> /\ Forget(rest)
            BY <2>5 DEF ProfileLoaded
        <3>3. \A r \in Requests : rest[r] # Nobody => rest[r] = asked[r]
            BY <2>0
        <3> HIDE DEF rest
        <3>4. ASSUME NEW r \in Requests, asked'[r] # Nobody, asked'[r].current
              PROVE  asked'[r] = asked[r]
            BY <3>1, <3>2, <3>3, <3>4, OvertakenCurrent DEF Forget
        <3>5. user' = Nobody <=> user = Nobody
            BY <2>0, <2>5 DEF ProfileLoaded, Request
        <3>6. \A s \in Stores : held'[s] = held[s] \/ held'[s] = Nobody
            BY <3>2 DEF Forget
        <3>7. Profile \notin late => user' = account
            <4>1. CASE ~asked[q].current
                BY <2>5, <4>1 DEF ProfileLoaded, Strong, OwnRequests
            <4>2. CASE asked[q].current
                BY <2>5, <4>2 DEF ProfileLoaded, Strong, OwnRequests, NeverAnothersFigures
            <4> QED
                BY <4>1, <4>2
        <3>8. \A r \in Requests : asked'[r] # Nobody /\ asked'[r].store = Profile => asked'[r].current
            <4>1. \A r \in Requests : rest[r] # Nobody /\ rest[r].store = Profile => rest[r].current
                BY <2>o, <3>3
            <4> QED
                BY <2>p, <3>1, <3>2, <4>1, OvertakenProfile DEF Forget
        <3> QED
            BY <3>2, <3>4, <3>5, <3>6, <3>7, <3>8 DEF Strong, NeverAnothersFigures, OwnRequests
    <2>6. ASSUME NEW q \in Requests, LoadFailed(q) PROVE Strong'
        <3>1. \A r \in Requests : asked'[r] # Nobody => asked'[r] = asked[r]
            BY <2>0, <2>6 DEF LoadFailed
        <3> QED
            BY <2>6, <3>1 DEF LoadFailed, Strong, NeverAnothersFigures, OwnRequests
    <2>7. CASE UNCHANGED accountVars
        BY <2>7 DEF accountVars, Strong, NeverAnothersFigures, OwnRequests
    <2> QED
        BY <2>1, <2>2, <2>3, <2>4, <2>5, <2>6, <2>7 DEF AccountNext
<1>3. Strong => NeverAnothersFigures
    BY DEF Strong
<1> QED
    BY <1>1, <1>2, <1>3, TypeCorrect, PTL DEF AccountSpec

=============================================================================
