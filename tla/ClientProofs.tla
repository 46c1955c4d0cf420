----------------------------- MODULE ClientProofs -----------------------------
(***************************************************************************)
(* Proofs about the other stores of the client: the session and the        *)
(* conversation with the assistant, and that all stores keep their types.  *)
(***************************************************************************)
EXTENDS ReceiptStoreProofs, TripChoiceProofs, AccountViewsProofs, FiniteSetTheorems

(***************************************************************************)
(* The session within the client                                           *)
(***************************************************************************)

(* What the client begins with, and does, the session begins with, and does.*)
LEMMA SessionBegins == ClientInit => Session!Init
BY DEF ClientInit

LEMMA SessionMoves == [ClientNext]_clientVars => [Session!Next]_sessionVars
BY DEF ClientNext, clientVars, sessionVars

(* The tokens of a family that is revoked, and of every other.              *)
LEMMA RevokedType ==
    ASSUME Session!TypeOK, NEW f \in Families
    PROVE  /\ Session!Revoked(f) \in [Families -> [Session!Numbers -> {"none", "live", "spent"}]]
           /\ \A g \in Families : g # f => Session!Revoked(f)[g] = token[g]
           /\ \A n \in Session!Numbers : Session!Revoked(f)[f][n] = "none" <=> token[f][n] = "none"
BY DEF Session!Revoked, Session!TypeOK

(* The session's state keeps its types.                                     *)
LEMMA SessionTyped ==
    ASSUME Session!TypeOK, [Session!Next]_sessionVars
    PROVE  Session!TypeOK'
<1> USE SizeAssumption
<1>a. 1 \in Session!Numbers
    BY DEF Session!Numbers
<1>1. ASSUME NEW t \in Tabs, NEW f \in Families, Session!SignIn(t, f)
      PROVE  Session!TypeOK'
    <2>1. [family |-> f, number |-> 1] \in Session!Session
        BY <1>a DEF Session!Session
    <2>2. token' \in [Families -> [Session!Numbers -> {"none", "live", "spent"}]]
        BY <1>a, <1>1 DEF Session!SignIn, Session!TypeOK
    <2> QED
        BY <1>1, <2>1, <2>2 DEF Session!SignIn, Session!persistSession, Session!Note, Session!TypeOK
<1>2. ASSUME NEW t \in Tabs, Session!OpenTab(t)
      PROVE  Session!TypeOK'
    BY <1>2 DEF Session!OpenTab, Session!TypeOK
<1>3. ASSUME NEW t \in Tabs, Session!LogOut(t)
      PROVE  Session!TypeOK'
    BY <1>3 DEF Session!LogOut, Session!Note, Session!Leaving, Session!TypeOK
<1>4. ASSUME NEW t \in Tabs, Session!LoggedOut(t)
      PROVE  Session!TypeOK'
    <2>1. leaving[t].sent.family \in Families
        BY <1>4 DEF Session!LoggedOut, Session!Leaving, Session!Session, Session!TypeOK
    <2>2. left' \in [Tabs -> SUBSET Families]
        BY <1>4, <2>1 DEF Session!LoggedOut, Session!TypeOK
    <2> QED
        BY <1>4, <2>2 DEF Session!LoggedOut, Session!logoutLocally, Session!Note, Session!TypeOK
<1>5. ASSUME NEW t \in Tabs, Session!ServeLogout(t)
      PROVE  Session!TypeOK'
    <2>1. leaving[t] \in Session!Leaving /\ leaving[t].sent.family \in Families
        BY <1>5 DEF Session!ServeLogout, Session!Leaving, Session!Session, Session!TypeOK
    <2>2. leaving' \in [Tabs -> Session!Leaving \cup {None}]
        BY <1>5, <2>1 DEF Session!ServeLogout, Session!Leaving, Session!TypeOK
    <2> QED
        BY <1>5, <2>1, <2>2, RevokedType DEF Session!ServeLogout, Session!TypeOK
<1>6. ASSUME NEW t \in Tabs, NEW c \in Calls, Session!Refresh(c, t)
      PROVE  Session!TypeOK'
    <2>1. [tab |-> t, sent |-> memory[t], step |-> "sent", got |-> None] \in Session!Request
        BY <1>6 DEF Session!Refresh, Session!Request, Session!TypeOK
    <2> QED
        BY <1>6, <2>1 DEF Session!Refresh, Session!Note, Session!TypeOK
<1>7. ASSUME NEW c \in Calls, Session!Renewed(c) \/ Session!Refused(c) \/ Session!RefreshLost(c)
      PROVE  Session!TypeOK'
    <2>1. refreshes[c] \in Session!Request
        BY <1>7 DEF Session!Renewed, Session!Refused, Session!RefreshLost, Session!TypeOK
    <2> QED
        BY <1>7, <2>1 DEF Session!Renewed, Session!Refused, Session!RefreshLost, Session!Request,
                          Session!persistSession, Session!logoutLocally, Session!TypeOK
<1>8. ASSUME NEW c \in Calls, Session!ServeRead(c)
      PROVE  Session!TypeOK'
    <2>1. refreshes' \in [Calls -> Session!Request \cup {None}]
        <3>1. PICK s \in {"read", "refused"} : refreshes' = [refreshes EXCEPT ![c].step = s]
            BY <1>8 DEF Session!ServeRead
        <3>2. /\ refreshes \in [Calls -> Session!Request \cup {None}]
              /\ refreshes[c] \in Session!Request
            BY <1>8 DEF Session!ServeRead, Session!TypeOK
        <3>3. [refreshes[c] EXCEPT !.step = s] \in Session!Request
            BY <3>1, <3>2 DEF Session!Request
        <3>4. refreshes' = [refreshes EXCEPT ![c] = [refreshes[c] EXCEPT !.step = s]]
            BY <3>1
        <3> QED
            BY <3>2, <3>3, <3>4
    <2> QED
        BY <1>8, <2>1 DEF Session!ServeRead, Session!RolledBack, Session!TypeOK
<1>9. ASSUME NEW c \in Calls, Session!ServeRenewed(c)
      PROVE  Session!TypeOK'
    <2>1. refreshes[c] \in Session!Request /\ refreshes[c].sent \in Session!Session
        BY <1>9 DEF Session!ServeRenewed, Session!Request, Session!TypeOK
    <2> DEFINE f == refreshes[c].sent.family
    <2>2. PICK n \in Session!Numbers :
              /\ token' = [token EXCEPT ![f][refreshes[c].sent.number] = "spent", ![f][n] = "live"]
              /\ refreshes' = [refreshes EXCEPT ![c].step = "renewed",
                                                ![c].got = [family |-> f, number |-> n]]
        BY <1>9 DEF Session!ServeRenewed
    <2>3. f \in Families /\ [family |-> f, number |-> n] \in Session!Session
        BY <2>1 DEF Session!Session
    <2>4. token' \in [Families -> [Session!Numbers -> {"none", "live", "spent"}]]
        BY <2>1, <2>2, <2>3 DEF Session!TypeOK, Session!Session
    <2>5. refreshes' \in [Calls -> Session!Request \cup {None}]
        BY <2>1, <2>2, <2>3 DEF Session!Request, Session!TypeOK
    <2> QED
        BY <1>9, <2>4, <2>5 DEF Session!ServeRenewed, Session!TypeOK
<1>10. CASE UNCHANGED sessionVars
    BY <1>10 DEF sessionVars, Session!TypeOK
<1> QED
    BY <1>1, <1>2, <1>3, <1>4, <1>5, <1>6, <1>7, <1>8, <1>9, <1>10 DEF Session!Next

(***************************************************************************)
(* The inductive invariant of the session                                  *)
(***************************************************************************)

Known(f) == token[f][1] # "none"

(* All that is held, sent or left is of a sign-in that has been.            *)
KnownInv ==
    /\ storage # None => Known(storage.family)
    /\ \A t \in Tabs : memory[t] # None => Known(memory[t].family)
    /\ \A t \in Tabs : leaving[t] # None => Known(leaving[t].sent.family)
    /\ \A t \in Tabs : \A f \in left[t] : Known(f)
    /\ \A c \in Calls : refreshes[c] # None =>
           /\ Known(refreshes[c].sent.family)
           /\ refreshes[c].step = "renewed" =>
                  refreshes[c].got # None /\ refreshes[c].got.family = refreshes[c].sent.family

(* While one tab is signed in, and does not sign out over a refresh: it has *)
(* what is stored, and only it sends; what was left is neither stored nor   *)
(* sent, whatever session the tab has taken on since.                       *)
OneTabInv ==
    sessionCrossed \cap {"late", "tabs"} = {} =>
        /\ storage # None => \E t \in Tabs : memory[t] = storage
        /\ \A t \in Tabs : memory[t] # None => memory[t] = storage
        /\ \A t, u \in Tabs : memory[t] # None /\ memory[u] # None => t = u
        /\ \A c \in Calls : refreshes[c] # None =>
               /\ memory[refreshes[c].tab] # None /\ leaving[refreshes[c].tab] = None
               /\ \A t \in Tabs : refreshes[c].sent.family \notin left[t]
        /\ \A c, d \in Calls : refreshes[c] # None /\ refreshes[d] # None => c = d
        /\ \A t \in Tabs : leaving[t] # None => memory[t] # None
        /\ \A t \in Tabs : storage # None => storage.family \notin left[t]

(* While nothing is lost besides: the token that is held, or on its way, is *)
(* live.                                                                    *)
LiveInv ==
    sessionCrossed = {} =>
        /\ \A c \in Calls : refreshes[c] # None =>
               /\ refreshes[c].step # "refused"
               /\ refreshes[c].step = "renewed" => Session!Status(refreshes[c].got) = "live"
               /\ refreshes[c].step # "renewed" => Session!Status(refreshes[c].sent) = "live"
        /\ \A t \in Tabs : memory[t] # None /\ leaving[t] = None /\ ~Session!Refreshing(t) =>
               Session!Status(memory[t]) = "live"

SessionIInv == Session!TypeOK /\ KnownInv /\ OneTabInv /\ LiveInv

(* What the server makes of one refresh, and of the tokens of its family.   *)
LEMMA ReadMakes ==
    ASSUME Session!TypeOK, NEW c \in Calls, Session!ServeRead(c)
    PROVE  /\ refreshes[c] \in Session!Request /\ refreshes[c] # None /\ refreshes'[c] # None
           /\ refreshes[c].step = "sent"
           /\ refreshes'[c].tab = refreshes[c].tab /\ refreshes'[c].sent = refreshes[c].sent
           /\ refreshes'[c].step = IF Session!Status(refreshes[c].sent) = "live" THEN "read" ELSE "refused"
           /\ \A d \in Calls : d # c => refreshes'[d] = refreshes[d]
           /\ UNCHANGED <<token, storage, memory, leaving, left, sessionCrossed>>
<1>1. /\ refreshes[c] \in Session!Request /\ refreshes[c] # None /\ refreshes[c].step = "sent"
      /\ UNCHANGED <<token, storage, memory, leaving, left, sessionCrossed>>
    BY DEF Session!ServeRead, Session!RolledBack, Session!TypeOK
<1> DEFINE s == IF Session!Status(refreshes[c].sent) = "live" THEN "read" ELSE "refused"
<1>2. refreshes' = [refreshes EXCEPT ![c].step = s]
    BY DEF Session!ServeRead
<1> HIDE DEF s
<1>3. /\ refreshes'[c] = [refreshes[c] EXCEPT !.step = s]
      /\ \A d \in Calls : d # c => refreshes'[d] = refreshes[d]
    BY <1>2 DEF Session!TypeOK
<1>4. s \in {"read", "refused"}
    BY DEF s
<1>5. /\ refreshes'[c] \in Session!Request /\ refreshes'[c].tab = refreshes[c].tab
      /\ refreshes'[c].sent = refreshes[c].sent /\ refreshes'[c].step = s
    BY <1>1, <1>3, <1>4 DEF Session!Request
<1> QED
    BY <1>1, <1>3, <1>5, NothingAssumption DEF s

LEMMA RenewedMakes ==
    ASSUME Session!TypeOK, NEW c \in Calls, Session!ServeRenewed(c)
    PROVE  /\ refreshes[c] \in Session!Request /\ refreshes[c] # None /\ refreshes'[c] # None
           /\ refreshes[c].step = "read"
           /\ refreshes'[c].tab = refreshes[c].tab /\ refreshes'[c].sent = refreshes[c].sent
           /\ refreshes'[c].step = "renewed" /\ refreshes'[c].got \in Session!Session
           /\ refreshes'[c].got.family = refreshes[c].sent.family
           /\ token'[refreshes'[c].got.family][refreshes'[c].got.number] = "live"
           /\ \A f \in Families : Known(f) => Known(f)'
           /\ \A d \in Calls : d # c => refreshes'[d] = refreshes[d]
           /\ UNCHANGED <<storage, memory, leaving, left, sessionCrossed>>
<1> DEFINE f == refreshes[c].sent.family
           k == refreshes[c].sent.number
<1>1. /\ refreshes[c] \in Session!Request /\ refreshes[c] # None /\ refreshes[c].step = "read"
      /\ UNCHANGED <<storage, memory, leaving, left, sessionCrossed>>
    BY DEF Session!ServeRenewed, Session!TypeOK
<1>2. f \in Families /\ k \in Session!Numbers
    BY <1>1 DEF Session!Request, Session!Session
<1>3. PICK n \in Session!Numbers :
          /\ token' = [token EXCEPT ![f][k] = "spent", ![f][n] = "live"]
          /\ refreshes' = [refreshes EXCEPT ![c].step = "renewed",
                                            ![c].got = [family |-> f, number |-> n]]
    BY DEF Session!ServeRenewed
<1> DEFINE got == [family |-> f, number |-> n]
<1>4. got \in Session!Session /\ got.family = f /\ got.number = n
    BY <1>2 DEF Session!Session
<1> HIDE DEF got
<1>5. /\ refreshes'[c] = [refreshes[c] EXCEPT !.step = "renewed", !.got = got]
      /\ \A d \in Calls : d # c => refreshes'[d] = refreshes[d]
    BY <1>3 DEF Session!TypeOK, got
<1>6. /\ refreshes'[c] \in Session!Request /\ refreshes'[c].tab = refreshes[c].tab
      /\ refreshes'[c].sent = refreshes[c].sent /\ refreshes'[c].step = "renewed"
      /\ refreshes'[c].got = got
    BY <1>1, <1>4, <1>5 DEF Session!Request
<1> HIDE DEF f, k
<1>7. /\ \A g \in Families : g # f => token'[g] = token[g]
      /\ token'[f] = [[token[f] EXCEPT ![k] = "spent"] EXCEPT ![n] = "live"]
      /\ token[f] \in [Session!Numbers -> {"none", "live", "spent"}]
    BY <1>2, <1>3 DEF Session!TypeOK
<1>8. /\ token'[f][n] = "live"
      /\ \A m \in Session!Numbers : token[f][m] # "none" => token'[f][m] # "none"
    BY <1>7
<1>9. 1 \in Session!Numbers
    BY SizeAssumption DEF Session!Numbers
<1>10. \A g \in Families : Known(g) => Known(g)'
    BY <1>7, <1>8, <1>9 DEF Known
<1> QED
    BY <1>1, <1>4, <1>5, <1>6, <1>8, <1>10, NothingAssumption DEF f

(* No sign-in is forgotten.                                                 *)
LEMMA KnownStays ==
    ASSUME Session!TypeOK, [Session!Next]_sessionVars
    PROVE  \A f \in Families : Known(f) => Known(f)'
<1> USE DEF Known
<1>1. ASSUME NEW t \in Tabs, NEW f \in Families, Session!SignIn(t, f)
      PROVE  \A g \in Families : Known(g) => Known(g)'
    BY <1>1 DEF Session!SignIn, Session!TypeOK
<1>2. ASSUME NEW t \in Tabs, Session!ServeLogout(t)
      PROVE  \A g \in Families : Known(g) => Known(g)'
    <2>1. leaving[t].sent.family \in Families /\ 1 \in Session!Numbers
        BY <1>2, SizeAssumption
           DEF Session!ServeLogout, Session!Leaving, Session!Session, Session!Numbers, Session!TypeOK
    <2> DEFINE f == leaving[t].sent.family
    <2>2. /\ \A g \in Families : g # f => token'[g] = token[g]
          /\ token'[f][1] = "none" <=> token[f][1] = "none"
        BY <1>2, <2>1, RevokedType DEF Session!ServeLogout
    <2> HIDE DEF f
    <2> QED
        BY <2>2
<1>3. ASSUME NEW c \in Calls, Session!ServeRenewed(c)
      PROVE  \A g \in Families : Known(g) => Known(g)'
    BY <1>3, RenewedMakes DEF Known
<1>4. CASE UNCHANGED token
    BY <1>4
<1>5. ASSUME NEW t \in Tabs,
             Session!OpenTab(t) \/ Session!LogOut(t) \/ Session!LoggedOut(t)
                 \/ \E c \in Calls : Session!Refresh(c, t)
      PROVE  UNCHANGED token
    BY <1>5 DEF Session!OpenTab, Session!LogOut, Session!LoggedOut, Session!Refresh
<1>6. ASSUME NEW c \in Calls,
             Session!Renewed(c) \/ Session!Refused(c) \/ Session!RefreshLost(c) \/ Session!ServeRead(c)
      PROVE  UNCHANGED token
    BY <1>6 DEF Session!Renewed, Session!Refused, Session!RefreshLost, Session!ServeRead,
                Session!RolledBack
<1>7. CASE UNCHANGED sessionVars
    BY <1>4, <1>7 DEF sessionVars
<1> QED
    BY <1>1, <1>2, <1>3, <1>4, <1>5, <1>6, <1>7 DEF Session!Next

(* All that is held, sent or left stays of a sign-in that has been.         *)
LEMMA KnownKept ==
    ASSUME SessionIInv, [Session!Next]_sessionVars
    PROVE  KnownInv'
<1>a. Session!TypeOK /\ KnownInv
    BY DEF SessionIInv
<1>b. /\ \A s \in Session!Session : s.family \in Families
      /\ \A f \in Families : Known(f) => token'[f][1] # "none"
      /\ \A c \in Calls : refreshes[c] # None => refreshes[c].sent \in Session!Session
      /\ \A t \in Tabs : leaving[t] # None => leaving[t].sent \in Session!Session
      /\ \A t \in Tabs : left[t] \subseteq Families
    BY <1>a, KnownStays DEF Session!Session, Session!Request, Session!Leaving, Session!TypeOK, Known
<1>c. /\ storage # None => storage \in Session!Session /\ token'[storage.family][1] # "none"
      /\ \A t \in Tabs : memory[t] # None =>
             memory[t] \in Session!Session /\ token'[memory[t].family][1] # "none"
      /\ \A t \in Tabs : leaving[t] # None => token'[leaving[t].sent.family][1] # "none"
      /\ \A t \in Tabs : \A f \in left[t] : token'[f][1] # "none"
      /\ \A c \in Calls : refreshes[c] # None => token'[refreshes[c].sent.family][1] # "none"
    BY <1>a, <1>b DEF Session!TypeOK, KnownInv
<1>d. \A c \in Calls : refreshes[c] # None /\ refreshes[c].step = "renewed" =>
          refreshes[c].got # None /\ refreshes[c].got.family = refreshes[c].sent.family
    BY <1>a DEF KnownInv
<1>1. ASSUME NEW t \in Tabs, NEW f \in Families, Session!SignIn(t, f)
      PROVE  KnownInv'
    <2>1. token'[f][1] # "none"
        BY <1>a, <1>1, SizeAssumption DEF Session!SignIn, Session!Numbers, Session!TypeOK, Known
    <2> QED
        BY <1>a, <1>b, <1>c, <1>d, <1>1, <2>1
           DEF Session!SignIn, Session!persistSession, Session!TypeOK, KnownInv, Known
<1>2. ASSUME NEW t \in Tabs, Session!OpenTab(t)
      PROVE  KnownInv'
    BY <1>a, <1>b, <1>c, <1>d, <1>2 DEF Session!OpenTab, Session!TypeOK, KnownInv, Known
<1>3. ASSUME NEW t \in Tabs, Session!LogOut(t)
      PROVE  KnownInv'
    BY <1>a, <1>b, <1>c, <1>d, <1>3 DEF Session!LogOut, Session!TypeOK, KnownInv, Known
<1>4. ASSUME NEW t \in Tabs, Session!LoggedOut(t)
      PROVE  KnownInv'
    BY <1>a, <1>b, <1>c, <1>d, <1>4
       DEF Session!LoggedOut, Session!logoutLocally, Session!TypeOK, KnownInv, Known
<1>5. ASSUME NEW t \in Tabs, Session!ServeLogout(t)
      PROVE  KnownInv'
    <2>1. /\ leaving \in [Tabs -> Session!Leaving \cup {None}] /\ leaving[t] # None
          /\ leaving' = [leaving EXCEPT ![t].served = TRUE]
          /\ UNCHANGED <<storage, memory, refreshes, left>>
        BY <1>a, <1>5 DEF Session!ServeLogout, Session!TypeOK
    <2>2. \A u \in Tabs : leaving'[u] # None => leaving[u] # None /\ leaving'[u].sent = leaving[u].sent
        BY <2>1 DEF Session!Leaving
    <2> QED
        BY <1>c, <1>d, <2>1, <2>2 DEF KnownInv, Known
<1>6. ASSUME NEW t \in Tabs, NEW c \in Calls, Session!Refresh(c, t)
      PROVE  KnownInv'
    BY <1>a, <1>b, <1>c, <1>d, <1>6 DEF Session!Refresh, Session!TypeOK, KnownInv, Known
<1>7. ASSUME NEW c \in Calls, Session!Renewed(c) \/ Session!Refused(c) \/ Session!RefreshLost(c)
      PROVE  KnownInv'
    BY <1>a, <1>b, <1>c, <1>d, <1>7
       DEF Session!Renewed, Session!Refused, Session!RefreshLost, Session!persistSession,
           Session!logoutLocally, Session!TypeOK, KnownInv, Known
<1>8. ASSUME NEW c \in Calls, Session!ServeRead(c)
      PROVE  KnownInv'
    BY <1>a, <1>b, <1>c, <1>d, <1>8, ReadMakes DEF KnownInv, Known
<1>9. ASSUME NEW c \in Calls, Session!ServeRenewed(c)
      PROVE  KnownInv'
    BY <1>a, <1>b, <1>c, <1>d, <1>9, RenewedMakes, NothingAssumption DEF KnownInv, Known
<1>10. CASE UNCHANGED sessionVars
    BY <1>a, <1>10 DEF sessionVars, KnownInv, Known
<1> QED
    BY <1>1, <1>2, <1>3, <1>4, <1>5, <1>6, <1>7, <1>8, <1>9, <1>10 DEF Session!Next

(* One tab is signed in, and sends what it has.                             *)
LEMMA OneTabKept ==
    ASSUME SessionIInv, [Session!Next]_sessionVars
    PROVE  OneTabInv'
<1>a. Session!TypeOK /\ KnownInv /\ OneTabInv
    BY DEF SessionIInv
<1> SUFFICES ASSUME sessionCrossed' \cap {"late", "tabs"} = {}
             PROVE  OneTabInv'
    BY DEF OneTabInv
<1>b. sessionCrossed \cap {"late", "tabs"} = {}
    BY DEF Session!Next, Session!SignIn, Session!OpenTab, Session!Refresh, Session!Renewed,
           Session!Refused, Session!RefreshLost, Session!LogOut, Session!LoggedOut, Session!ServeRead,
           Session!ServeRenewed, Session!ServeLogout, Session!Note, sessionVars
<1>c. /\ storage # None => \E t \in Tabs : memory[t] = storage
      /\ \A t \in Tabs : memory[t] # None => memory[t] = storage
      /\ \A t, u \in Tabs : memory[t] # None /\ memory[u] # None => t = u
      /\ \A c \in Calls : refreshes[c] # None =>
             /\ memory[refreshes[c].tab] # None /\ leaving[refreshes[c].tab] = None
             /\ \A t \in Tabs : refreshes[c].sent.family \notin left[t]
      /\ \A c, d \in Calls : refreshes[c] # None /\ refreshes[d] # None => c = d
      /\ \A t \in Tabs : leaving[t] # None => memory[t] # None
      /\ \A t \in Tabs : storage # None => storage.family \notin left[t]
    BY <1>a, <1>b DEF OneTabInv
<1>d. /\ \A c \in Calls : refreshes[c] # None =>
             /\ refreshes[c].tab \in Tabs /\ refreshes[c].sent \in Session!Session
             /\ refreshes[c].sent # None
      /\ \A t \in Tabs : leaving[t] # None => leaving[t].sent # None
    BY <1>a, NothingAssumption DEF Session!TypeOK, Session!Request, Session!Leaving
(* Nothing is under way of a tab that is signed out.                        *)
<1>e. /\ \A c \in Calls : refreshes[c] # None => memory[refreshes[c].tab] # None
      /\ \A t \in Tabs : leaving[t] # None => memory[t] # None
    BY <1>c, <1>d
<1>1. ASSUME NEW t \in Tabs, NEW f \in Families, Session!SignIn(t, f)
      PROVE  OneTabInv'
    <2>1. /\ storage = memory[t] /\ \A u \in Tabs : f \notin left[u]
          /\ memory' = [memory EXCEPT ![t] = [family |-> f, number |-> 1]]
          /\ storage' = [family |-> f, number |-> 1]
          /\ UNCHANGED <<refreshes, leaving, left>>
        BY <1>a, <1>1 DEF Session!SignIn, Session!persistSession, Session!Note, KnownInv, Known
    <2>2. /\ memory'[t] = storage' /\ memory'[t] # None /\ storage'.family = f
          /\ \A u \in Tabs : u # t => memory'[u] = memory[u]
        BY <1>a, <1>1, <2>1, SizeAssumption, NothingAssumption
           DEF Session!TypeOK, Session!Session, Session!Numbers
    <2>3. \A u \in Tabs : u # t => memory[u] = None
        BY <1>c, <2>1
    <2> QED
        BY <1>c, <1>d, <2>1, <2>2, <2>3 DEF OneTabInv
<1>2. ASSUME NEW t \in Tabs, Session!OpenTab(t)
      PROVE  OneTabInv'
    <2>1. /\ memory' = [memory EXCEPT ![t] = storage]
          /\ refreshes' = [c \in Calls |-> IF refreshes[c] # None /\ refreshes[c].tab = t THEN None
                                                                       ELSE refreshes[c]]
          /\ leaving' = [leaving EXCEPT ![t] = None]
          /\ storage # None => \A u \in Tabs : u # t => memory[u] = None
          /\ UNCHANGED <<storage, left>>
        BY <1>2 DEF Session!OpenTab
    <2>2. memory' = memory
        BY <1>a, <1>c, <2>1 DEF Session!TypeOK
    <2>3. /\ \A c \in Calls : refreshes'[c] # None => refreshes'[c] = refreshes[c]
          /\ \A u \in Tabs : leaving'[u] # None => leaving'[u] = leaving[u]
          /\ \A u \in Tabs : leaving'[u] = None \/ leaving'[u] = leaving[u]
        BY <1>a, <2>1 DEF Session!TypeOK
    <2> QED
        BY <1>c, <1>d, <2>1, <2>2, <2>3 DEF OneTabInv
<1>3. ASSUME NEW t \in Tabs, Session!LogOut(t)
      PROVE  OneTabInv'
    <2>1. /\ ~Session!Refreshing(t) /\ memory[t] # None
          /\ \A u \in Tabs : u # t => leaving'[u] = leaving[u]
          /\ UNCHANGED <<storage, memory, refreshes, left>>
        BY <1>a, <1>3 DEF Session!LogOut, Session!Note, Session!TypeOK
    <2> QED
        BY <1>c, <1>d, <2>1 DEF Session!Refreshing, OneTabInv
<1>4. ASSUME NEW t \in Tabs, Session!LoggedOut(t)
      PROVE  OneTabInv'
    <2>1. /\ leaving[t] # None /\ storage' = None /\ memory' = [memory EXCEPT ![t] = None]
          /\ leaving' = [leaving EXCEPT ![t] = None] /\ refreshes' = refreshes
        BY <1>4 DEF Session!LoggedOut, Session!logoutLocally
    <2>2. \A u \in Tabs : memory'[u] = None
        BY <1>a, <1>c, <1>e, <2>1 DEF Session!TypeOK
    <2>3. \A c \in Calls : refreshes[c] = None
        BY <1>c, <1>d, <1>e, <2>1
    <2>4. \A u \in Tabs : leaving'[u] = None
        BY <1>a, <1>c, <1>e, <2>1 DEF Session!TypeOK
    <2> QED
        BY <2>1, <2>2, <2>3, <2>4 DEF OneTabInv
<1>5. ASSUME NEW t \in Tabs, Session!ServeLogout(t)
      PROVE  OneTabInv'
    <2>1. /\ leaving[t] # None /\ leaving'[t].sent = leaving[t].sent
          /\ \A u \in Tabs : u # t => leaving'[u] = leaving[u]
          /\ UNCHANGED <<storage, memory, refreshes, left>>
        BY <1>a, <1>5 DEF Session!ServeLogout, Session!Leaving, Session!TypeOK
    <2>2. \A c \in Calls : refreshes[c] # None => refreshes[c].tab # t
        BY <1>c, <2>1
    <2> QED
        BY <1>c, <1>d, <2>1, <2>2 DEF OneTabInv
<1>6. ASSUME NEW t \in Tabs, NEW c \in Calls, Session!Refresh(c, t)
      PROVE  OneTabInv'
    <2>1. /\ leaving[t] = None /\ memory[t] # None /\ ~Session!Refreshing(t)
          /\ refreshes'[c].tab = t /\ refreshes'[c].sent = memory[t]
          /\ \A d \in Calls : d # c => refreshes'[d] = refreshes[d]
          /\ UNCHANGED <<storage, memory, leaving, left>>
        BY <1>a, <1>6 DEF Session!Refresh, Session!Note, Session!TypeOK
    <2>2. \A d \in Calls : refreshes[d] = None
        BY <1>c, <1>d, <1>e, <2>1 DEF Session!Refreshing
    <2> QED
        BY <1>c, <2>1, <2>2 DEF OneTabInv
<1>7. ASSUME NEW c \in Calls, Session!Renewed(c)
      PROVE  OneTabInv'
    <2> DEFINE t == refreshes[c].tab
    <2>1. /\ refreshes[c] # None /\ refreshes[c].step = "renewed"
          /\ memory' = [memory EXCEPT ![t] = refreshes[c].got] /\ storage' = refreshes[c].got
          /\ refreshes' = [refreshes EXCEPT ![c] = None]
          /\ UNCHANGED <<leaving, left>>
        BY <1>7 DEF Session!Renewed, Session!persistSession
    <2>2. t \in Tabs /\ memory[t] # None /\ memory[t] = storage /\ leaving[t] = None
        BY <1>c, <1>d, <1>e, <2>1
    <2>3. \A u \in Tabs : storage'.family \notin left[u]
        BY <1>a, <1>c, <2>1 DEF KnownInv
    <2>4. /\ \A u \in Tabs : u # t => memory'[u] = None
          /\ memory'[t] = storage'
          /\ \A u \in Tabs : leaving[u] = None
          /\ \A d \in Calls : refreshes'[d] = None
        BY <1>a, <1>c, <1>e, <2>1, <2>2 DEF Session!TypeOK
    <2> QED
        BY <1>c, <2>1, <2>2, <2>3, <2>4 DEF OneTabInv
<1>8. ASSUME NEW c \in Calls, Session!Refused(c) \/ Session!RefreshLost(c)
      PROVE  OneTabInv'
    <2> DEFINE t == refreshes[c].tab
    <2>1. /\ refreshes[c] # None
          /\ memory' = [memory EXCEPT ![t] = None] /\ storage' = None
          /\ refreshes' = [refreshes EXCEPT ![c] = None]
          /\ UNCHANGED <<leaving, left>>
        BY <1>8 DEF Session!Refused, Session!RefreshLost, Session!logoutLocally
    <2>2. t \in Tabs /\ memory[t] # None /\ leaving[t] = None
        BY <1>c, <1>d, <1>e, <2>1
    <2>3. /\ \A u \in Tabs : memory'[u] = None
          /\ \A u \in Tabs : leaving[u] = None
          /\ \A d \in Calls : refreshes'[d] = None
        BY <1>a, <1>c, <1>e, <2>1, <2>2 DEF Session!TypeOK
    <2> QED
        BY <2>1, <2>3 DEF OneTabInv
<1>9. ASSUME NEW c \in Calls, Session!ServeRead(c) \/ Session!ServeRenewed(c)
      PROVE  OneTabInv'
    <2>1. /\ refreshes[c] # None
          /\ refreshes'[c].tab = refreshes[c].tab /\ refreshes'[c].sent = refreshes[c].sent
          /\ \A d \in Calls : d # c => refreshes'[d] = refreshes[d]
          /\ UNCHANGED <<storage, memory, leaving, left>>
        BY <1>a, <1>9, ReadMakes, RenewedMakes
    <2> QED
        BY <1>c, <2>1 DEF OneTabInv
<1>10. CASE UNCHANGED sessionVars
    BY <1>c, <1>10 DEF sessionVars, OneTabInv
<1> QED
    BY <1>1, <1>2, <1>3, <1>4, <1>5, <1>6, <1>7, <1>8, <1>9, <1>10 DEF Session!Next

(* The token that is held, or on its way, is live.                          *)
LEMMA LiveKept ==
    ASSUME SessionIInv, [Session!Next]_sessionVars
    PROVE  LiveInv'
<1> USE DEF Session!Status, Session!Refreshing
<1>a. Session!TypeOK /\ KnownInv /\ OneTabInv /\ LiveInv
    BY DEF SessionIInv
<1> SUFFICES ASSUME sessionCrossed' = {}
             PROVE  LiveInv'
    BY DEF LiveInv
<1>b. sessionCrossed = {}
    BY DEF Session!Next, Session!SignIn, Session!OpenTab, Session!Refresh, Session!Renewed,
           Session!Refused, Session!RefreshLost, Session!LogOut, Session!LoggedOut, Session!ServeRead,
           Session!ServeRenewed, Session!ServeLogout, Session!Note, sessionVars
<1>c. /\ storage # None => \E t \in Tabs : memory[t] = storage
      /\ \A t \in Tabs : memory[t] # None => memory[t] = storage
      /\ \A t, u \in Tabs : memory[t] # None /\ memory[u] # None => t = u
      /\ \A c \in Calls : refreshes[c] # None =>
             /\ memory[refreshes[c].tab] # None /\ leaving[refreshes[c].tab] = None
             /\ \A t \in Tabs : refreshes[c].sent.family \notin left[t]
      /\ \A c, d \in Calls : refreshes[c] # None /\ refreshes[d] # None => c = d
      /\ \A t \in Tabs : leaving[t] # None => memory[t] # None
    BY <1>a, <1>b DEF OneTabInv
<1>d. /\ \A c \in Calls : refreshes[c] # None =>
             /\ refreshes[c].tab \in Tabs /\ refreshes[c].sent \in Session!Session
             /\ memory[refreshes[c].tab] # None
      /\ \A t \in Tabs : leaving[t] # None => memory[t] # None
    BY <1>a, <1>c, NothingAssumption DEF Session!TypeOK, Session!Request, Session!Leaving
<1>f. /\ \A c \in Calls : refreshes[c] # None =>
             /\ refreshes[c].step # "refused"
             /\ refreshes[c].step = "renewed" => Session!Status(refreshes[c].got) = "live"
             /\ refreshes[c].step # "renewed" => Session!Status(refreshes[c].sent) = "live"
      /\ \A t \in Tabs : memory[t] # None /\ leaving[t] = None /\ ~Session!Refreshing(t) =>
             Session!Status(memory[t]) = "live"
    BY <1>a, <1>b DEF LiveInv
<1>1. ASSUME NEW t \in Tabs, NEW f \in Families, Session!SignIn(t, f)
      PROVE  LiveInv'
    <2>1. /\ memory' = [memory EXCEPT ![t] = [family |-> f, number |-> 1]]
          /\ token' = [token EXCEPT ![f][1] = "live"]
          /\ UNCHANGED <<refreshes, leaving>>
        BY <1>1 DEF Session!SignIn, Session!persistSession
    <2>2. storage = memory[t]
        BY <1>1 DEF Session!SignIn, Session!Note
    <2>3. token'[f][1] = "live"
        BY <1>a, <2>1, SizeAssumption DEF Session!Numbers, Session!TypeOK
    <2>4. \A u \in Tabs : u # t => memory[u] = None
        BY <1>c, <2>2
    <2>5. memory'[t].family = f /\ memory'[t].number = 1 /\ \A u \in Tabs : u # t => memory'[u] = None
        BY <1>a, <2>1, <2>4 DEF Session!TypeOK
    <2>6. \A s \in Session!Session : Session!Status(s) = "live" => token'[s.family][s.number] = "live"
        BY <1>a, <1>1 DEF Session!SignIn, Session!TypeOK, Session!Session
    <2>7. \A c \in Calls : refreshes[c] # None =>
              /\ refreshes[c].sent \in Session!Session
              /\ refreshes[c].step = "renewed" => refreshes[c].got \in Session!Session
        BY <1>a DEF KnownInv, Session!TypeOK, Session!Request
    <2> QED
        BY <1>f, <2>1, <2>5, <2>6, <2>7, <2>3 DEF LiveInv
<1>2. ASSUME NEW t \in Tabs, Session!OpenTab(t)
      PROVE  LiveInv'
    <2>1. /\ memory' = [memory EXCEPT ![t] = storage]
          /\ storage # None => \A u \in Tabs : u # t => memory[u] = None
          /\ ~Session!Refreshing(t) /\ leaving[t] = None
          /\ refreshes' = [c \in Calls |-> IF refreshes[c] # None /\ refreshes[c].tab = t THEN None
                                                                       ELSE refreshes[c]]
          /\ leaving' = [leaving EXCEPT ![t] = None] /\ token' = token
        BY <1>2 DEF Session!OpenTab
    <2>2. memory' = memory /\ leaving' = leaving /\ \A c \in Calls : refreshes'[c] = refreshes[c]
        BY <1>a, <1>c, <2>1 DEF Session!TypeOK
    <2>3. refreshes \in [Calls -> Session!Request \cup {None}]
        BY <1>a DEF Session!TypeOK
    <2>4. refreshes' = refreshes
        BY <2>1, <2>2, <2>3
    <2>5. UNCHANGED <<memory, leaving, refreshes, token>>
        BY <2>1, <2>2, <2>4
    <2> QED
        BY <1>f, <2>5 DEF LiveInv
<1>3. ASSUME NEW t \in Tabs, Session!LogOut(t)
      PROVE  LiveInv'
    <2>1. /\ \A u \in Tabs : leaving'[u] = None => leaving[u] = None
          /\ UNCHANGED <<token, memory, refreshes>>
        BY <1>a, <1>3 DEF Session!LogOut, Session!TypeOK
    <2> QED
        BY <1>f, <2>1 DEF LiveInv
<1>4. ASSUME NEW t \in Tabs, Session!LoggedOut(t)
      PROVE  LiveInv'
    <2>1. /\ leaving[t] # None /\ memory' = [memory EXCEPT ![t] = None]
          /\ UNCHANGED <<token, refreshes>>
        BY <1>4 DEF Session!LoggedOut, Session!logoutLocally
    <2>2. \A u \in Tabs : memory'[u] = None
        BY <1>a, <1>c, <1>d, <2>1 DEF Session!TypeOK
    <2> QED
        BY <1>f, <2>1, <2>2 DEF LiveInv
<1>5. ASSUME NEW t \in Tabs, Session!ServeLogout(t)
      PROVE  LiveInv'
    <2>1. /\ leaving[t] # None /\ leaving[t] \in Session!Leaving
          /\ leaving' = [leaving EXCEPT ![t].served = TRUE]
          /\ UNCHANGED <<memory, refreshes>>
        BY <1>a, <1>5 DEF Session!ServeLogout, Session!TypeOK
    <2>2. leaving'[t] # None
        BY <1>a, <2>1, NothingAssumption DEF Session!Leaving, Session!TypeOK
    <2>3. \A u \in Tabs : u # t => memory[u] = None
        BY <1>c, <1>d, <2>1
    <2>4. \A c \in Calls : refreshes[c] = None
        BY <1>c, <1>d, <2>1, <2>3
    <2> QED
        BY <2>1, <2>2, <2>3, <2>4 DEF LiveInv
<1>6. ASSUME NEW t \in Tabs, NEW c \in Calls, Session!Refresh(c, t)
      PROVE  LiveInv'
    <2>1. /\ leaving[t] = None /\ memory[t] # None /\ ~Session!Refreshing(t) /\ refreshes[c] = None
          /\ refreshes'[c].tab = t /\ refreshes'[c].sent = memory[t] /\ refreshes'[c].step = "sent"
          /\ \A d \in Calls : d # c => refreshes'[d] = refreshes[d]
          /\ UNCHANGED <<token, memory, leaving>>
        BY <1>a, <1>6 DEF Session!Refresh, Session!Note, Session!TypeOK
    <2>2. Session!Status(memory[t]) = "live"
        BY <1>f, <2>1
    <2> QED
        BY <1>f, <2>1, <2>2 DEF LiveInv
<1>7. ASSUME NEW c \in Calls, Session!Renewed(c)
      PROVE  LiveInv'
    <2> DEFINE t == refreshes[c].tab
    <2>1. /\ refreshes[c] # None /\ refreshes[c].step = "renewed"
          /\ memory' = [memory EXCEPT ![t] = refreshes[c].got]
          /\ refreshes' = [refreshes EXCEPT ![c] = None]
          /\ UNCHANGED <<token, leaving>>
        BY <1>7 DEF Session!Renewed, Session!persistSession
    <2>2. /\ t \in Tabs /\ memory[t] # None
          /\ Session!Status(refreshes[c].got) = "live"
        BY <1>d, <1>f, <2>1
    <2>3. /\ \A u \in Tabs : u # t => memory'[u] = None
          /\ memory'[t] = refreshes[c].got
          /\ \A d \in Calls : refreshes'[d] = None
        BY <1>a, <1>c, <2>1, <2>2 DEF Session!TypeOK
    <2> QED
        BY <2>1, <2>2, <2>3 DEF LiveInv
<1>8. ASSUME NEW c \in Calls, Session!Refused(c)
      PROVE  LiveInv'
    BY <1>f, <1>8 DEF Session!Refused
<1>9. ASSUME NEW c \in Calls, Session!RefreshLost(c)
      PROVE  LiveInv'
    BY <1>9 DEF Session!RefreshLost
<1>10. ASSUME NEW c \in Calls, Session!ServeRead(c)
       PROVE  LiveInv'
    <2>1. /\ refreshes[c] # None /\ refreshes'[c] # None /\ refreshes[c].step = "sent"
          /\ refreshes'[c].tab = refreshes[c].tab /\ refreshes'[c].sent = refreshes[c].sent
          /\ refreshes'[c].step = IF Session!Status(refreshes[c].sent) = "live" THEN "read" ELSE "refused"
          /\ \A d \in Calls : d # c => refreshes'[d] = refreshes[d]
          /\ UNCHANGED <<token, memory, leaving>>
        BY <1>a, <1>10, ReadMakes
    <2>2. refreshes'[c].step = "read" /\ Session!Status(refreshes[c].sent) = "live"
        BY <1>f, <2>1
    <2>3. \A t \in Tabs : Session!Refreshing(t)' = Session!Refreshing(t)
        BY <2>1
    <2> QED
        BY <1>f, <2>1, <2>2, <2>3 DEF LiveInv
<1>11. ASSUME NEW c \in Calls, Session!ServeRenewed(c)
       PROVE  LiveInv'
    <2>1. /\ refreshes[c] # None /\ refreshes'[c] # None
          /\ refreshes'[c].tab = refreshes[c].tab /\ refreshes'[c].step = "renewed"
          /\ token'[refreshes'[c].got.family][refreshes'[c].got.number] = "live"
          /\ \A d \in Calls : d # c => refreshes'[d] = refreshes[d]
          /\ UNCHANGED <<memory, leaving>>
        BY <1>a, <1>11, RenewedMakes
    <2>2. \A d \in Calls : d # c => refreshes'[d] = None
        BY <1>c, <2>1
    <2>3. \A t \in Tabs : t # refreshes'[c].tab => memory'[t] = None
        BY <1>c, <1>d, <2>1
    <2> QED
        BY <2>1, <2>2, <2>3 DEF LiveInv
<1>12. CASE UNCHANGED sessionVars
    BY <1>f, <1>12 DEF sessionVars, LiveInv
<1> QED
    BY <1>1, <1>2, <1>3, <1>4, <1>5, <1>6, <1>7, <1>8, <1>9, <1>10, <1>11, <1>12 DEF Session!Next

(***************************************************************************)
(* What the session promises                                               *)
(***************************************************************************)

(* The inductive invariant holds of the session within the client.          *)
THEOREM SessionInvariant == ClientSpec => []SessionIInv
<1>1. ClientInit => SessionIInv
    <2> SUFFICES ASSUME Session!Init
                 PROVE  SessionIInv
        BY SessionBegins
    <2> QED
        BY DEF Session!Init, Session!TypeOK, SessionIInv, KnownInv, OneTabInv, LiveInv
<1>2. SessionIInv /\ [ClientNext]_clientVars => SessionIInv'
    BY SessionMoves, SessionTyped, KnownKept, OneTabKept, LiveKept DEF SessionIInv
<1> QED
    BY <1>1, <1>2, PTL DEF ClientSpec

(* For any number of tabs, requests and tokens: a refresh is refused only   *)
(* after two tabs held one session, an answer was lost, or the user was     *)
(* signing out.                                                             *)
THEOREM NobodyIsSentAway == ClientSpec => []StaysSignedIn
<1>1. SessionIInv => StaysSignedIn
    BY DEF SessionIInv, LiveInv, StaysSignedIn, Session!StaysSignedIn
<1> QED
    BY <1>1, SessionInvariant, PTL

(* A tab that signed out of a session never holds it again, not by          *)
(* reloading either, and whatever answer was lost.                          *)
THEOREM NobodyComesBack == ClientSpec => []OutStaysOut
<1>1. SessionIInv => OutStaysOut
    <2> SUFFICES ASSUME SessionIInv, sessionCrossed \cap {"late", "tabs"} = {},
                        NEW t \in Tabs, memory[t] # None
                 PROVE  memory[t].family \notin left[t]
        BY DEF OutStaysOut, Session!OutStaysOut
    <2> QED
        BY DEF SessionIInv, OneTabInv
<1> QED
    BY <1>1, SessionInvariant, PTL

(***************************************************************************)
(* The conversation within the client                                      *)
(***************************************************************************)

(* What the client begins with, and does, the conversation begins with, and *)
(* does.                                                                    *)
LEMMA ChatBegins == ClientInit => Chat!Init
BY DEF ClientInit

LEMMA ChatMoves == [ClientNext]_clientVars => [Chat!Next]_chatVars
BY DEF ClientNext, clientVars, chatVars

(* The messages that have landed anywhere.                                  *)
Landed == {m \in Chat!Messages : Chat!Landed(m) # {}}

(* What a message at the end of a sequence adds to it.                      *)
LEMMA Appended ==
    ASSUME NEW S, NEW s \in Seq(S), NEW m \in S
    PROVE  /\ Append(s, m) \in Seq(S) /\ Len(Append(s, m)) = Len(s) + 1 /\ Len(s) \in Nat
           /\ \A i \in 1..Len(s) : Append(s, m)[i] = s[i]
           /\ Append(s, m)[Len(s) + 1] = m
           /\ Chat!ToSet(Append(s, m)) = Chat!ToSet(s) \cup {m}
<1>1. /\ Append(s, m) \in Seq(S) /\ Len(Append(s, m)) = Len(s) + 1 /\ Len(s) \in Nat
      /\ \A i \in 1..Len(s) : Append(s, m)[i] = s[i]
      /\ Append(s, m)[Len(s) + 1] = m
    OBVIOUS
<1>2. DOMAIN Append(s, m) = 1..(Len(s) + 1) /\ DOMAIN s = 1..Len(s)
    OBVIOUS
<1>3. 1..(Len(s) + 1) = (1..Len(s)) \cup {Len(s) + 1}
    BY <1>1
<1>4. Chat!ToSet(Append(s, m)) = Chat!ToSet(s) \cup {m}
    BY <1>1, <1>2, <1>3 DEF Chat!ToSet
<1> QED
    BY <1>1, <1>4

(* What the first of a sequence takes from it.                              *)
LEMMA Shifted ==
    ASSUME NEW S, NEW s \in Seq(S), s # <<>>
    PROVE  /\ Tail(s) \in Seq(S) /\ Len(Tail(s)) = Len(s) - 1 /\ Len(s) \in Nat \ {0}
           /\ \A i \in 1..Len(Tail(s)) : Tail(s)[i] = s[i + 1]
           /\ Head(s) = s[1] /\ Head(s) \in S
OBVIOUS

(* A message lands where it is stored, and nowhere else.                    *)
LEMMA StoreLands ==
    ASSUME Chat!TypeOK, NEW c \in Chat!Conversations, NEW m \in Chat!Messages,
           conversations' = [conversations EXCEPT ![c] = Append(@, m)]
    PROVE  /\ conversations' \in [Chat!Conversations -> Seq(Chat!Messages)]
           /\ conversations'[c] = Append(conversations[c], m)
           /\ \A d \in Chat!Conversations : d # c => conversations'[d] = conversations[d]
           /\ Chat!Landed(m)' = Chat!Landed(m) \cup {c}
           /\ \A n : n # m => Chat!Landed(n)' = Chat!Landed(n)
           /\ Landed' = Landed \cup {m}
           /\ Chat!Begun' = Chat!Begun \cup {c}
<1>1. /\ conversations \in [Chat!Conversations -> Seq(Chat!Messages)]
      /\ conversations[c] \in Seq(Chat!Messages)
    BY DEF Chat!TypeOK
<1>2. /\ conversations'[c] = Append(conversations[c], m)
      /\ \A d \in Chat!Conversations : d # c => conversations'[d] = conversations[d]
    BY <1>1
<1>3. /\ Append(conversations[c], m) \in Seq(Chat!Messages)
      /\ Append(conversations[c], m) # <<>>
      /\ Chat!ToSet(Append(conversations[c], m)) = Chat!ToSet(conversations[c]) \cup {m}
    <2>1. /\ Append(conversations[c], m) \in Seq(Chat!Messages)
          /\ Len(Append(conversations[c], m)) = Len(conversations[c]) + 1
          /\ Len(conversations[c]) \in Nat
          /\ Chat!ToSet(Append(conversations[c], m)) = Chat!ToSet(conversations[c]) \cup {m}
        BY <1>1, Appended
    <2> QED
        BY <2>1
<1>4. conversations' \in [Chat!Conversations -> Seq(Chat!Messages)]
    BY <1>1, <1>3
<1>5. \A n : \A d \in Chat!Conversations :
          n \in Chat!ToSet(conversations'[d]) <=> n \in Chat!ToSet(conversations[d]) \/ (n = m /\ d = c)
    BY <1>2, <1>3
<1>6. /\ Chat!Landed(m)' = Chat!Landed(m) \cup {c}
      /\ \A n : n # m => Chat!Landed(n)' = Chat!Landed(n)
    <2>1. \A n : /\ Chat!Landed(n) = {d \in Chat!Conversations : n \in Chat!ToSet(conversations[d])}
                 /\ Chat!Landed(n)' = {d \in Chat!Conversations : n \in Chat!ToSet(conversations'[d])}
        BY DEF Chat!Landed, Chat!Conversations, Chat!ToSet
    <2>2. ASSUME NEW n, n # m
          PROVE  Chat!Landed(n)' = Chat!Landed(n)
        BY <1>5, <2>1, <2>2
    <2>3. Chat!Landed(m)' = Chat!Landed(m) \cup {c}
        BY <1>5, <2>1
    <2> QED
        BY <2>2, <2>3
<1>7. Landed' = Landed \cup {m}
    BY <1>6 DEF Landed, Chat!Messages
<1>8. Chat!Begun' = Chat!Begun \cup {c}
    BY <1>2, <1>3 DEF Chat!Begun, Chat!Conversations
<1> QED
    BY <1>2, <1>4, <1>6, <1>7, <1>8

(* The messages are numbered as they are written: none that waits, is being *)
(* sent, has its files uploaded or has landed is yet to be written.         *)
WrittenInv ==
    /\ Len(written) <= MaxMessages
    /\ \A i \in 1..Len(pending) : pending[i] <= Len(written)
    /\ \A m \in attaching : m <= Len(written)
    /\ \A m \in Landed : m <= Len(written)
    /\ sending # None => sending.message <= Len(written)

(* A message waits once, after its files were uploaded, and the one being   *)
(* sent waits at the front or not at all.                                   *)
QueueInv ==
    /\ \A i, j \in 1..Len(pending) : pending[i] = pending[j] => i = j
    /\ \A i \in 1..Len(pending) : pending[i] \notin attaching
    /\ sending # None =>
           /\ sending.message \notin attaching
           /\ \A i \in 1..Len(pending) : pending[i] = sending.message => i = 1

(* Of the messages that have landed only the one being sent waits; it has   *)
(* not landed before the answer is on its way.                              *)
UnsentInv ==
    /\ attaching \cap Landed = {}
    /\ \A i \in 1..Len(pending) :
           pending[i] \in Landed => sending # None /\ sending.message = pending[i]
    /\ sending # None /\ sending.stored = None => sending.message \notin Landed

(* Conversations are begun one after another, each by a message that landed *)
(* in it, and only one that is begun is named.                              *)
BegunInv ==
    /\ Chat!Begun = 1..Cardinality(Chat!Begun)
    /\ Cardinality(Chat!Begun) <= Cardinality(Landed)
    /\ sending # None =>
           /\ sending.to # None => sending.to \in Chat!Begun
           /\ sending.stored # None => sending.stored \in Chat!Begun
    /\ open # None => open \in Chat!Begun
    /\ opening \subseteq Chat!Begun

OnceInv == \A m \in Chat!Messages : \A c, d \in Chat!Landed(m) : c = d

(* What has landed comes before what waits, and that before the message     *)
(* whose files are being uploaded; all three are in the order of writing.   *)
OrderInv ==
    chatCrossed = {} =>
        /\ \A i, j \in 1..Len(pending) : i < j => pending[i] < pending[j]
        /\ \A i \in 1..Len(pending) : \A a \in attaching : pending[i] < a
        /\ attaching \subseteq {Len(written)}
        /\ sending # None => pending # <<>> /\ pending[1] = sending.message
        /\ \A m \in Landed : \A i \in 1..Len(pending) : m <= pending[i]
        /\ \A m \in Landed : \A a \in attaching : m < a
        /\ \A c \in Chat!Conversations : Chat!IsSorted(conversations[c], <)

(* Where a message of the present thread has landed.                        *)
Place(m) == IF sending # None /\ m = sending.message THEN {sending.stored} ELSE {open}

(* What waits was written in the present thread; all of that thread lands   *)
(* where the user is, or where the message being sent has landed.           *)
ThreadInv ==
    chatCrossed = {} =>
        /\ \A i \in 1..Len(pending) : written[pending[i]].thread = thread
        /\ \A a \in attaching : written[a].thread = thread
        /\ \A m \in 1..Len(written) :
               /\ written[m].thread <= thread
               /\ written[m].thread = thread =>
                      written[m].open \in {None, open} /\ Chat!Landed(m) \subseteq Place(m)
        /\ sending # None =>
               sending.to = open /\ (open # None => sending.stored \in {None, open})

ChatIInv == /\ Chat!TypeOK /\ WrittenInv /\ QueueInv /\ UnsentInv /\ BegunInv /\ OnceInv
            /\ OrderInv /\ ThreadInv

(* What taking the oldest off the queue leaves of it.                       *)
LEMMA ShiftLeaves ==
    ASSUME NEW S, pending \in Seq(S)
    PROVE  /\ Chat!Shift \in Seq(S)
           /\ Len(pending) \in Nat /\ Len(Chat!Shift) \in Nat
           /\ pending = <<>> => Chat!Shift = <<>>
           /\ pending # <<>> => Len(Chat!Shift) = Len(pending) - 1
           /\ \A i \in 1..Len(Chat!Shift) : /\ i + 1 \in 1..Len(pending)
                                            /\ Chat!Shift[i] = pending[i + 1]
<1>1. CASE pending = <<>>
    BY <1>1 DEF Chat!Shift
<1>2. CASE pending # <<>>
    BY <1>2, Shifted DEF Chat!Shift
<1> QED
    BY <1>1, <1>2

(* The conversation counts as its proof does.                               *)
LEMMA SameCount == \A S : Chat!Cardinality(S) = Cardinality(S)
BY DEF Chat!Cardinality, Cardinality

(* There is room for one more conversation while a message has not landed.  *)
LEMMA RoomForAnother ==
    ASSUME Chat!TypeOK, BegunInv, NEW m \in Chat!Messages, m \notin Landed
    PROVE  /\ IsFiniteSet(Landed) /\ IsFiniteSet(Chat!Begun)
           /\ Cardinality(Chat!Begun) \in Nat
           /\ Cardinality(Chat!Begun) + 1 \in Chat!Conversations
           /\ Cardinality(Landed \cup {m}) = Cardinality(Landed) + 1
           /\ Cardinality(Chat!Begun \cup {Cardinality(Chat!Begun) + 1}) = Cardinality(Chat!Begun) + 1
           /\ Cardinality(Chat!Begun) + 1 \notin Chat!Begun
<1>1. IsFiniteSet(Chat!Messages) /\ Cardinality(Chat!Messages) = MaxMessages /\ MaxMessages \in Nat
    <2>1. MaxMessages \in Nat \ {0}
        BY SizeAssumption
    <2>2. IsFiniteSet(1..MaxMessages) /\ Cardinality(1..MaxMessages) = MaxMessages
        BY <2>1, FS_Interval
    <2> QED
        BY <2>1, <2>2 DEF Chat!Messages
<1>2. Landed \subseteq Chat!Messages /\ Chat!Begun \subseteq Chat!Messages
    BY DEF Landed, Chat!Begun, Chat!Conversations, Chat!Messages
<1>3. IsFiniteSet(Landed) /\ IsFiniteSet(Chat!Begun)
    BY <1>1, <1>2, FS_Subset
<1>4. Cardinality(Landed) \in Nat /\ Cardinality(Chat!Begun) \in Nat
    BY <1>3, FS_CardinalityType
<1>5. IsFiniteSet(Landed \cup {m}) /\ Cardinality(Landed \cup {m}) = Cardinality(Landed) + 1
    BY <1>3, FS_AddElement
<1>6. Cardinality(Landed \cup {m}) <= MaxMessages
    <2>1. Landed \cup {m} \subseteq Chat!Messages
        BY <1>2
    <2> QED
        BY <2>1, <1>1, FS_Subset
<1>7. Cardinality(Chat!Begun) + 1 \in Chat!Conversations
    BY <1>1, <1>4, <1>5, <1>6 DEF BegunInv, Chat!Conversations
<1>8. Cardinality(Chat!Begun) + 1 \notin Chat!Begun
    BY <1>4 DEF BegunInv
<1>9. Cardinality(Chat!Begun \cup {Cardinality(Chat!Begun) + 1}) = Cardinality(Chat!Begun) + 1
    BY <1>3, <1>8, FS_AddElement
<1> QED
    BY <1>3, <1>4, <1>5, <1>7, <1>8, <1>9

(* Where a message is stored: in the conversation it names, or a new one.   *)
LEMMA Stored ==
    ASSUME Chat!TypeOK, UnsentInv, BegunInv, Chat!Store
    PROVE  \E c \in Chat!Conversations :
               /\ c = IF sending.to = None THEN Cardinality(Chat!Begun) + 1 ELSE sending.to
               /\ conversations' = [conversations EXCEPT ![c] = Append(@, sending.message)]
               /\ sending' = [sending EXCEPT !.stored = c]
               /\ sending' \in Chat!Post /\ sending' # None
               /\ sending'.message = sending.message /\ sending'.to = sending.to
               /\ sending'.stored = c /\ c # None
               /\ sending.message \in Chat!Messages /\ sending.message \notin Landed
<1> DEFINE c == IF sending.to = None THEN Cardinality(Chat!Begun) + 1 ELSE sending.to
<1>1. /\ sending # None /\ sending.stored = None /\ sending \in Chat!Post
      /\ sending.message \in Chat!Messages /\ sending.message \notin Landed
    BY DEF Chat!Store, Chat!TypeOK, UnsentInv, Chat!Post
<1>2. c \in Chat!Conversations
    BY <1>1, RoomForAnother DEF Chat!Post
<1>3. /\ conversations' = [conversations EXCEPT ![c] = Append(@, sending.message)]
      /\ sending' = [sending EXCEPT !.stored = c]
    BY SameCount, Zenon DEF Chat!Store
<1>4. c # None
    BY <1>2, NothingAssumption DEF Chat!Conversations
<1> HIDE DEF c
<1>5. /\ sending' \in Chat!Post
      /\ sending'.message = sending.message /\ sending'.to = sending.to /\ sending'.stored = c
    BY <1>1, <1>2, <1>3 DEF Chat!Post
<1>6. sending' # None
    BY <1>5, NothingAssumption
<1> USE DEF c
<1> QED
    BY <1>1, <1>2, <1>3, <1>4, <1>5, <1>6

(* Every step keeps the types.                                              *)
LEMMA ChatTyped ==
    ASSUME Chat!TypeOK, WrittenInv, UnsentInv, BegunInv, [Chat!Next]_chatVars
    PROVE  Chat!TypeOK'
<1> USE DEF Chat!TypeOK
<1>0. CASE UNCHANGED chatVars
    BY <1>0 DEF chatVars
<1>1. ASSUME NEW files \in BOOLEAN, Chat!Write(files)
      PROVE  Chat!TypeOK'
    <2> DEFINE line == [thread |-> thread, open |-> open]
    <2>1. Len(written) + 1 \in Chat!Messages
        <3>1. Len(written) \in Nat /\ Len(written) < MaxMessages
            BY <1>1 DEF Chat!Write
        <3> QED
            BY <3>1, SizeAssumption DEF Chat!Messages
    <2>2. written' \in Seq([thread : 1..MaxThreads, open : Chat!Conversations \cup {None}])
        BY <1>1 DEF Chat!Write
    <2>3. pending' \in Seq(Chat!Messages) /\ attaching' \subseteq Chat!Messages
        BY <1>1, <2>1 DEF Chat!Write
    <2>4. chatCrossed' \subseteq {"moved", "attached", "lost"}
        BY <1>1 DEF Chat!Write
    <2> QED
        BY <1>1, <2>2, <2>3, <2>4 DEF Chat!Write
<1>2. ASSUME NEW m \in Chat!Messages, Chat!FilesSent(m)
      PROVE  Chat!TypeOK'
    <2>1. pending' \in Seq(Chat!Messages)
        <3>1. Append(pending, m) \in Seq(Chat!Messages)
            OBVIOUS
        <3> QED
            BY <1>2, <3>1 DEF Chat!FilesSent
    <2>2. attaching' \subseteq Chat!Messages
        BY <1>2 DEF Chat!FilesSent
    <2> QED
        BY <1>2, <2>1, <2>2 DEF Chat!FilesSent
<1>3. CASE Chat!StartNew
    BY <1>3, SizeAssumption DEF Chat!StartNew, Chat!Moved
<1>4. CASE \E c \in Chat!Conversations : Chat!ConversationOpened(c)
    BY <1>4, SizeAssumption DEF Chat!ConversationOpened, Chat!Moved
<1>5. CASE \E c \in Chat!Conversations : Chat!OpeningFailed(c)
    BY <1>5 DEF Chat!OpeningFailed
<1>6. CASE Chat!Reset
    BY <1>6, SizeAssumption DEF Chat!Reset, Chat!Moved
<1>7. ASSUME NEW c \in Chat!Conversations, Chat!OpenConversation(c)
      PROVE  Chat!TypeOK'
    BY <1>7 DEF Chat!OpenConversation
<1>8. CASE Chat!SendNext
    BY <1>8 DEF Chat!SendNext, Chat!Post
<1>9. CASE Chat!Store
    <2>1. PICK c \in Chat!Conversations :
              /\ conversations' = [conversations EXCEPT ![c] = Append(@, sending.message)]
              /\ sending' \in Chat!Post /\ sending.message \in Chat!Messages
        BY <1>9, Stored
    <2>2. conversations' \in [Chat!Conversations -> Seq(Chat!Messages)]
        BY <2>1, StoreLands
    <2> QED
        BY <1>9, <2>1, <2>2 DEF Chat!Store
<1>10. CASE Chat!SendAnswered
    BY <1>10, ShiftLeaves DEF Chat!SendAnswered, Chat!Post
<1>11. CASE Chat!SendFailed
    BY <1>11 DEF Chat!SendFailed
<1> QED
    BY <1>0, <1>1, <1>2, <1>3, <1>4, <1>5, <1>6, <1>7, <1>8, <1>9, <1>10, <1>11 DEF Chat!Next

(* Nothing lands unless a message is stored.                                *)
LEMMA NothingLands ==
    ASSUME conversations' = conversations
    PROVE  Landed' = Landed /\ Chat!Begun' = Chat!Begun /\ \A m : Chat!Landed(m)' = Chat!Landed(m)
BY DEF Landed, Chat!Landed, Chat!Begun

(* What the types say of the sequences.                                     *)
LEMMA ChatFacts ==
    ASSUME Chat!TypeOK
    PROVE  /\ Chat!Messages = 1..MaxMessages /\ MaxMessages \in Nat
           /\ pending \in Seq(Chat!Messages) /\ Len(pending) \in Nat
           /\ \A i \in 1..Len(pending) : pending[i] \in Chat!Messages
           /\ attaching \subseteq Chat!Messages /\ Landed \subseteq Chat!Messages
           /\ Len(written) \in Nat
           /\ sending # None => sending \in Chat!Post /\ sending.message \in Chat!Messages
<1>1. Chat!Messages = 1..MaxMessages /\ MaxMessages \in Nat
    BY SizeAssumption DEF Chat!Messages
<1>2. /\ pending \in Seq(Chat!Messages) /\ Len(pending) \in Nat
      /\ \A i \in 1..Len(pending) : pending[i] \in Chat!Messages
    BY DEF Chat!TypeOK
<1>3. Len(written) \in Nat
    BY DEF Chat!TypeOK
<1>4. sending # None => sending \in Chat!Post /\ sending.message \in Chat!Messages
    BY DEF Chat!TypeOK, Chat!Post
<1>5. attaching \subseteq Chat!Messages /\ Landed \subseteq Chat!Messages
    BY DEF Chat!TypeOK, Landed
<1> QED
    BY <1>1, <1>2, <1>3, <1>4, <1>5

(* What a message that joins the queue adds to it.                          *)
LEMMA QueueGrows ==
    ASSUME Chat!TypeOK, NEW m \in Chat!Messages, pending' \in {Append(pending, m), pending}
    PROVE  /\ Len(pending') \in {Len(pending), Len(pending) + 1}
           /\ \A i \in 1..Len(pending') : \/ i \in 1..Len(pending) /\ pending'[i] = pending[i]
                                          \/ i = Len(pending) + 1 /\ pending'[i] = m
           /\ \A i \in 1..Len(pending) : i \in 1..Len(pending') /\ pending'[i] = pending[i]
<1>1. pending \in Seq(Chat!Messages) /\ Len(pending) \in Nat
    BY ChatFacts
<1>2. CASE pending' = Append(pending, m)
    BY <1>1, <1>2
<1>3. CASE pending' = pending
    BY <1>1, <1>3
<1> QED
    BY <1>2, <1>3

(* What is left of the queue when it is shifted, or dropped.                *)
LEMMA QueueShrinks ==
    ASSUME Chat!TypeOK, pending' \in {<<>>, Chat!Shift}
    PROVE  /\ Len(pending') \in Nat
           /\ \A i \in 1..Len(pending') : i + 1 \in 1..Len(pending) /\ pending'[i] = pending[i + 1]
<1>1. pending \in Seq(Chat!Messages)
    BY ChatFacts
<1>2. CASE pending' = <<>>
    BY <1>2
<1>3. CASE pending' = Chat!Shift
    BY <1>1, <1>3, ShiftLeaves
<1> QED
    BY <1>2, <1>3

(* A message is the next one when it is written, with what is open then.    *)
LEMMA Writes ==
    ASSUME Chat!TypeOK, WrittenInv, NEW files \in BOOLEAN, Chat!Write(files)
    PROVE  \E m \in Chat!Messages :
               /\ m = Len(written) + 1
               /\ Len(written') = m
               /\ \A n \in 1..Len(written) : written'[n] = written[n]
               /\ written'[m] = [thread |-> thread, open |-> open]
               /\ \/ attaching' = attaching \cup {m} /\ pending' = pending
                  \/ attaching' = attaching /\ pending' = Append(pending, m)
               /\ pending' \in {Append(pending, m), pending}
               /\ m \notin Landed /\ m \notin attaching
               /\ \A i \in 1..Len(pending) : pending[i] # m
               /\ sending # None => sending.message # m
<1> DEFINE m == Len(written) + 1
<1>1. m \in Chat!Messages
    BY ChatFacts DEF Chat!Write, Chat!Messages
<1>2. /\ Len(written') = m
      /\ \A n \in 1..Len(written) : written'[n] = written[n]
      /\ written'[m] = [thread |-> thread, open |-> open]
    <2> DEFINE line == [thread |-> thread, open |-> open]
    <2>1. line \in [thread : 1..MaxThreads, open : Chat!Conversations \cup {None}]
        BY DEF Chat!TypeOK
    <2>2. written' = Append(written, line)
        BY DEF Chat!Write
    <2>3. written \in Seq([thread : 1..MaxThreads, open : Chat!Conversations \cup {None}])
        BY DEF Chat!TypeOK
    <2> HIDE DEF line
    <2>4. /\ Len(written') = Len(written) + 1 /\ written'[Len(written) + 1] = line
          /\ \A n \in 1..Len(written) : written'[n] = written[n]
        BY <2>1, <2>2, <2>3
    <2> QED
        BY <2>4 DEF line
<1>3. /\ \/ attaching' = attaching \cup {m} /\ pending' = pending
         \/ attaching' = attaching /\ pending' = Append(pending, m)
      /\ pending' \in {Append(pending, m), pending}
    BY DEF Chat!Write
<1>4. /\ m \notin Landed /\ m \notin attaching
      /\ \A i \in 1..Len(pending) : pending[i] # m
      /\ sending # None => sending.message # m
    BY <1>1, ChatFacts DEF WrittenInv, Chat!Messages
<1> QED
    BY <1>1, <1>2, <1>3, <1>4

(* No message is ahead of its writing.                                      *)
LEMMA WrittenKept ==
    ASSUME Chat!TypeOK, WrittenInv, UnsentInv, BegunInv, [Chat!Next]_chatVars
    PROVE  WrittenInv'
<1> USE DEF WrittenInv
<1>0. CASE UNCHANGED chatVars
    BY <1>0, NothingLands DEF chatVars
<1>1. ASSUME NEW files \in BOOLEAN, Chat!Write(files)
      PROVE  WrittenInv'
    <2>1. PICK m \in Chat!Messages :
              /\ m = Len(written) + 1 /\ Len(written') = m
              /\ pending' \in {Append(pending, m), pending}
              /\ attaching' \in {attaching, attaching \cup {m}}
        BY <1>1, Writes
    <2>2. Landed' = Landed /\ sending' = sending
        BY <1>1, NothingLands DEF Chat!Write
    <2>3. /\ Len(pending) \in Nat /\ Len(written) \in Nat
          /\ \A i \in 1..Len(pending) : pending[i] \in Chat!Messages /\ pending[i] <= Len(written)
          /\ \A k \in Chat!Messages : k \in Nat
        BY ChatFacts
    <2>4. \A i \in 1..Len(pending') : \/ i \in 1..Len(pending) /\ pending'[i] = pending[i]
                                      \/ pending'[i] = m
        BY <2>1, QueueGrows
    <2>5. \A i \in 1..Len(pending') : pending'[i] <= Len(written')
        <3> SUFFICES ASSUME NEW i \in 1..Len(pending')
                     PROVE  pending'[i] <= Len(written')
            OBVIOUS
        <3>1. m \in Nat /\ Len(written') = m /\ Len(written) < m
            BY <2>1, <2>3
        <3>2. CASE i \in 1..Len(pending) /\ pending'[i] = pending[i]
            <4>1. pending[i] \in Nat /\ pending[i] <= Len(written)
                BY <2>3, <3>2
            <4> QED
                BY <2>3, <3>1, <3>2, <4>1
        <3>3. CASE pending'[i] = m
            BY <3>1, <3>3
        <3> QED
            BY <2>4, <3>2, <3>3
    <2> QED
        BY <2>1, <2>2, <2>5, ChatFacts DEF Chat!Messages
<1>2. ASSUME NEW m \in Chat!Messages, Chat!FilesSent(m)
      PROVE  WrittenInv'
    <2>1. Landed' = Landed /\ sending' = sending /\ written' = written
        BY <1>2, NothingLands DEF Chat!FilesSent
    <2>2. \A i \in 1..Len(pending') : pending'[i] <= Len(written')
        BY <1>2, <2>1, QueueGrows, ChatFacts DEF Chat!FilesSent
    <2> QED
        BY <1>2, <2>1, <2>2 DEF Chat!FilesSent
<1>3. CASE Chat!StartNew
    BY <1>3, NothingLands DEF Chat!StartNew
<1>4. CASE \E c \in Chat!Conversations : Chat!ConversationOpened(c)
    BY <1>4, NothingLands DEF Chat!ConversationOpened
<1>5. CASE \E c \in Chat!Conversations : Chat!OpeningFailed(c)
    BY <1>5, NothingLands DEF Chat!OpeningFailed
<1>6. CASE Chat!Reset
    BY <1>6, NothingLands DEF Chat!Reset, Chat!Moved
<1>7. ASSUME NEW c \in Chat!Conversations, Chat!OpenConversation(c)
      PROVE  WrittenInv'
    BY <1>7, NothingLands DEF Chat!OpenConversation
<1>8. CASE Chat!SendNext
    <2>1. Landed' = Landed /\ sending'.message = pending[1] /\ 1 \in 1..Len(pending)
        BY <1>8, NothingLands, ChatFacts DEF Chat!SendNext
    <2> QED
        BY <1>8, <2>1 DEF Chat!SendNext
<1>9. CASE Chat!Store
    <2>1. PICK c \in Chat!Conversations :
              /\ conversations' = [conversations EXCEPT ![c] = Append(@, sending.message)]
              /\ sending'.message = sending.message /\ sending.message \in Chat!Messages
        BY <1>9, Stored
    <2>2. Landed' = Landed \cup {sending.message}
        BY <2>1, StoreLands
    <2> QED
        BY <1>9, <2>1, <2>2 DEF Chat!Store
<1>10. CASE Chat!SendAnswered
    <2>1. Landed' = Landed /\ written' = written /\ attaching' = attaching /\ sending' = None
        BY <1>10, NothingLands DEF Chat!SendAnswered
    <2>2. \A i \in 1..Len(pending') : pending'[i] <= Len(written)
        BY <1>10, QueueShrinks DEF Chat!SendAnswered
    <2> QED
        BY <2>1, <2>2
<1>11. CASE Chat!SendFailed
    BY <1>11, NothingLands DEF Chat!SendFailed
<1> QED
    BY <1>0, <1>1, <1>2, <1>3, <1>4, <1>5, <1>6, <1>7, <1>8, <1>9, <1>10, <1>11 DEF Chat!Next

(* No message waits twice.                                                  *)
LEMMA QueueKept ==
    ASSUME Chat!TypeOK, WrittenInv, QueueInv, UnsentInv, BegunInv, [Chat!Next]_chatVars
    PROVE  QueueInv'
<1> USE DEF QueueInv
<1>0. CASE UNCHANGED chatVars
    BY <1>0 DEF chatVars
<1>1. ASSUME NEW files \in BOOLEAN, Chat!Write(files)
      PROVE  QueueInv'
    <2>1. PICK m \in Chat!Messages :
              /\ \/ attaching' = attaching \cup {m} /\ pending' = pending
                 \/ attaching' = attaching /\ pending' = Append(pending, m)
              /\ pending' \in {Append(pending, m), pending}
              /\ m \notin attaching
              /\ \A i \in 1..Len(pending) : pending[i] # m
              /\ sending # None => sending.message # m
        BY <1>1, Writes
    <2>2. sending' = sending
        BY <1>1 DEF Chat!Write
    <2>3. /\ Len(pending) \in Nat
          /\ \A i \in 1..Len(pending') : \/ i \in 1..Len(pending) /\ pending'[i] = pending[i]
                                         \/ i = Len(pending) + 1 /\ pending'[i] = m
        BY <2>1, QueueGrows, ChatFacts
    <2>4. CASE attaching' = attaching \cup {m} /\ pending' = pending
        BY <2>1, <2>2, <2>4
    <2>5. CASE attaching' = attaching /\ pending' = Append(pending, m)
        <3>1. \A i, j \in 1..Len(pending') : pending'[i] = pending'[j] => i = j
            BY <2>1, <2>3
        <3>2. \A i \in 1..Len(pending') : pending'[i] \notin attaching'
            BY <2>1, <2>3, <2>5
        <3> QED
            BY <2>1, <2>2, <2>3, <2>5, <3>1, <3>2
    <2> QED
        BY <2>1, <2>4, <2>5
<1>2. ASSUME NEW m \in Chat!Messages, Chat!FilesSent(m)
      PROVE  QueueInv'
    <2>1. /\ m \in attaching /\ attaching' = attaching \ {m} /\ sending' = sending
          /\ pending' \in {Append(pending, m), pending}
        BY <1>2 DEF Chat!FilesSent
    <2>2. \A i \in 1..Len(pending') : \/ i \in 1..Len(pending) /\ pending'[i] = pending[i]
                                      \/ i = Len(pending) + 1 /\ pending'[i] = m
        BY <2>1, QueueGrows
    <2> QED
        BY <2>1, <2>2
<1>3. CASE Chat!StartNew
    BY <1>3 DEF Chat!StartNew
<1>4. CASE \E c \in Chat!Conversations : Chat!ConversationOpened(c)
    BY <1>4 DEF Chat!ConversationOpened
<1>5. CASE \E c \in Chat!Conversations : Chat!OpeningFailed(c)
    BY <1>5 DEF Chat!OpeningFailed
<1>6. CASE Chat!Reset
    BY <1>6 DEF Chat!Reset
<1>7. ASSUME NEW c \in Chat!Conversations, Chat!OpenConversation(c)
      PROVE  QueueInv'
    BY <1>7 DEF Chat!OpenConversation
<1>8. CASE Chat!SendNext
    <2>1. sending'.message = pending[1] /\ 1 \in 1..Len(pending)
        BY <1>8, ChatFacts DEF Chat!SendNext
    <2> QED
        BY <1>8, <2>1 DEF Chat!SendNext
<1>9. CASE Chat!Store
    <2>1. sending # None /\ sending'.message = sending.message
        BY <1>9, Stored DEF Chat!Store
    <2> QED
        BY <1>9, <2>1 DEF Chat!Store
<1>10. CASE Chat!SendAnswered
    <2>1. /\ Len(pending') \in Nat /\ Len(pending) \in Nat
          /\ \A i \in 1..Len(pending') : i + 1 \in 1..Len(pending) /\ pending'[i] = pending[i + 1]
        BY <1>10, QueueShrinks, ChatFacts DEF Chat!SendAnswered
    <2>2. \A i, j \in 1..Len(pending') : pending'[i] = pending'[j] => i = j
        BY <2>1
    <2> QED
        BY <1>10, <2>1, <2>2 DEF Chat!SendAnswered
<1>11. CASE Chat!SendFailed
    BY <1>11 DEF Chat!SendFailed
<1> QED
    BY <1>0, <1>1, <1>2, <1>3, <1>4, <1>5, <1>6, <1>7, <1>8, <1>9, <1>10, <1>11 DEF Chat!Next

(* What has landed does not wait to land again.                             *)
LEMMA UnsentKept ==
    ASSUME Chat!TypeOK, WrittenInv, QueueInv, UnsentInv, BegunInv, [Chat!Next]_chatVars
    PROVE  UnsentInv'
<1> USE DEF UnsentInv
<1>0. CASE UNCHANGED chatVars
    BY <1>0, NothingLands DEF chatVars
<1>1. ASSUME NEW files \in BOOLEAN, Chat!Write(files)
      PROVE  UnsentInv'
    <2>1. PICK m \in Chat!Messages :
              /\ pending' \in {Append(pending, m), pending}
              /\ attaching' \in {attaching, attaching \cup {m}}
              /\ m \notin Landed
        BY <1>1, Writes
    <2>2. sending' = sending /\ Landed' = Landed
        BY <1>1, NothingLands DEF Chat!Write
    <2>3. \A i \in 1..Len(pending') : \/ i \in 1..Len(pending) /\ pending'[i] = pending[i]
                                      \/ i = Len(pending) + 1 /\ pending'[i] = m
        BY <2>1, QueueGrows
    <2> QED
        BY <2>1, <2>2, <2>3
<1>2. ASSUME NEW m \in Chat!Messages, Chat!FilesSent(m)
      PROVE  UnsentInv'
    <2>1. /\ m \in attaching /\ attaching' = attaching \ {m} /\ sending' = sending
          /\ pending' \in {Append(pending, m), pending} /\ Landed' = Landed
        BY <1>2, NothingLands DEF Chat!FilesSent
    <2>2. \A i \in 1..Len(pending') : \/ i \in 1..Len(pending) /\ pending'[i] = pending[i]
                                      \/ i = Len(pending) + 1 /\ pending'[i] = m
        BY <2>1, QueueGrows
    <2> QED
        BY <2>1, <2>2
<1>3. CASE Chat!StartNew
    BY <1>3, NothingLands DEF Chat!StartNew
<1>4. CASE \E c \in Chat!Conversations : Chat!ConversationOpened(c)
    BY <1>4, NothingLands DEF Chat!ConversationOpened
<1>5. CASE \E c \in Chat!Conversations : Chat!OpeningFailed(c)
    BY <1>5, NothingLands DEF Chat!OpeningFailed
<1>6. CASE Chat!Reset
    BY <1>6, NothingLands DEF Chat!Reset
<1>7. ASSUME NEW c \in Chat!Conversations, Chat!OpenConversation(c)
      PROVE  UnsentInv'
    BY <1>7, NothingLands DEF Chat!OpenConversation
<1>8. CASE Chat!SendNext
    <2>1. /\ sending = None /\ Landed' = Landed /\ pending' = pending /\ attaching' = attaching
          /\ sending'.message = pending[1] /\ 1 \in 1..Len(pending)
        BY <1>8, NothingLands, ChatFacts DEF Chat!SendNext
    <2> QED
        BY <2>1
<1>9. CASE Chat!Store
    <2>1. PICK c \in Chat!Conversations :
              /\ conversations' = [conversations EXCEPT ![c] = Append(@, sending.message)]
              /\ sending' # None /\ sending'.message = sending.message
              /\ sending'.stored = c /\ c # None /\ sending.message \in Chat!Messages
        BY <1>9, Stored
    <2>2. Landed' = Landed \cup {sending.message}
        BY <2>1, StoreLands
    <2> QED
        BY <1>9, <2>1, <2>2 DEF Chat!Store, QueueInv
<1>10. CASE Chat!SendAnswered
    <2>1. /\ Len(pending') \in Nat /\ Len(pending) \in Nat
          /\ \A i \in 1..Len(pending') : i + 1 \in 1..Len(pending) /\ pending'[i] = pending[i + 1]
        BY <1>10, QueueShrinks, ChatFacts DEF Chat!SendAnswered
    <2>2. Landed' = Landed /\ sending' = None /\ attaching' = attaching
        BY <1>10, NothingLands DEF Chat!SendAnswered
    <2>3. \A i \in 1..Len(pending') : pending'[i] \notin Landed
        BY <2>1 DEF QueueInv
    <2> QED
        BY <2>2, <2>3
<1>11. CASE Chat!SendFailed
    BY <1>11, NothingLands DEF Chat!SendFailed
<1> QED
    BY <1>0, <1>1, <1>2, <1>3, <1>4, <1>5, <1>6, <1>7, <1>8, <1>9, <1>10, <1>11 DEF Chat!Next

(* A conversation is begun by the first message that lands in it.           *)
LEMMA BegunKept ==
    ASSUME Chat!TypeOK, UnsentInv, BegunInv, [Chat!Next]_chatVars
    PROVE  BegunInv'
<1> USE DEF BegunInv
<1>0. CASE UNCHANGED chatVars
    BY <1>0, NothingLands DEF chatVars
<1>1. ASSUME NEW files \in BOOLEAN, Chat!Write(files)
      PROVE  BegunInv'
    BY <1>1, NothingLands DEF Chat!Write
<1>2. ASSUME NEW m \in Chat!Messages, Chat!FilesSent(m)
      PROVE  BegunInv'
    BY <1>2, NothingLands DEF Chat!FilesSent
<1>3. CASE Chat!StartNew
    BY <1>3, NothingLands DEF Chat!StartNew, Chat!Moved
<1>4. CASE \E c \in Chat!Conversations : Chat!ConversationOpened(c)
    BY <1>4, NothingLands DEF Chat!ConversationOpened, Chat!Moved
<1>5. CASE \E c \in Chat!Conversations : Chat!OpeningFailed(c)
    BY <1>5, NothingLands DEF Chat!OpeningFailed
<1>6. CASE Chat!Reset
    BY <1>6, NothingLands DEF Chat!Reset, Chat!Moved
<1>7. ASSUME NEW c \in Chat!Conversations, Chat!OpenConversation(c)
      PROVE  BegunInv'
    BY <1>7, NothingLands DEF Chat!OpenConversation
<1>8. CASE Chat!SendNext
    BY <1>8, NothingLands DEF Chat!SendNext
<1>9. CASE Chat!Store
    <2>1. PICK c \in Chat!Conversations :
              /\ c = IF sending.to = None THEN Cardinality(Chat!Begun) + 1 ELSE sending.to
              /\ conversations' = [conversations EXCEPT ![c] = Append(@, sending.message)]
              /\ sending' # None /\ sending'.to = sending.to /\ sending'.stored = c
              /\ sending.message \in Chat!Messages /\ sending.message \notin Landed
        BY <1>9, Stored
    <2>2. Landed' = Landed \cup {sending.message} /\ Chat!Begun' = Chat!Begun \cup {c}
        BY <2>1, StoreLands
    <2>3. sending # None /\ open' = open /\ opening' = opening
        BY <1>9 DEF Chat!Store
    <2>4. /\ IsFiniteSet(Landed) /\ IsFiniteSet(Chat!Begun)
          /\ Cardinality(Chat!Begun) \in Nat
          /\ Cardinality(Landed \cup {sending.message}) = Cardinality(Landed) + 1
          /\ Cardinality(Chat!Begun \cup {Cardinality(Chat!Begun) + 1}) = Cardinality(Chat!Begun) + 1
        BY <2>1, RoomForAnother
    <2>5. Cardinality(Landed) \in Nat
        BY <2>4, FS_CardinalityType
    <2>6. /\ Chat!Begun' = 1..Cardinality(Chat!Begun')
          /\ Cardinality(Chat!Begun') <= Cardinality(Landed')
        <3>1. CASE sending.to = None
            <4>1. Chat!Begun' = Chat!Begun \cup {Cardinality(Chat!Begun) + 1}
                BY <2>1, <2>2, <3>1
            <4>2. Cardinality(Chat!Begun') = Cardinality(Chat!Begun) + 1
                BY <2>4, <4>1
            <4>3. Chat!Begun' = 1..(Cardinality(Chat!Begun) + 1)
                BY <2>4, <4>1
            <4> QED
                BY <2>2, <2>4, <2>5, <4>2, <4>3
        <3>2. CASE sending.to # None
            <4>1. Chat!Begun' = Chat!Begun
                BY <2>1, <2>2, <2>3, <3>2
            <4>2. Cardinality(Chat!Begun') = Cardinality(Chat!Begun)
                BY <4>1
            <4>3. Cardinality(Landed') = Cardinality(Landed) + 1
                BY <2>2, <2>4
            <4> QED
                BY <2>4, <2>5, <4>1, <4>2, <4>3
        <3> QED
            BY <3>1, <3>2
    <2> QED
        BY <2>1, <2>2, <2>3, <2>6
<1>10. CASE Chat!SendAnswered
    BY <1>10, NothingLands DEF Chat!SendAnswered
<1>11. CASE Chat!SendFailed
    BY <1>11, NothingLands DEF Chat!SendFailed
<1> QED
    BY <1>0, <1>1, <1>2, <1>3, <1>4, <1>5, <1>6, <1>7, <1>8, <1>9, <1>10, <1>11 DEF Chat!Next

(* No message lands twice.                                                  *)
LEMMA OnceKept ==
    ASSUME Chat!TypeOK, UnsentInv, BegunInv, OnceInv, [Chat!Next]_chatVars
    PROVE  OnceInv'
<1> USE DEF OnceInv
<1>1. CASE conversations' = conversations
    BY <1>1, NothingLands DEF Chat!Messages
<1>2. CASE Chat!Store
    <2>1. PICK c \in Chat!Conversations :
              /\ conversations' = [conversations EXCEPT ![c] = Append(@, sending.message)]
              /\ sending.message \in Chat!Messages /\ sending.message \notin Landed
        BY <1>2, Stored
    <2>2. PICK m \in Chat!Messages : m = sending.message
        BY <2>1
    <2>3. /\ Chat!Landed(m)' = Chat!Landed(m) \cup {c}
          /\ \A n : n # m => Chat!Landed(n)' = Chat!Landed(n)
        BY <2>1, <2>2, StoreLands
    <2>4. Chat!Landed(m) = {}
        BY <2>1, <2>2 DEF Landed
    <2>5. Chat!Messages' = Chat!Messages
        BY DEF Chat!Messages
    <2> QED
        BY <2>3, <2>4, <2>5
<1> QED
    BY <1>1, <1>2 DEF Chat!Next, chatVars, Chat!Write, Chat!FilesSent, Chat!StartNew,
       Chat!ConversationOpened, Chat!OpeningFailed, Chat!Reset, Chat!OpenConversation,
       Chat!SendNext, Chat!SendAnswered, Chat!SendFailed

(* What was crossed stays crossed.                                          *)
LEMMA StillCrossed ==
    ASSUME [Chat!Next]_chatVars, chatCrossed' = {}
    PROVE  chatCrossed = {}
BY DEF Chat!Next, chatVars, Chat!Write, Chat!FilesSent, Chat!StartNew, Chat!Moved,
   Chat!ConversationOpened, Chat!OpeningFailed, Chat!Reset, Chat!OpenConversation,
   Chat!SendNext, Chat!Store, Chat!SendAnswered, Chat!SendFailed

(* Whoever moves on with nothing crossed has nothing on its way.            *)
LEMMA PatientMoves ==
    ASSUME NEW to, Chat!Moved(to), chatCrossed' = {}
    PROVE  /\ pending = <<>> /\ attaching = {} /\ sending = None
           /\ thread' = thread + 1 /\ open' = to
BY DEF Chat!Moved, Chat!Busy

(* The order of writing is kept.                                            *)
LEMMA OrderKept ==
    ASSUME Chat!TypeOK, WrittenInv, QueueInv, UnsentInv, BegunInv, OrderInv,
           [Chat!Next]_chatVars, chatCrossed' = {}
    PROVE  OrderInv'
<1>a. chatCrossed = {}
    BY StillCrossed
<1> DEFINE Sorted == \A c \in Chat!Conversations : Chat!IsSorted(conversations[c], <)
           Increasing == \A i, j \in 1..Len(pending) : i < j => pending[i] < pending[j]
           Ahead == \A i \in 1..Len(pending) : \A a \in attaching : pending[i] < a
           Last == attaching \subseteq {Len(written)}
           First == sending # None => pending # <<>> /\ pending[1] = sending.message
           Behind == \A m \in Landed : \A i \in 1..Len(pending) : m <= pending[i]
           Before == \A m \in Landed : \A a \in attaching : m < a
<1>b. Increasing /\ Ahead /\ Last /\ First /\ Behind /\ Before /\ Sorted
    BY <1>a DEF OrderInv
<1>c. Increasing' /\ Ahead' /\ Last' /\ First' /\ Behind' /\ Before' /\ Sorted' => OrderInv'
    BY DEF OrderInv
<1>d. conversations' = conversations => Sorted' /\ Landed' = Landed
    BY <1>b, NothingLands DEF Chat!Conversations, Chat!IsSorted
<1>e. /\ Len(pending) \in Nat /\ Len(written) \in Nat
      /\ \A i \in 1..Len(pending) : pending[i] \in Nat /\ pending[i] <= Len(written)
      /\ \A m \in attaching \cup Landed : m \in Nat /\ m <= Len(written)
    BY ChatFacts DEF WrittenInv
<1> HIDE DEF Sorted
<1>0. CASE UNCHANGED chatVars
    <2>1. Increasing' /\ Ahead' /\ Last' /\ First' /\ Behind' /\ Before'
        BY <1>0, <1>b, <1>d DEF chatVars
    <2> QED
        BY <1>0, <1>c, <1>d, <2>1 DEF chatVars
<1>1. ASSUME NEW files \in BOOLEAN, Chat!Write(files)
      PROVE  OrderInv'
    <2>1. PICK m \in Chat!Messages :
              /\ m = Len(written) + 1 /\ Len(written') = m
              /\ \/ attaching' = attaching \cup {m} /\ pending' = pending
                 \/ attaching' = attaching /\ pending' = Append(pending, m)
              /\ pending' \in {Append(pending, m), pending}
        BY <1>1, Writes
    <2>2. sending' = sending /\ conversations' = conversations /\ attaching = {}
        BY <1>1 DEF Chat!Write
    <2>3. /\ Len(pending') \in {Len(pending), Len(pending) + 1}
          /\ \A i \in 1..Len(pending') : \/ i \in 1..Len(pending) /\ pending'[i] = pending[i]
                                         \/ i = Len(pending) + 1 /\ pending'[i] = m
          /\ \A i \in 1..Len(pending) : i \in 1..Len(pending') /\ pending'[i] = pending[i]
        BY <2>1, QueueGrows
    <2>4. Increasing'
        BY <2>1, <2>3, <1>b, <1>e
    <2>5. Ahead' /\ Last' /\ Before'
        BY <2>1, <2>2, <2>3, <1>d, <1>e
    <2>6. First'
        <3>1. pending # <<>> => 1 \in 1..Len(pending)
            BY ChatFacts
        <3>2. pending # <<>> => pending' # <<>>
            BY <2>3, <3>1, ChatFacts
        <3> QED
            BY <2>2, <2>3, <3>1, <3>2, <1>b
    <2>7. Behind'
        BY <2>1, <2>2, <2>3, <1>b, <1>d, <1>e
    <2> QED
        BY <1>c, <1>d, <2>2, <2>4, <2>5, <2>6, <2>7
<1>2. ASSUME NEW m \in Chat!Messages, Chat!FilesSent(m)
      PROVE  OrderInv'
    <2>1. /\ m \in attaching /\ attaching' = attaching \ {m} /\ sending' = sending
          /\ pending' \in {Append(pending, m), pending} /\ written' = written
          /\ conversations' = conversations
        BY <1>2 DEF Chat!FilesSent
    <2>2. m = Len(written) /\ attaching' = {}
        BY <2>1, <1>b
    <2>3. /\ Len(pending') \in {Len(pending), Len(pending) + 1}
          /\ \A i \in 1..Len(pending') : \/ i \in 1..Len(pending) /\ pending'[i] = pending[i]
                                         \/ i = Len(pending) + 1 /\ pending'[i] = m
          /\ \A i \in 1..Len(pending) : i \in 1..Len(pending') /\ pending'[i] = pending[i]
        BY <2>1, QueueGrows
    <2>4. Increasing'
        BY <2>1, <2>3, <1>b, <1>e
    <2>5. First'
        <3>1. pending # <<>> => 1 \in 1..Len(pending)
            BY ChatFacts
        <3>2. pending # <<>> => pending' # <<>>
            BY <2>3, <3>1, ChatFacts
        <3> QED
            BY <2>1, <2>3, <3>1, <3>2, <1>b
    <2>6. Behind'
        BY <2>1, <2>3, <1>b, <1>d, <1>e
    <2>7. Ahead' /\ Last' /\ Before'
        BY <2>2
    <2> QED
        BY <1>c, <1>d, <2>1, <2>4, <2>5, <2>6, <2>7
<1>3. CASE Chat!StartNew \/ \E c \in Chat!Conversations : Chat!ConversationOpened(c)
    <2>1. UNCHANGED <<conversations, pending, sending, attaching, written>>
        BY <1>3 DEF Chat!StartNew, Chat!ConversationOpened
    <2>2. Increasing' /\ Ahead' /\ Last' /\ First' /\ Behind' /\ Before'
        BY <2>1, <1>b, <1>d
    <2> QED
        BY <1>c, <1>d, <2>1, <2>2
<1>5. CASE \E c \in Chat!Conversations : Chat!OpeningFailed(c)
    <2>1. UNCHANGED <<conversations, pending, sending, attaching, written>>
        BY <1>5 DEF Chat!OpeningFailed
    <2>2. Increasing' /\ Ahead' /\ Last' /\ First' /\ Behind' /\ Before'
        BY <2>1, <1>b, <1>d
    <2> QED
        BY <1>c, <1>d, <2>1, <2>2
<1>6. CASE Chat!Reset
    <2>1. /\ sending = None /\ attaching = {}
        BY <1>6, PatientMoves DEF Chat!Reset
    <2>2. /\ pending' = <<>> /\ attaching' = {} /\ sending' = None
          /\ conversations' = conversations
        BY <1>6, <2>1 DEF Chat!Reset
    <2>3. Increasing' /\ Ahead' /\ Last' /\ First' /\ Behind' /\ Before'
        BY <2>2
    <2> QED
        BY <1>c, <1>d, <2>2, <2>3
<1>7. ASSUME NEW c \in Chat!Conversations, Chat!OpenConversation(c)
      PROVE  OrderInv'
    <2>1. UNCHANGED <<conversations, pending, sending, attaching, written>>
        BY <1>7 DEF Chat!OpenConversation
    <2>2. Increasing' /\ Ahead' /\ Last' /\ First' /\ Behind' /\ Before'
        BY <2>1, <1>b, <1>d
    <2> QED
        BY <1>c, <1>d, <2>1, <2>2
<1>8. CASE Chat!SendNext
    <2>1. /\ UNCHANGED <<conversations, pending, attaching, written>>
          /\ sending'.message = pending[1] /\ pending # <<>>
        BY <1>8, ChatFacts DEF Chat!SendNext
    <2>2. Increasing' /\ Ahead' /\ Last' /\ First' /\ Behind' /\ Before'
        BY <2>1, <1>b, <1>d
    <2> QED
        BY <1>c, <1>d, <2>1, <2>2
<1>9. CASE Chat!Store
    <2>1. PICK c \in Chat!Conversations :
              /\ conversations' = [conversations EXCEPT ![c] = Append(@, sending.message)]
              /\ sending'.message = sending.message
              /\ sending.message \in Chat!Messages /\ sending.message \notin Landed
        BY <1>9, Stored
    <2>2. PICK m \in Chat!Messages : m = sending.message
        BY <2>1
    <2>3. /\ conversations'[c] = Append(conversations[c], m)
          /\ \A d \in Chat!Conversations : d # c => conversations'[d] = conversations[d]
          /\ Landed' = Landed \cup {m}
        BY <2>1, <2>2, StoreLands
    <2>4. UNCHANGED <<pending, attaching, written>> /\ sending # None
        BY <1>9 DEF Chat!Store
    <2>5. pending # <<>> /\ pending[1] = m /\ 1 \in 1..Len(pending)
        BY <2>2, <2>4, <1>b, ChatFacts
    <2>6. Increasing' /\ Ahead' /\ Last' /\ First'
        BY <2>1, <2>2, <2>4, <2>5, <1>b
    <2>7. Behind'
        <3>1. \A i \in 1..Len(pending) : m <= pending[i]
            BY <2>5, <1>b, <1>e
        <3> QED
            BY <2>3, <2>4, <3>1, <1>b
    <2>8. Before'
        BY <2>3, <2>4, <2>5, <1>b
    <2>9. Sorted'
        <3>1. conversations[c] \in Seq(Chat!Messages)
            BY DEF Chat!TypeOK
        <3>2. Chat!IsSorted(conversations[c], <)
            BY <1>b, Zenon DEF Sorted
        <3>3. \A i \in 1..Len(conversations[c]) : conversations[c][i] \in Landed
            <4> SUFFICES ASSUME NEW i \in 1..Len(conversations[c])
                         PROVE  conversations[c][i] \in Landed
                OBVIOUS
            <4>1. conversations[c][i] \in Chat!Messages /\ i \in DOMAIN conversations[c]
                BY <3>1
            <4>2. c \in Chat!Landed(conversations[c][i])
                BY <4>1 DEF Chat!Landed, Chat!ToSet
            <4> QED
                BY <4>1, <4>2 DEF Landed
        <3>4. \A i \in 1..Len(conversations[c]) : conversations[c][i] < m
            BY <3>3, <2>1, <2>2, <2>5, <1>b, <1>e
        <3>5. Chat!IsSorted(conversations'[c], <)
            BY <2>3, <3>1, <3>2, <3>4, Appended DEF Chat!IsSorted
        <3> QED
            BY <1>b, <2>3, <3>5 DEF Sorted, Chat!Conversations, Chat!IsSorted
    <2> QED
        BY <1>c, <2>6, <2>7, <2>8, <2>9
<1>10. CASE Chat!SendAnswered
    <2>1. /\ Len(pending') \in Nat
          /\ \A i \in 1..Len(pending') : i + 1 \in 1..Len(pending) /\ pending'[i] = pending[i + 1]
        BY <1>10, QueueShrinks DEF Chat!SendAnswered
    <2>2. UNCHANGED <<conversations, attaching, written>> /\ sending' = None
        BY <1>10 DEF Chat!SendAnswered
    <2>3. Increasing'
        BY <2>1, <1>b, <1>e
    <2>4. Ahead' /\ Behind'
        BY <2>1, <2>2, <1>b, <1>d
    <2>5. Last' /\ First' /\ Before'
        BY <2>2, <1>b, <1>d
    <2> QED
        BY <1>c, <1>d, <2>2, <2>3, <2>4, <2>5
<1>11. CASE Chat!SendFailed
    <2>1. /\ pending' = <<>> /\ sending' = None
          /\ UNCHANGED <<conversations, attaching, written>>
        BY <1>11 DEF Chat!SendFailed
    <2>2. Increasing' /\ Ahead' /\ Last' /\ First' /\ Behind' /\ Before'
        BY <2>1, <1>b, <1>d
    <2> QED
        BY <1>c, <1>d, <2>1, <2>2
<1> HIDE DEF Increasing, Ahead, Last, First, Behind, Before
<1> QED
    BY <1>0, <1>1, <1>2, <1>3, <1>5, <1>6, <1>7, <1>8, <1>9, <1>10, <1>11 DEF Chat!Next

(* What the present thread wrote lands where the user is.                   *)
LEMMA ThreadKept ==
    ASSUME Chat!TypeOK, WrittenInv, QueueInv, UnsentInv, BegunInv, OrderInv, ThreadInv,
           [Chat!Next]_chatVars, chatCrossed' = {}
    PROVE  ThreadInv'
<1>a. chatCrossed = {}
    BY StillCrossed
<1> DEFINE Waiting == \A i \in 1..Len(pending) : written[pending[i]].thread = thread
           Uploading == \A a \in attaching : written[a].thread = thread
           Past == \A m \in 1..Len(written) : written[m].thread <= thread
           Here == \A m \in 1..Len(written) :
                       written[m].thread = thread =>
                           written[m].open \in {None, open} /\ Chat!Landed(m) \subseteq Place(m)
           Goes == sending # None =>
                       sending.to = open /\ (open # None => sending.stored \in {None, open})
<1>b. Waiting /\ Uploading /\ Past /\ Here /\ Goes
    BY <1>a DEF ThreadInv
<1>c. Waiting' /\ Uploading' /\ Past' /\ Here' /\ Goes' => ThreadInv'
    BY DEF ThreadInv
<1>d. /\ Len(pending) \in Nat /\ Len(written) \in Nat /\ thread \in Nat
      /\ \A i \in 1..Len(pending) : pending[i] \in 1..Len(written)
      /\ attaching \subseteq 1..Len(written) /\ Landed \subseteq 1..Len(written)
      /\ \A m \in 1..Len(written) : written[m].thread \in Nat
    <2>1. thread \in Nat
        BY SizeAssumption DEF Chat!TypeOK
    <2>2. \A m \in 1..Len(written) : written[m].thread \in Nat
        <3> DEFINE Line == [thread : 1..MaxThreads, open : Chat!Conversations \cup {None}]
        <3>1. written \in Seq(Line)
            BY DEF Chat!TypeOK
        <3>2. ASSUME NEW line \in Line
              PROVE  line.thread \in Nat
            BY SizeAssumption
        <3> HIDE DEF Line
        <3>3. \A m \in 1..Len(written) : written[m] \in Line
            BY <3>1
        <3> QED
            BY <3>2, <3>3
    <2> QED
        BY <2>1, <2>2, ChatFacts DEF WrittenInv
<1>e. /\ conversations' = conversations => \A m : Chat!Landed(m)' = Chat!Landed(m)
      /\ \A m : m \notin Landed /\ m \in Chat!Messages => Chat!Landed(m) = {}
    BY NothingLands DEF Landed
<1>f. \A m : (Place(m))' = IF sending' # None /\ m = sending'.message
                           THEN {sending'.stored} ELSE {open'}
    BY DEF Place
<1>0. CASE UNCHANGED chatVars
    <2>1. UNCHANGED <<open, pending, sending, attaching, written, thread, conversations>>
        BY <1>0 DEF chatVars
    <2> QED
        BY <2>1, <1>b, <1>c, <1>e, <1>f DEF Place
<1>1. ASSUME NEW files \in BOOLEAN, Chat!Write(files)
      PROVE  ThreadInv'
    <2>1. PICK m \in Chat!Messages :
              /\ m = Len(written) + 1 /\ Len(written') = m
              /\ \A n \in 1..Len(written) : written'[n] = written[n]
              /\ written'[m] = [thread |-> thread, open |-> open]
              /\ attaching' \in {attaching, attaching \cup {m}}
              /\ pending' \in {Append(pending, m), pending}
              /\ m \notin Landed
        BY <1>1, Writes
    <2>2. UNCHANGED <<open, sending, thread, conversations>>
        BY <1>1 DEF Chat!Write
    <2>3. \A i \in 1..Len(pending') : \/ i \in 1..Len(pending) /\ pending'[i] = pending[i]
                                      \/ i = Len(pending) + 1 /\ pending'[i] = m
        BY <2>1, QueueGrows
    <2>4. written'[m].thread = thread /\ written'[m].open = open
        BY <2>1
    <2>5. Waiting'
        BY <2>1, <2>2, <2>3, <2>4, <1>b, <1>d
    <2>6. Uploading' /\ Past' /\ Goes'
        <3>1. Uploading'
            BY <2>1, <2>2, <2>4, <1>b, <1>d
        <3>2. Past'
            <4> SUFFICES ASSUME NEW n \in 1..Len(written')
                         PROVE  written'[n].thread <= thread'
                OBVIOUS
            <4>1. CASE n = m
                BY <2>2, <2>4, <4>1, <1>d
            <4>2. CASE n # m
                BY <2>1, <2>2, <4>2, <1>b, <1>d
            <4> QED
                BY <4>1, <4>2
        <3>3. Goes'
            BY <2>2, <1>b
        <3> QED
            BY <3>1, <3>2, <3>3
    <2>7. Here'
        <3> SUFFICES ASSUME NEW n \in 1..Len(written'), written'[n].thread = thread'
                     PROVE  written'[n].open \in {None, open'} /\ Chat!Landed(n)' \subseteq (Place(n))'
            OBVIOUS
        <3>1. CASE n = m
            BY <2>1, <2>2, <2>4, <3>1, <1>e
        <3>2. CASE n # m
            <4>1. n \in 1..Len(written) /\ written'[n] = written[n]
                BY <2>1, <3>2, <1>d
            <4>2. written[n].open \in {None, open} /\ Chat!Landed(n) \subseteq Place(n)
                BY <4>1, <2>2, <1>b
            <4> QED
                BY <4>1, <4>2, <2>2, <1>e, <1>f DEF Place
        <3> QED
            BY <3>1, <3>2
    <2> HIDE DEF Waiting, Uploading, Past, Here, Goes
    <2> QED
        BY <1>c, <2>5, <2>6, <2>7
<1>2. ASSUME NEW m \in Chat!Messages, Chat!FilesSent(m)
      PROVE  ThreadInv'
    <2>1. /\ m \in attaching /\ attaching' = attaching \ {m}
          /\ pending' \in {Append(pending, m), pending}
          /\ UNCHANGED <<open, sending, written, thread, conversations>>
        BY <1>2 DEF Chat!FilesSent
    <2>2. \A i \in 1..Len(pending') : \/ i \in 1..Len(pending) /\ pending'[i] = pending[i]
                                      \/ i = Len(pending) + 1 /\ pending'[i] = m
        BY <2>1, QueueGrows
    <2>3. Waiting' /\ Uploading' /\ Past' /\ Goes'
        BY <2>1, <2>2, <1>b
    <2>4. Here'
        BY <2>1, <1>b, <1>e, <1>f DEF Place
    <2> HIDE DEF Waiting, Uploading, Past, Here, Goes
    <2> QED
        BY <1>c, <2>3, <2>4
<1>3. ASSUME NEW to, Chat!Moved(to), UNCHANGED <<conversations, attaching, written, sending>>,
             pending' \in {pending, <<>>}
      PROVE  ThreadInv'
    <2>1. /\ pending' = <<>> /\ attaching' = {} /\ sending' = None /\ thread' = thread + 1
        BY <1>3, PatientMoves
    <2>2. \A m \in 1..Len(written') : written'[m].thread <= thread' /\ written'[m].thread # thread'
        BY <1>3, <2>1, <1>b, <1>d
    <2>3. Waiting' /\ Uploading' /\ Past' /\ Here' /\ Goes'
        BY <2>1, <2>2
    <2> QED
        BY <1>c, <2>3
<1>4. CASE Chat!StartNew \/ Chat!Reset \/ \E c \in Chat!Conversations : Chat!ConversationOpened(c)
    BY <1>3, <1>4 DEF Chat!StartNew, Chat!ConversationOpened, Chat!Reset
<1>5. ASSUME UNCHANGED <<open, pending, sending, attaching, written, thread, conversations>>
      PROVE  ThreadInv'
    BY <1>5, <1>b, <1>c, <1>e, <1>f DEF Place
<1>6. CASE \E c \in Chat!Conversations : Chat!OpenConversation(c) \/ Chat!OpeningFailed(c)
    BY <1>5, <1>6 DEF Chat!OpeningFailed, Chat!OpenConversation
<1>8. CASE Chat!SendNext
    <2>1. /\ UNCHANGED <<open, conversations, pending, attaching, written, thread>>
          /\ sending = None /\ sending'.message = pending[1] /\ 1 \in 1..Len(pending)
          /\ sending'.to = open /\ sending'.stored = None
        BY <1>8, ChatFacts DEF Chat!SendNext
    <2>2. Waiting' /\ Uploading' /\ Past' /\ Goes'
        BY <2>1, <1>b
    <2>3. pending[1] \in Chat!Messages /\ pending[1] \notin Landed
        BY <2>1, ChatFacts DEF UnsentInv
    <2>4. Here'
        <3> SUFFICES ASSUME NEW n \in 1..Len(written'), written'[n].thread = thread'
                     PROVE  written'[n].open \in {None, open'} /\ Chat!Landed(n)' \subseteq (Place(n))'
            OBVIOUS
        <3>1. written[n].open \in {None, open} /\ Chat!Landed(n) \subseteq {open}
            BY <2>1, <1>b DEF Place
        <3>2. CASE n = pending[1]
            BY <2>1, <2>3, <3>1, <3>2, <1>e
        <3>3. CASE n # pending[1]
            BY <2>1, <3>1, <3>3, <1>e, <1>f
        <3> QED
            BY <3>2, <3>3
    <2> HIDE DEF Waiting, Uploading, Past, Here, Goes
    <2> QED
        BY <1>c, <2>2, <2>4
<1>9. CASE Chat!Store
    <2>1. PICK c \in Chat!Conversations :
              /\ c = IF sending.to = None THEN Cardinality(Chat!Begun) + 1 ELSE sending.to
              /\ conversations' = [conversations EXCEPT ![c] = Append(@, sending.message)]
              /\ sending' # None /\ sending'.message = sending.message
              /\ sending'.to = sending.to /\ sending'.stored = c
              /\ sending.message \in Chat!Messages /\ sending.message \notin Landed
        BY <1>9, Stored
    <2>2. PICK m \in Chat!Messages : m = sending.message
        BY <2>1
    <2>3. /\ Chat!Landed(m)' = Chat!Landed(m) \cup {c}
          /\ \A n : n # m => Chat!Landed(n)' = Chat!Landed(n)
        BY <2>1, <2>2, StoreLands
    <2>4. UNCHANGED <<open, pending, attaching, written, thread>> /\ sending # None
        BY <1>9 DEF Chat!Store
    <2>5. Waiting' /\ Uploading' /\ Past' /\ Goes'
        BY <2>1, <2>4, <1>b
    <2>6. Here'
        <3> SUFFICES ASSUME NEW n \in 1..Len(written'), written'[n].thread = thread'
                     PROVE  written'[n].open \in {None, open'} /\ Chat!Landed(n)' \subseteq (Place(n))'
            OBVIOUS
        <3>1. written[n].open \in {None, open} /\ Chat!Landed(n) \subseteq Place(n)
            BY <2>4, <1>b
        <3>2. CASE n = m
            <4>1. Chat!Landed(m)' = {c}
                BY <2>1, <2>2, <2>3, <1>e
            <4> QED
                BY <2>1, <2>2, <2>4, <3>1, <3>2, <4>1, <1>f
        <3>3. CASE n # m
            BY <2>1, <2>2, <2>3, <2>4, <3>1, <3>3, <1>f DEF Place
        <3> QED
            BY <3>2, <3>3
    <2> HIDE DEF Waiting, Uploading, Past, Here, Goes
    <2> QED
        BY <1>c, <2>5, <2>6
<1>10. CASE Chat!SendAnswered
    <2>1. /\ Len(pending') \in Nat
          /\ \A i \in 1..Len(pending') : i + 1 \in 1..Len(pending) /\ pending'[i] = pending[i + 1]
        BY <1>10, QueueShrinks DEF Chat!SendAnswered
    <2>2. /\ UNCHANGED <<conversations, attaching, written, thread>> /\ sending' = None
          /\ sending # None /\ sending.stored # None /\ open' = sending.stored
        BY <1>10 DEF Chat!SendAnswered
    <2>3. Waiting' /\ Uploading' /\ Past' /\ Goes'
        BY <2>1, <2>2, <1>b
    <2>4. Here'
        <3> SUFFICES ASSUME NEW n \in 1..Len(written'), written'[n].thread = thread'
                     PROVE  written'[n].open \in {None, open'} /\ Chat!Landed(n)' \subseteq (Place(n))'
            OBVIOUS
        <3>1. written[n].open \in {None, open} /\ Chat!Landed(n) \subseteq Place(n)
            BY <2>2, <1>b
        <3>2. open # None => open' = open
            BY <2>2, <1>b
        <3>3. None \notin Chat!Landed(n)
            BY NothingAssumption DEF Chat!Landed, Chat!Conversations
        <3>4. Chat!Landed(n) \subseteq {open'}
            BY <2>2, <3>1, <3>2, <3>3 DEF Place
        <3> QED
            BY <2>2, <3>1, <3>2, <3>4, <1>e, <1>f
    <2> HIDE DEF Waiting, Uploading, Past, Here, Goes
    <2> QED
        BY <1>c, <2>3, <2>4
<1>11. CASE Chat!SendFailed
    <2>1. /\ pending' = <<>> /\ sending' = None /\ sending # None /\ sending.stored = None
          /\ UNCHANGED <<conversations, open, attaching, written, thread>>
        BY <1>11 DEF Chat!SendFailed
    <2>2. Waiting' /\ Uploading' /\ Past' /\ Goes'
        BY <2>1, <1>b
    <2>3. sending.message \in Chat!Messages /\ sending.message \notin Landed
        BY <2>1, ChatFacts DEF UnsentInv
    <2>4. Here'
        BY <2>1, <2>3, <1>b, <1>e, <1>f DEF Place
    <2> HIDE DEF Waiting, Uploading, Past, Here, Goes
    <2> QED
        BY <1>c, <2>2, <2>4
<1> HIDE DEF Waiting, Uploading, Past, Here, Goes
<1> QED
    BY <1>0, <1>1, <1>2, <1>4, <1>6, <1>8, <1>9, <1>10, <1>11 DEF Chat!Next

(* The inductive invariant holds of the conversation within the client.     *)
THEOREM ChatInvariant == ClientSpec => []ChatIInv
<1>1. ClientInit => ChatIInv
    <2> SUFFICES ASSUME Chat!Init
                 PROVE  ChatIInv
        BY ChatBegins
    <2>1. /\ conversations = [c \in Chat!Conversations |-> <<>>]
          /\ open = None /\ pending = <<>> /\ sending = None /\ opening = {}
          /\ attaching = {} /\ written = <<>> /\ thread = 1 /\ chatCrossed = {}
        BY DEF Chat!Init
    <2>2. Chat!TypeOK
        BY <2>1, SizeAssumption DEF Chat!TypeOK
    <2>3. \A m : Chat!Landed(m) = {}
        BY <2>1 DEF Chat!Landed, Chat!ToSet
    <2>4. Landed = {} /\ Chat!Begun = {}
        BY <2>1, <2>3 DEF Landed, Chat!Begun
    <2>5. WrittenInv /\ QueueInv /\ UnsentInv /\ OnceInv
        BY <2>1, <2>3, <2>4, SizeAssumption DEF WrittenInv, QueueInv, UnsentInv, OnceInv
    <2>6. BegunInv
        BY <2>1, <2>4, FS_EmptySet DEF BegunInv
    <2>7. OrderInv
        BY <2>1, <2>4 DEF OrderInv, Chat!IsSorted
    <2>8. ThreadInv
        BY <2>1 DEF ThreadInv
    <2> QED
        BY <2>2, <2>5, <2>6, <2>7, <2>8 DEF ChatIInv
<1>2. ChatIInv /\ [ClientNext]_clientVars => ChatIInv'
    <2> SUFFICES ASSUME ChatIInv, [Chat!Next]_chatVars
                 PROVE  ChatIInv'
        BY ChatMoves
    <2>1. /\ Chat!TypeOK /\ WrittenInv /\ QueueInv /\ UnsentInv /\ BegunInv /\ OnceInv
          /\ OrderInv /\ ThreadInv
        BY DEF ChatIInv
    <2>2. chatCrossed' # {} => OrderInv' /\ ThreadInv'
        BY DEF OrderInv, ThreadInv
    <2>3. Chat!TypeOK' /\ WrittenInv' /\ QueueInv' /\ UnsentInv' /\ BegunInv' /\ OnceInv'
        BY <2>1, ChatTyped, WrittenKept, QueueKept, UnsentKept, BegunKept, OnceKept
    <2>4. chatCrossed' = {} => OrderInv' /\ ThreadInv'
        BY <2>1, OrderKept, ThreadKept
    <2> QED
        BY <2>2, <2>3, <2>4 DEF ChatIInv
<1> QED
    BY <1>1, <1>2, PTL DEF ClientSpec

(* Two messages of a thread land in one conversation, the one that was open *)
(* when the first of them was written, if there was one.                    *)
Together(m, n) ==
    /\ written[m].open # None => Chat!Landed(m) \subseteq {written[m].open}
    /\ written[m].thread = written[n].thread /\ Chat!Landed(m) # {} /\ Chat!Landed(n) # {} =>
           Chat!Landed(m) = Chat!Landed(n)

PresentInv ==
    chatCrossed = {} =>
        \A m, n \in 1..Len(written) : written[m].thread = thread => Together(m, n)

TogetherInv == chatCrossed = {} => \A m, n \in 1..Len(written) : Together(m, n)

(* While a thread lasts its messages land together.                         *)
LEMMA PresentTogether == ChatIInv => PresentInv
<1> SUFFICES ASSUME ChatIInv, chatCrossed = {},
                    NEW m \in 1..Len(written), NEW n \in 1..Len(written),
                    written[m].thread = thread
             PROVE  Together(m, n)
    BY DEF PresentInv
<1>1. None \notin Chat!Landed(m) /\ None \notin Chat!Landed(n)
    BY NothingAssumption DEF Chat!Landed, Chat!Conversations
<1>2. /\ written[m].open \in {None, open} /\ Chat!Landed(m) \subseteq Place(m)
      /\ written[n].thread = thread => Chat!Landed(n) \subseteq Place(n)
      /\ sending # None /\ open # None => sending.stored \in {None, open}
    BY DEF ChatIInv, ThreadInv
<1>3. written[m].open # None => Chat!Landed(m) \subseteq {written[m].open}
    BY <1>1, <1>2 DEF Place
<1>4. ASSUME written[n].thread = thread, Chat!Landed(m) # {}, Chat!Landed(n) # {}
      PROVE  Chat!Landed(m) = Chat!Landed(n)
    <2>1. /\ Chat!Landed(m) \subseteq Place(m) /\ Chat!Landed(n) \subseteq Place(n)
          /\ None \notin Chat!Landed(m) /\ None \notin Chat!Landed(n)
        BY <1>1, <1>2, <1>4
    <2>2. CASE open = None
        <3>1. m = sending.message /\ n = sending.message
            BY <1>4, <2>1, <2>2 DEF Place
        <3> QED
            BY <3>1
    <2>3. CASE open # None
        <3>1. Place(m) \subseteq {open, None} /\ Place(n) \subseteq {open, None}
            BY <1>2, <2>3 DEF Place
        <3>2. Chat!Landed(m) \subseteq {open} /\ Chat!Landed(n) \subseteq {open}
            BY <2>1, <3>1
        <3>3. Chat!Landed(m) = {open} /\ Chat!Landed(n) = {open}
            BY <1>4, <3>2
        <3> QED
            BY <3>3
    <2> QED
        BY <2>2, <2>3
<1> QED
    BY <1>3, <1>4 DEF Together

(* What an earlier thread wrote lands nowhere any more.                     *)
LEMMA PastStays ==
    ASSUME ChatIInv, [Chat!Next]_chatVars, chatCrossed' = {},
           NEW m \in 1..Len(written'), written'[m].thread # thread'
    PROVE  m \in 1..Len(written) /\ written'[m] = written[m] /\ Chat!Landed(m)' = Chat!Landed(m)
<1>a. /\ chatCrossed = {} /\ Chat!TypeOK /\ WrittenInv /\ UnsentInv /\ BegunInv
      /\ OrderInv /\ ThreadInv
    BY StillCrossed DEF ChatIInv
<1>1. CASE written' = written /\ conversations' = conversations
    BY <1>1, NothingLands
<1>2. ASSUME NEW files \in BOOLEAN, Chat!Write(files)
      PROVE  m \in 1..Len(written) /\ written'[m] = written[m] /\ Chat!Landed(m)' = Chat!Landed(m)
    <2>1. PICK n \in Chat!Messages :
              /\ n = Len(written) + 1 /\ Len(written') = n
              /\ \A i \in 1..Len(written) : written'[i] = written[i]
              /\ written'[n] = [thread |-> thread, open |-> open]
        BY <1>a, <1>2, Writes
    <2>2. conversations' = conversations /\ thread' = thread
        BY <1>2 DEF Chat!Write
    <2>3. m # n
        BY <2>1, <2>2
    <2> QED
        BY <1>a, <2>1, <2>2, <2>3, ChatFacts, NothingLands
<1>3. CASE Chat!Store
    <2>1. PICK c \in Chat!Conversations :
              /\ conversations' = [conversations EXCEPT ![c] = Append(@, sending.message)]
              /\ sending.message \in Chat!Messages
        BY <1>a, <1>3, Stored
    <2>2. PICK n \in Chat!Messages : n = sending.message
        BY <2>1
    <2>3. \A i : i # n => Chat!Landed(i)' = Chat!Landed(i)
        <3>1. Chat!TypeOK
            BY <1>a
        <3>2. conversations' = [conversations EXCEPT ![c] = Append(@, n)]
            BY <2>1, <2>2
        <3> QED
            BY <3>1, <3>2, StoreLands
    <2>4. written' = written /\ thread' = thread /\ sending # None
        BY <1>3 DEF Chat!Store
    <2>5. n = pending[1] /\ 1 \in 1..Len(pending)
        <3>1. pending # <<>> /\ pending[1] = sending.message
            BY <1>a, <2>4, Zenon DEF OrderInv
        <3>2. pending \in Seq(Chat!Messages)
            BY <1>a, ChatFacts
        <3> QED
            BY <2>2, <3>1, <3>2
    <2>6. written[n].thread = thread
        BY <1>a, <2>5 DEF ThreadInv
    <2> QED
        BY <2>3, <2>4, <2>6
<1> QED
    BY <1>1, <1>2, <1>3 DEF Chat!Next, chatVars, Chat!FilesSent, Chat!StartNew,
       Chat!ConversationOpened, Chat!OpeningFailed, Chat!Reset, Chat!OpenConversation,
       Chat!SendNext, Chat!SendAnswered, Chat!SendFailed

(* For any number of messages and changes of conversation: each message     *)
(* lands once, those of a thread in one conversation and in the order they  *)
(* were written, unless the user moved on or attached files before all was  *)
(* answered, or an answer was lost.                                         *)
THEOREM MessagesLandTogether == ClientSpec => []LandsTogether
<1>1. ClientInit => TogetherInv
    BY DEF ClientInit, Chat!Init, TogetherInv
<1>2. ChatIInv /\ TogetherInv /\ PresentInv' /\ [ClientNext]_clientVars => TogetherInv'
    <2> SUFFICES ASSUME ChatIInv, TogetherInv, PresentInv', [Chat!Next]_chatVars,
                        chatCrossed' = {},
                        NEW m \in 1..Len(written'), NEW n \in 1..Len(written')
                 PROVE  Together(m, n)'
        BY ChatMoves DEF TogetherInv
    <2>1. CASE written'[m].thread = thread'
        BY <2>1 DEF PresentInv
    <2>2. CASE written'[m].thread # thread'
        <3>1. /\ m \in 1..Len(written) /\ written'[m] = written[m]
              /\ Chat!Landed(m)' = Chat!Landed(m)
            BY <2>2, PastStays
        <3>2. CASE written'[n].thread = written'[m].thread
            <4>1. /\ n \in 1..Len(written) /\ written'[n] = written[n]
                  /\ Chat!Landed(n)' = Chat!Landed(n)
                BY <2>2, <3>2, PastStays
            <4>2. Together(m, n)
                BY <3>1, <4>1, StillCrossed DEF TogetherInv
            <4> QED
                BY <3>1, <4>1, <4>2 DEF Together
        <3>3. CASE written'[n].thread # written'[m].thread
            <4>1. Together(m, m)
                BY <3>1, StillCrossed DEF TogetherInv
            <4> QED
                BY <3>1, <3>3, <4>1 DEF Together
        <3> QED
            BY <3>2, <3>3
    <2> QED
        BY <2>1, <2>2
<1>3. ChatIInv /\ TogetherInv => LandsTogether
    <2> SUFFICES ASSUME ChatIInv, TogetherInv, chatCrossed = {},
                        NEW m \in 1..Len(written), NEW n \in 1..Len(written)
                 PROVE  /\ Chat!Cardinality(Chat!Landed(m)) <= 1
                        /\ Together(m, n)
                        /\ \A c \in Chat!Conversations : Chat!IsSorted(conversations[c], <)
        BY DEF LandsTogether, Chat!LandsTogether, Together
    <2>1. Cardinality(Chat!Landed(m)) <= 1
        <3>1. m \in Chat!Messages
            BY SizeAssumption DEF ChatIInv, WrittenInv, Chat!TypeOK, Chat!Messages
        <3>2. CASE Chat!Landed(m) = {}
            BY <3>2, FS_EmptySet
        <3>3. ASSUME NEW c \in Chat!Landed(m)
              PROVE  Cardinality(Chat!Landed(m)) <= 1
            <4>1. Chat!Landed(m) = {c}
                BY <3>1, <3>3 DEF ChatIInv, OnceInv
            <4>2. Cardinality({c}) = 1
                BY FS_Singleton
            <4> QED
                BY <4>1, <4>2
        <3> QED
            BY <3>2, <3>3
    <2> QED
        BY <2>1, SameCount DEF ChatIInv, OrderInv, TogetherInv
<1> QED
    BY <1>1, <1>2, <1>3, ChatInvariant, PresentTogether, PTL DEF ClientSpec

(* Every store of the client keeps its type, for every value of the         *)
(* constants and in every order of what users and answers do.               *)
THEOREM ClientTypeCorrect == ClientSpec => []ClientTypeOK
<1>1. ClientInit => Init
    BY DEF ClientInit
<1>2. [ClientNext]_clientVars => [Next]_vars
    BY DEF ClientNext, clientVars, vars
<1>3. ClientSpec => Spec
    BY <1>1, <1>2, PTL DEF ClientSpec, Spec
<1>4. ClientInit => AccountInit
    BY DEF ClientInit
<1>5. [ClientNext]_clientVars => [AccountNext]_accountVars
    BY DEF ClientNext, clientVars
<1>6. ClientSpec => AccountSpec
    BY <1>4, <1>5, PTL DEF ClientSpec, AccountSpec
<1>7. DialogIInv /\ ListIInv /\ SessionIInv /\ ChatIInv /\ TypeOK /\ AccountTypeOK => ClientTypeOK
    BY DEF DialogIInv, ListIInv, SessionIInv, ChatIInv, ClientTypeOK
<1> QED
    BY <1>3, <1>6, <1>7,TripTypeCorrect, TypeCorrect, DialogInvariant, ListInvariant,
       SessionInvariant, ChatInvariant, PTL

=============================================================================
