------------------------------- MODULE Sessions -------------------------------
(***************************************************************************)
(* Staying signed in (stores/AuthStore.ts against services/auth.py): a     *)
(* sign-in begins a family of refresh tokens, each spent by the refresh    *)
(* that replaces it.  The tabs of a browser keep a token in memory each,   *)
(* and share the one in localStorage.  A spent token is refused; the       *)
(* family is then marked revoked in a transaction that the refusal itself  *)
(* rolls back (db/session.py).                                             *)
(***************************************************************************)
EXTENDS Integers, FiniteSets

CONSTANTS
    Tabs,
    Families,   \* the sign-ins
    Calls,      \* requests for a new token that may be open at once
    MaxTokens,  \* bound: the tokens of one family
    None        \* signed out, nothing on its way

VARIABLES
    token,      \* the server: what became of each token of each family
    storage,    \* localStorage: the last token written, or None
    memory,     \* refreshToken of each tab
    refreshes,  \* POST /auth/refresh that have not been answered
    leaving,    \* POST /auth/logout of each tab, as it stands
    left,       \* the families each tab has signed out of
    crossed     \* what a single tab with a good connection does not do

vars == <<token, storage, memory, refreshes, leaving, left, crossed>>

Numbers == 1..MaxTokens
Session == [family : Families, number : Numbers]
Request == [tab : Tabs, sent : Session, step : {"sent", "read", "renewed", "refused"},
            got : Session \cup {None}]
Leaving == [sent : Session, served : BOOLEAN]

TypeOK ==
    /\ token \in [Families -> [Numbers -> {"none", "live", "spent"}]]
    /\ storage \in Session \cup {None}
    /\ memory \in [Tabs -> Session \cup {None}]
    /\ refreshes \in [Calls -> Request \cup {None}]
    /\ leaving \in [Tabs -> Leaving \cup {None}]
    /\ left \in [Tabs -> SUBSET Families]
    /\ crossed \subseteq {"tabs", "lost", "late"}

Init ==
    /\ token = [f \in Families |-> [n \in Numbers |-> "none"]]
    /\ storage = None
    /\ memory = [t \in Tabs |-> None]
    /\ refreshes = [c \in Calls |-> None]
    /\ leaving = [t \in Tabs |-> None]
    /\ left = [t \in Tabs |-> {}]
    /\ crossed = {}

Status(session) == token[session.family][session.number]
Refreshing(t) == \E c \in Calls : refreshes[c] # None /\ refreshes[c].tab = t
Note(mark, when) == crossed' = IF when THEN crossed \cup {mark} ELSE crossed

persistSession(t, session) ==
    /\ memory' = [memory EXCEPT ![t] = session]
    /\ storage' = session

(* Mutated logoutLocally: what is stored stays.                             *)
logoutInMemory(t) ==
    /\ memory' = [memory EXCEPT ![t] = None]
    /\ UNCHANGED storage

logoutLocally(t) ==
    /\ memory' = [memory EXCEPT ![t] = None]
    /\ storage' = None

(***************************************************************************)
(* Tabs                                                                    *)
(***************************************************************************)

(* login, register, completeSecondFactor, a provider's sign-in, and         *)
(* adoptSession, which replaces the session the tab has.                    *)
SignIn(t, f) ==
    /\ token[f][1] = "none"
    /\ token' = [token EXCEPT ![f][1] = "live"]
    /\ persistSession(t, [family |-> f, number |-> 1])
    /\ Note("tabs", storage # memory[t])
    /\ UNCHANGED <<refreshes, leaving, left>>

(* A tab is opened or reloaded: what it was waiting for is gone.            *)
OpenTab(t) ==
    /\ memory' = [memory EXCEPT ![t] = storage]
    /\ refreshes' = [c \in Calls |->
           IF refreshes[c] # None /\ refreshes[c].tab = t THEN None ELSE refreshes[c]]
    /\ leaving' = [leaving EXCEPT ![t] = None]
    /\ crossed' = crossed
           \cup (IF Refreshing(t) \/ leaving[t] # None THEN {"lost"} ELSE {})
           \cup (IF storage # None /\ (\E u \in Tabs \ {t} : memory[u] # None)
                 THEN {"tabs"} ELSE {})
    /\ UNCHANGED <<token, storage, left>>

(* Mutated Refresh: every refused request asks for a token of its own.      *)
RefreshEach(c, t) ==
    /\ memory[t] # None
    /\ refreshes[c] = None
    /\ refreshes' = [refreshes EXCEPT ![c] =
           [tab |-> t, sent |-> memory[t], step |-> "sent", got |-> None]]
    /\ Note("late", leaving[t] # None)
    /\ UNCHANGED <<token, storage, memory, leaving, left>>

(* Requests were refused with 401: the first asks for a new token, and the  *)
(* others wait for it (refreshPromise).                                     *)
Refresh(c, t) ==
    /\ memory[t] # None /\ ~Refreshing(t)
    /\ refreshes[c] = None
    /\ refreshes' = [refreshes EXCEPT ![c] =
           [tab |-> t, sent |-> memory[t], step |-> "sent", got |-> None]]
    /\ Note("late", leaving[t] # None)
    /\ UNCHANGED <<token, storage, memory, leaving, left>>

Renewed(c) ==
    /\ refreshes[c] # None /\ refreshes[c].step = "renewed"
    /\ persistSession(refreshes[c].tab, refreshes[c].got)
    /\ refreshes' = [refreshes EXCEPT ![c] = None]
    /\ UNCHANGED <<token, leaving, left, crossed>>

(* Refused or failed: signed out here, and sent to /login.                  *)
Refused(c) ==
    /\ refreshes[c] # None /\ refreshes[c].step = "refused"
    /\ logoutLocally(refreshes[c].tab)
    /\ refreshes' = [refreshes EXCEPT ![c] = None]
    /\ UNCHANGED <<token, leaving, left, crossed>>

RefreshLost(c) ==
    /\ refreshes[c] # None
    /\ logoutLocally(refreshes[c].tab)
    /\ refreshes' = [refreshes EXCEPT ![c] = None]
    /\ crossed' = crossed \cup {"lost"}
    /\ UNCHANGED <<token, leaving, left>>

LogOut(t) ==
    /\ memory[t] # None /\ leaving[t] = None
    /\ leaving' = [leaving EXCEPT ![t] = [sent |-> memory[t], served |-> FALSE]]
    /\ Note("late", Refreshing(t))
    /\ UNCHANGED <<token, storage, memory, refreshes, left>>

(* Signed out here, whether or not the server has heard of it.              *)
LoggedOut(t) ==
    /\ leaving[t] # None
    /\ logoutLocally(t)
    /\ leaving' = [leaving EXCEPT ![t] = None]
    /\ left' = [left EXCEPT ![t] = @ \cup {leaving[t].sent.family}]
    /\ Note("lost", ~leaving[t].served)
    /\ UNCHANGED <<token, refreshes>>

(***************************************************************************)
(* The server                                                              *)
(***************************************************************************)

(* What refresh means to do with a token that is not live, and what is left *)
(* of it when the refusal has rolled the transaction back.                  *)
Revoked(f) == [token EXCEPT ![f] = [n \in Numbers |-> IF @[n] = "live" THEN "spent" ELSE @[n]]]
RolledBack(changes) == token

ServeRead(c) ==
    /\ refreshes[c] # None /\ refreshes[c].step = "sent"
    /\ LET live == Status(refreshes[c].sent) = "live"
       IN  /\ refreshes' = [refreshes EXCEPT ![c].step = IF live THEN "read" ELSE "refused"]
           /\ token' = IF live THEN token ELSE RolledBack(Revoked(refreshes[c].sent.family))
    /\ UNCHANGED <<storage, memory, leaving, left, crossed>>

(* The row is written in the same transaction, but not locked: two requests *)
(* that have read the token both renew it.                                  *)
ServeRenewed(c) ==
    LET call == refreshes[c]
        f == call.sent.family
    IN  /\ call # None /\ call.step = "read"
        /\ \E n \in Numbers :
            /\ token[f][n] = "none" /\ \A m \in 1..(n - 1) : token[f][m] # "none"
            /\ token' = [token EXCEPT ![f][call.sent.number] = "spent", ![f][n] = "live"]
            /\ refreshes' = [refreshes EXCEPT ![c].step = "renewed",
                                              ![c].got = [family |-> f, number |-> n]]
        /\ UNCHANGED <<storage, memory, leaving, left, crossed>>

(* The whole family, whichever of its tokens was presented.                 *)
ServeLogout(t) ==
    /\ leaving[t] # None /\ ~leaving[t].served
    /\ token' = Revoked(leaving[t].sent.family)
    /\ leaving' = [leaving EXCEPT ![t].served = TRUE]
    /\ UNCHANGED <<storage, memory, refreshes, left, crossed>>

Next ==
    \/ \E t \in Tabs :
        \/ \E f \in Families : SignIn(t, f)
        \/ OpenTab(t) \/ LogOut(t) \/ LoggedOut(t) \/ ServeLogout(t)
        \/ \E c \in Calls : Refresh(c, t)
    \/ \E c \in Calls :
        Renewed(c) \/ Refused(c) \/ RefreshLost(c) \/ ServeRead(c) \/ ServeRenewed(c)

Spec == Init /\ [][Next]_vars

(***************************************************************************)
(* Properties                                                              *)
(***************************************************************************)

(* One refresh serves every request refused at once: a refresh is refused,  *)
(* and the user sent to sign in again, only when two tabs hold the same     *)
(* session, an answer was lost, or the user was signing out.                *)
StaysSignedIn ==
    \A c \in Calls : refreshes[c] # None /\ refreshes[c].step = "refused" => crossed # {}

(* Who signed out of a session in a tab does not find it there again, nor   *)
(* by reloading, unless a refresh of it was under way or another tab had it.*)
OutStaysOut ==
    crossed \cap {"late", "tabs"} = {} =>
        \A t \in Tabs : memory[t] # None => memory[t].family \notin left[t]

(* A token presented a second time ends its session: none of the session's  *)
(* tokens is of use after it ("revoke every token issued from that          *)
(* session").                                                               *)
ReuseEndsTheSession ==
    [][\A c \in Calls :
           refreshes[c] # None /\ refreshes[c].step = "sent" /\ refreshes'[c] # None
               /\ refreshes'[c].step = "refused" =>
           \A n \in Numbers : token'[refreshes[c].sent.family][n] # "live"]_vars

=============================================================================
