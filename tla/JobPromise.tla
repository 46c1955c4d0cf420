----------------------------- MODULE JobPromise -----------------------------
(***************************************************************************)
(* What reading an upload promises the client that sent it, whatever tasks, *)
(* cancellations and restarts there are behind it: an accepted job is open  *)
(* until it ends, once, as read or as failed, and the client is told the    *)
(* end the job came to.                                                     *)
(***************************************************************************)
CONSTANT Jobs

VARIABLES
    outcome,  \* "none" before the upload, "open", then "completed" or "failed"
    told      \* "nothing", or the outcome the client was told

pvars == <<outcome, told>>

PInit ==
    /\ outcome = [j \in Jobs |-> "none"]
    /\ told = [j \in Jobs |-> "nothing"]

Open(j) ==
    /\ outcome[j] = "none"
    /\ outcome' = [outcome EXCEPT ![j] = "open"]
    /\ UNCHANGED told

(* One instance ends one job, or, starting, every job left open.            *)
End(ended) ==
    /\ ended # {}
    /\ \A j \in ended : outcome[j] = "open"
    /\ \E end \in {"completed", "failed"} :
           outcome' = [j \in Jobs |-> IF j \in ended THEN end ELSE outcome[j]]
    /\ UNCHANGED told

Tell(j) ==
    /\ told[j] = "nothing"
    /\ outcome[j] \in {"completed", "failed"}
    /\ told' = [told EXCEPT ![j] = outcome[j]]
    /\ UNCHANGED outcome

PNext ==
    \/ \E j \in Jobs : Open(j) \/ Tell(j)
    \/ \E ended \in SUBSET Jobs : End(ended)

PSpec ==
    /\ PInit
    /\ [][PNext]_pvars
    /\ \A j \in Jobs : WF_pvars(Tell(j)) /\ WF_pvars(\E ended \in SUBSET Jobs : j \in ended /\ End(ended))

=============================================================================
