------------------------------ MODULE Receipts ------------------------------
(***************************************************************************)
(* What one user's intake channels share: the receipts table, the photos   *)
(* in object storage, and the lookups the channels make before they store  *)
(* (repository/receipt.py).  No column of the table is unique, so nothing  *)
(* but those lookups keeps one purchase from being stored twice.           *)
(***************************************************************************)
EXTENDS Integers, FiniteSets

CONSTANTS
    Jobs,          \* uploads the user takes through the wizard
    Size,          \* how many receipts each upload is read into
    Deliveries,    \* deliveries of messages by the mail relay
    Messages,      \* forwarded messages, named by their Message-ID
    Identity(_),   \* the fiscal identity printed on what a source shows
    Unidentified,  \* none printed, or none read
    NoPhoto

ASSUME SizeAssumption == Size \in Nat \ {0}

Indices == 1..Size
Extractions == Jobs \X Indices
Sources == Extractions \cup Messages
ASSUME SourcesAssumption == Extractions \cap Messages = {}
Identities == {Identity(s) : s \in Sources} \cup {Unidentified}

(* A photo is named by a fresh id when it is uploaded: an extraction has    *)
(* its own, and so has each delivery of a message.                          *)
Photos == Extractions \cup Deliveries
ASSUME PhotosAssumption == NoPhoto \notin Photos /\ Deliveries \cap Sources = {}

VARIABLES
    receipts,  \* the rows of the receipts table
    photos,    \* the photos in object storage
    commits,   \* how many commits have stored receipts
    carried    \* history: the photos a stored receipt has carried

sharedVars == <<receipts, photos, commits, carried>>

(* commit is the commit that stored the receipt, and began how many had     *)
(* been made when its transaction began: what it could not fail to see.     *)
Receipt == [source : Sources, identity : Identities, photo : Photos \cup {NoPhoto},
            commit : Nat, began : Nat]

SharedTypeOK ==
    /\ receipts \subseteq Receipt
    /\ photos \subseteq Photos
    /\ commits \in Nat
    /\ carried \subseteq Photos \cup {NoPhoto}

SharedInit == receipts = {} /\ photos = {} /\ commits = 0 /\ carried = {}

(* find_by_fiscal_identity: it is asked only for an identity.               *)
Stored(identity) == \E r \in receipts : r.identity = identity

(* has_source_reference: message m has left a receipt.                      *)
Referenced(m) == \E r \in receipts : r.source = m

(* create_from_extraction for each of the rows, in one commit.              *)
Store(rows) ==
    /\ receipts' = receipts \cup rows
    /\ carried' = carried \cup {r.photo : r \in rows}
    /\ commits' = commits + 1

Twins == {pair \in receipts \X receipts :
              /\ pair[1] # pair[2]
              /\ pair[1].identity = pair[2].identity
              /\ pair[1].identity # Unidentified}

(* A receipt whose fiscal identity the user already has is never stored     *)
(* again, whichever channel brought it (docs/architecture/domain-model.md,  *)
(* invariant 11a).                                                          *)
NoTwins == Twins = {}

(* What the lookups of receipts.py:937-941 and services/receipt.py:350 do   *)
(* give: one receipt is stored twice only by two intakes that overlapped,   *)
(* neither stored when the other began, and never within one commit.        *)
TwinsOnlyFromOverlap ==
    \A pair \in Twins :
        /\ pair[1].commit # pair[2].commit
        /\ pair[1].commit > pair[2].began

=============================================================================
