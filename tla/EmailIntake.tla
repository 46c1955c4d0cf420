---------------------------- MODULE EmailIntake ----------------------------
(***************************************************************************)
(* Receipts forwarded by email (services/email_receipt.py screen, and      *)
(* services/receipt.py store_from_channel): a background task per delivery *)
(* checks that the message left no receipt, reads it for as long as the    *)
(* model takes, looks its fiscal identity up and stores it.  The relay     *)
(* delivers a message again when the webhook did not answer in time.       *)
(***************************************************************************)
EXTENDS Receipts

CONSTANT DailyLimit  \* inbound_email_daily_limit; one UTC day is modelled

ASSUME DailyLimitAssumption == DailyLimit \in Nat

VARIABLES
    mail,      \* how far the task of each delivery has come
    message,   \* the message it delivers
    seen,      \* how many commits had stored receipts when it began
    identity,  \* the fiscal identity it read
    letters    \* pending incomes kept from each message

mailVars == <<mail, message, seen, identity, letters>>

Mail == {"none", "accepted", "uploaded", "read", "looked", "income", "over", "lost", "dropped"}
Unread == "unread"

MailTypeOK ==
    /\ mail \in [Deliveries -> Mail]
    /\ message \in [Deliveries -> Messages \cup {Unread}]
    /\ seen \in [Deliveries -> Nat]
    /\ identity \in [Deliveries -> Identities]
    /\ letters \in [Messages -> Nat]

MailInit ==
    /\ mail = [d \in Deliveries |-> "none"]
    /\ message = [d \in Deliveries |-> Unread]
    /\ seen = [d \in Deliveries |-> 0]
    /\ identity = [d \in Deliveries |-> Unidentified]
    /\ letters = [m \in Messages |-> 0]

Emailed == {r \in receipts : r.source \in Messages}

Move(d, from, to) == mail[d] = from /\ mail' = [mail EXCEPT ![d] = to]

(* screen: a message over the day's limit is dropped, which changes nothing *)
(* and which the relay does not repeat.                                     *)
Deliver(d, m) ==
    /\ Cardinality(Emailed) < DailyLimit
    /\ Move(d, "none", "accepted")
    /\ message' = [message EXCEPT ![d] = m]
    /\ UNCHANGED <<sharedVars, seen, identity, letters>>

(* Mutated CheckReference: every delivery is read.                          *)
CheckNothing(d) ==
    /\ Move(d, "accepted", "uploaded")
    /\ photos' = photos \cup {d}
    /\ seen' = [seen EXCEPT ![d] = commits]
    /\ UNCHANGED <<receipts, commits, carried, message, identity, letters>>

(* The task begins: a message that left a receipt is not read again;        *)
(* another's attachments are stored and handed to the model.                *)
CheckReference(d) ==
    /\ \/ /\ Referenced(message[d])
          /\ Move(d, "accepted", "over")
          /\ UNCHANGED <<photos, seen>>
       \/ /\ ~Referenced(message[d])
          /\ Move(d, "accepted", "uploaded")
          /\ photos' = photos \cup {d}
          /\ seen' = [seen EXCEPT ![d] = commits]
    /\ UNCHANGED <<receipts, commits, carried, message, identity, letters>>

(* The model reads a receipt, its identity or not; the reading that failed  *)
(* is kept as one without.                                                  *)
ReadReceipt(d) ==
    /\ Move(d, "uploaded", "read")
    /\ \E i \in {Identity(message[d]), Unidentified} : identity' = [identity EXCEPT ![d] = i]
    /\ UNCHANGED <<sharedVars, message, seen, letters>>

(* Mutated ReadIncome: the files of a letter are kept.                      *)
ReadIncomeKeepingFiles(d) ==
    /\ Move(d, "uploaded", IF letters[message[d]] = 0 THEN "income" ELSE "over")
    /\ UNCHANGED <<sharedVars, message, seen, identity, letters>>

(* It was money received instead: its files go, and it waits for the user   *)
(* to confirm unless the message left one already.                          *)
ReadIncome(d) ==
    /\ photos' = photos \ {d}
    /\ Move(d, "uploaded", IF letters[message[d]] = 0 THEN "income" ELSE "over")
    /\ UNCHANGED <<receipts, commits, carried, message, seen, identity, letters>>

KeepIncome(d) ==
    /\ Move(d, "income", "over")
    /\ letters' = [letters EXCEPT ![message[d]] = @ + 1]
    /\ UNCHANGED <<sharedVars, message, seen, identity>>

(* A fiscal identity the user already has drops the message; the            *)
(* attachments it uploaded stay.                                            *)
LookUpMail(d) ==
    /\ LET known == identity[d] # Unidentified /\ Stored(identity[d])
       IN  Move(d, "read", IF known THEN "dropped" ELSE "looked")
    /\ UNCHANGED <<sharedVars, message, seen, identity, letters>>

StoreMail(d) ==
    /\ Move(d, "looked", "over")
    /\ Store({[source |-> message[d], identity |-> identity[d], photo |-> d,
               commit |-> commits + 1, began |-> seen[d]]})
    /\ UNCHANGED <<photos, message, seen, identity, letters>>

(* The task ends with an exception, or with its process.                    *)
Lose(d) ==
    /\ mail[d] \notin {"none", "over", "lost", "dropped"}
    /\ mail' = [mail EXCEPT ![d] = "lost"]
    /\ UNCHANGED <<sharedVars, message, seen, identity, letters>>

MailNext ==
    \E d \in Deliveries :
        \/ \E m \in Messages : Deliver(d, m)
        \/ CheckReference(d)
        \/ ReadReceipt(d)
        \/ ReadIncome(d)
        \/ KeepIncome(d)
        \/ LookUpMail(d)
        \/ StoreMail(d)
        \/ Lose(d)

(***************************************************************************)
(* Properties                                                              *)
(***************************************************************************)

(* What the check of the reference gives of "the same Message-ID is one     *)
(* receipt however often it is delivered" (domain-model.md, invariant 18c): *)
(* a message makes two receipts only when a second delivery began before    *)
(* the first had stored its own (services/receipt.py:338-341).              *)
AgainOnlyFromOverlap ==
    \A r, s \in Emailed : r # s /\ r.source = s.source => r.commit > s.began

=============================================================================
