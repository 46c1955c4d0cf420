----------------------------- MODULE Conversation -----------------------------
(***************************************************************************)
(* Writing to the assistant (stores/AssistantStore.ts): what the user      *)
(* writes joins a queue and is sent one message after another, into the    *)
(* conversation that is open when its turn comes.  The user may meanwhile  *)
(* open another conversation, start a new one, or sign out.                *)
(***************************************************************************)
EXTENDS Integers, Sequences, FiniteSets, SequencesExt

CONSTANTS
    MaxMessages,  \* bound: the messages the user writes
    MaxThreads,   \* bound: the times the user changes conversation, plus one
    None          \* no conversation, nothing on its way

Messages == 1..MaxMessages
Conversations == 1..MaxMessages

VARIABLES
    conversations,  \* the server: the user's messages in each, <<>> until it is begun
    open,
    pending,
    sending,        \* POST /messages under way: the message, the conversation it names
    opening,        \* the conversations whose GET has not been answered
    attaching,      \* messages whose files are still being uploaded (readFromChat)
    written,        \* under which thread each message was written, and what was open then
    thread,         \* counts the user's changes of conversation
    crossed         \* what has been done that a patient user would not do, what was lost

vars == <<conversations, open, pending, sending, opening, attaching, written, thread, crossed>>

Post == [message : Messages, to : Conversations \cup {None}, stored : Conversations \cup {None}]

TypeOK ==
    /\ conversations \in [Conversations -> Seq(Messages)]
    /\ open \in Conversations \cup {None}
    /\ pending \in Seq(Messages)
    /\ sending \in Post \cup {None}
    /\ opening \subseteq Conversations
    /\ attaching \subseteq Messages
    /\ written \in Seq([thread : 1..MaxThreads, open : Conversations \cup {None}])
    /\ thread \in 1..MaxThreads
    /\ crossed \subseteq {"moved", "attached", "lost"}

Init ==
    /\ conversations = [c \in Conversations |-> <<>>]
    /\ open = None /\ pending = <<>> /\ sending = None /\ opening = {}
    /\ attaching = {} /\ written = <<>> /\ thread = 1
    /\ crossed = {}

Begun == {c \in Conversations : conversations[c] # <<>>}
Busy == pending # <<>> \/ attaching # {} \/ sending # None

(***************************************************************************)
(* What the user does                                                      *)
(***************************************************************************)

Write(files) ==
    /\ Len(written) < MaxMessages
    /\ LET m == Len(written) + 1
       IN  /\ written' = Append(written, [thread |-> thread, open |-> open])
           /\ attaching' = IF files THEN attaching \cup {m} ELSE attaching
           /\ pending' = IF files THEN pending ELSE Append(pending, m)
    /\ crossed' = IF attaching # {} THEN crossed \cup {"attached"} ELSE crossed
    /\ UNCHANGED <<conversations, open, sending, opening, thread>>

(* The upload was accepted, and the message is sent; or it was not.         *)
FilesSent(m) ==
    /\ m \in attaching
    /\ attaching' = attaching \ {m}
    /\ pending' \in {Append(pending, m), pending}
    /\ UNCHANGED <<conversations, open, sending, opening, written, thread, crossed>>

Moved(conversation) ==
    /\ thread < MaxThreads
    /\ thread' = thread + 1
    /\ open' = conversation
    /\ crossed' = IF Busy THEN crossed \cup {"moved"} ELSE crossed

StartNew ==
    /\ Moved(None)
    /\ UNCHANGED <<conversations, pending, sending, opening, attaching, written>>

(* Any number at once; they are answered in any order.                      *)
OpenConversation(c) ==
    /\ c \in Begun \ opening
    /\ opening' = opening \cup {c}
    /\ UNCHANGED <<conversations, open, pending, sending, attaching, written, thread, crossed>>

ConversationOpened(c) ==
    /\ c \in opening
    /\ opening' = opening \ {c}
    /\ Moved(c)
    /\ UNCHANGED <<conversations, pending, sending, attaching, written>>

OpeningFailed(c) ==
    /\ c \in opening
    /\ opening' = opening \ {c}
    /\ UNCHANGED <<conversations, open, pending, sending, attaching, written, thread, crossed>>

(* reset: another account.  What is being sent goes on.                     *)
Reset ==
    /\ Moved(None)
    /\ pending' = <<>>
    /\ UNCHANGED <<conversations, sending, opening, attaching, written>>

(***************************************************************************)
(* drain                                                                   *)
(***************************************************************************)

(* Mutated SendNext: each message starts from where the last one started.   *)
SendNextWithoutAnswer ==
    /\ sending = None /\ pending # <<>>
    /\ sending' = [message |-> Head(pending), to |-> written[Head(pending)].open, stored |-> None]
    /\ UNCHANGED <<conversations, open, pending, opening, attaching, written, thread, crossed>>

(* The loop's next turn: the oldest message, into the conversation open now.*)
SendNext ==
    /\ sending = None /\ pending # <<>>
    /\ sending' = [message |-> Head(pending), to |-> open, stored |-> None]
    /\ UNCHANGED <<conversations, open, pending, opening, attaching, written, thread, crossed>>

(* assistant/service.py, send: a conversation is begun when none is named.  *)
Store ==
    /\ sending # None /\ sending.stored = None
    /\ LET c == IF sending.to = None THEN Cardinality(Begun) + 1 ELSE sending.to
       IN  /\ conversations' = [conversations EXCEPT ![c] = Append(@, sending.message)]
           /\ sending' = [sending EXCEPT !.stored = c]
    /\ UNCHANGED <<open, pending, opening, attaching, written, thread, crossed>>

Shift == IF pending = <<>> THEN <<>> ELSE Tail(pending)

(* The oldest of the queue is taken off it, which after a reset may be one  *)
(* written since.                                                           *)
SendAnswered ==
    /\ sending # None /\ sending.stored # None
    /\ open' = sending.stored
    /\ pending' = Shift
    /\ sending' = None
    /\ UNCHANGED <<conversations, opening, attaching, written, thread, crossed>>

(* Refused, or its answer lost: the queue is dropped, to be sent again.     *)
SendFailed ==
    /\ sending # None
    /\ pending' = <<>>
    /\ sending' = None
    /\ crossed' = IF sending.stored # None THEN crossed \cup {"lost"} ELSE crossed
    /\ UNCHANGED <<conversations, open, opening, attaching, written, thread>>

Next ==
    \/ \E files \in BOOLEAN : Write(files)
    \/ \E m \in Messages : FilesSent(m)
    \/ StartNew \/ Reset
    \/ \E c \in Conversations :
        OpenConversation(c) \/ ConversationOpened(c) \/ OpeningFailed(c)
    \/ SendNext \/ Store \/ SendAnswered \/ SendFailed

Spec == Init /\ [][Next]_vars

(***************************************************************************)
(* Properties                                                              *)
(***************************************************************************)

Landed(m) == {c \in Conversations : m \in ToSet(conversations[c])}

(* Each message lands once; those written without a change of conversation  *)
(* between them land in one, the one that was open if there was one, in     *)
(* the order they were written (AssistantStore, pending).  Not when the     *)
(* user moves on or attaches files before all is answered, nor when the     *)
(* answer to a stored message is lost.                                      *)
LandsTogether ==
    crossed = {} =>
        \A m, n \in 1..Len(written) :
            /\ Cardinality(Landed(m)) <= 1
            /\ written[m].open # None => Landed(m) \subseteq {written[m].open}
            /\ written[m].thread = written[n].thread /\ Landed(m) # {} /\ Landed(n) # {} =>
                   Landed(m) = Landed(n)
            /\ \A c \in Conversations : IsSorted(conversations[c], <)

=============================================================================
