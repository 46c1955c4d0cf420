------------------------------- MODULE Intake -------------------------------
(***************************************************************************)
(* Both channels over one receipts table: the wizard's requests and the    *)
(* tasks of forwarded messages interleave step by step.                    *)
(***************************************************************************)
EXTENDS Wizard, EmailIntake

vars == <<sharedVars, wizardVars, mailVars>>

TypeOK == SharedTypeOK /\ WizardTypeOK /\ MailTypeOK

Init == SharedInit /\ WizardInit /\ MailInit

Next ==
    \/ WizardNext /\ UNCHANGED mailVars
    \/ MailNext /\ UNCHANGED wizardVars

Spec == Init /\ [][Next]_vars

(* Of "storage does not accumulate objects nothing references"              *)
(* (docs/adr/0007-receipt-deletion-is-a-hard-delete.md:46) the code gives   *)
(* this: every photo in storage is a receipt's, a job's or that of a        *)
(* message being read, or it strayed in one of the ways named -- its        *)
(* erasure failed; its message's task died, or dropped it; its upload is    *)
(* being read, failed or died before file_ids was set; or no receipt has    *)
(* carried it and the deletion of a sibling discarded the payload that did  *)
(* name it.                                                                 *)
StraysAreKnown ==
    photos \subseteq
        {r.photo : r \in receipts} \cup (named \X Indices) \cup strayed
        \cup ((Jobs \ Read) \X Indices)
        \cup ((Read \ named) \X Indices \ carried)
        \cup {d \in Deliveries : mail[d] \in {"uploaded", "read", "looked", "lost", "dropped"}}

=============================================================================
