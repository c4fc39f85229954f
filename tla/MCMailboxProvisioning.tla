----------------------- MODULE MCMailboxProvisioning -----------------------
(* Small instances of MailboxProvisioning. *)
EXTENDS MailboxProvisioning, TLC

MailboxSymmetry == Permutations(Mailboxes)

RequestSymmetry == Permutations(Requests)

Symmetry == MailboxSymmetry \cup RequestSymmetry
=============================================================================
