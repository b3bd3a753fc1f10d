------------------------------ MODULE MCMailbox ------------------------------
(* Small instances of Mailbox for TLC.                                     *)
EXTENDS Mailbox

\* Every process has a user and a group of its own.
MCUid == [p \in Proc |-> p]

\* What create_mailbox returned when the table was full, and the first id
\* past the table.
MCBadIds == {NoId, MAX_MAILBOXES}

=============================================================================
