----------------------------- MODULE MailQueues -----------------------------
(***************************************************************************)
(* What the mailboxes promise, without senders, permissions or blocking:   *)
(* a mailbox that is open holds a bounded list of messages; a message is   *)
(* posted behind the others or, only when the list is empty, passed on at  *)
(* once; messages are taken from the front, and closing throws them away.  *)
(* Message ids grow with the time of the deposit, so what goes out of a    *)
(* mailbox never goes back in time.                                        *)
(***************************************************************************)
EXTENDS Integers, Sequences

CONSTANTS Slot,       \* the mailboxes
          Capacity,   \* messages a mailbox holds
          MaxId       \* the last message id

VARIABLES open,       \* the slots that hold a mailbox
          list,       \* the messages in each
          lastOut,    \* the last message that left each
          newest      \* the id of the newest deposit

vars == <<open, list, lastOut, newest>>

Init == /\ open = {}
        /\ list = [i \in Slot |-> <<>>]
        /\ lastOut = [i \in Slot |-> 0]
        /\ newest = 0

\* A new deposit starts; only its message can be posted from now on.
NewMessage == /\ newest < MaxId
              /\ newest' = newest + 1
              /\ UNCHANGED <<open, list, lastOut>>

Open(i) == /\ i \notin open
           /\ open' = open \cup {i}
           /\ list' = [list EXCEPT ![i] = <<>>]
           /\ lastOut' = [lastOut EXCEPT ![i] = 0]
           /\ UNCHANGED newest

\* What a closed mailbox let out last is of no interest any more.
Close(i) == /\ i \in open
            /\ open' = open \ {i}
            /\ list' = [list EXCEPT ![i] = <<>>]
            /\ UNCHANGED <<lastOut, newest>>

Post(i) == /\ i \in open
           /\ Len(list[i]) < Capacity
           /\ list' = [list EXCEPT ![i] = Append(@, newest)]
           /\ UNCHANGED <<open, lastOut, newest>>

PassOn(i) == /\ i \in open
             /\ list[i] = <<>>
             /\ lastOut' = [lastOut EXCEPT ![i] = newest]
             /\ UNCHANGED <<open, list, newest>>

Take(i) == /\ i \in open
           /\ list[i] # <<>>
           /\ Head(list[i]) >= lastOut[i]
           /\ lastOut' = [lastOut EXCEPT ![i] = Head(list[i])]
           /\ list' = [list EXCEPT ![i] = Tail(@)]
           /\ UNCHANGED <<open, newest>>

Next == \/ NewMessage
        \/ \E i \in Slot : Open(i) \/ Close(i) \/ Post(i) \/ PassOn(i) \/ Take(i)

Spec == Init /\ [][Next]_vars

=============================================================================
