------------------------------- MODULE Mailbox -------------------------------
(***************************************************************************)
(* The mailbox system calls of VFS: create_mailbox, destroy_mailbox,       *)
(* get_av_mailboxes, register_mb, get_senders, deposit and retrieve, over  *)
(* the mailbox table mbList and the suspended senders of WaitGraph.        *)
(*                                                                         *)
(* Every call is one step except deposit, which is one step per            *)
(* destination and per iteration of the deadlock walks; handler tells      *)
(* where VFS is, and no other call is served before it is through.  A call *)
(* that only returns an error changes nothing and has no step.             *)
(***************************************************************************)
EXTENDS WaitGraph, FiniteSetsExt

CONSTANTS MAX_SENDERS,   \* entries of a mailbox's senders array
          MB_CAPACITY,   \* messages a mailbox holds
          Uid, Gid,      \* user and group of each process
          Permissions,   \* the permission words create_mailbox is called with
          BadIds,        \* ids outside the table that calls are made with
          MaxMsg         \* bound: deposits made in one behaviour

ASSUME SendersAssumption == MAX_SENDERS \in Nat \ {0}
ASSUME CapacityAssumption == MB_CAPACITY \in Nat \ {0}
ASSUME UserAssumption == Uid \in [Proc -> Nat] /\ Gid \in [Proc -> Nat]
ASSUME PermissionsAssumption == Permissions \subseteq SUBSET {"USER", "GROUP", "EVERYONE"}
ASSUME BadIdsAssumption == BadIds \subseteq Int \ Ids
ASSUME MaxMsgAssumption == MaxMsg \in Nat

VARIABLES mbList,       \* the mailbox table
          mb_id_pool,   \* the ids whose bit is set
          senderDB,     \* local ids of senders that own no mailbox
          mail,         \* the deposit in progress: message, destinations left, full ones met
          sent          \* number of deposits so far, the id of the last message

mailVars == <<mbList, mb_id_pool, senderDB, mail, sent>>
vars == <<wgVars, mailVars>>

Messages == [id : 1 .. MaxMsg, sender_id : Proc]

\* A slot that was never used.  A destroyed slot keeps its record.
NoMailBox == [mb_id |-> NoId, owner_pid |-> NoPid]
MailBoxes == [mb_id : Ids \cup {NoId}, owner_pid : Proc \cup {NoPid},
              owner_uid : Nat, owner_gid : Nat,
              perm : SUBSET {"USER", "GROUP", "EVERYONE"},
              senders : Seq(Proc),           \* the entries before the first -1
              num_senders : Nat,
              sus_sender_idx : 0 .. MAX_SENDERS,
              rx_suspended : BOOLEAN,
              queue : Seq(Messages),         \* the list front .. rear
              num_messages : Nat,
              last_out : 0 .. MaxMsg]        \* history: the last message given out

SenderSlots == 0 .. MAX_SENDERS * MAX_MAILBOXES - 1

NoMail == [msg |-> [id |-> 0, sender_id |-> NoPid], dest |-> <<>>, sus |-> <<>>]

TypeOK == /\ WGTypeOK
          /\ mbList \in [Ids -> MailBoxes \cup {NoMailBox}]
          /\ mb_id_pool \subseteq Ids
          /\ senderDB \in [SenderSlots -> Int]
          /\ mail \in [msg : Messages, dest : Seq(Proc), sus : Seq(Ids)] \cup {NoMail}
          /\ At("sending") => /\ mail.msg \in Messages
                               /\ Len(mail.dest) + Len(mail.sus) <= MAX_DEST
          /\ sent \in 0 .. MaxMsg

Init == /\ WGInit
        /\ mbList = [i \in Ids |-> NoMailBox]
        /\ mb_id_pool = {}
        /\ senderDB = [i \in SenderSlots |-> 0]
        /\ mail = NoMail
        /\ sent = 0

-----------------------------------------------------------------------------
Ready(p) == At("idle") /\ proc[p] = "running"

\* C leaves the rest of the behaviour undefined; nothing further is said of it.
Breaks == Undefined /\ UNCHANGED mailVars

OwnedBy(pid) == {i \in Ids : mbList[i].owner_pid = pid}

\* get_mb_id finds the lowest slot whose owner is pid, live or not.
get_mb_id(pid) == IF OwnedBy(pid) = {} THEN NoId ELSE Min(OwnedBy(pid))

\* It dereferences every slot on the way, the unused ones (NULL) included:
\* the read finds no owner there, or it traps.
DereferencesNull(pid) ==
  \E i \in Ids : mbList[i] = NoMailBox /\ \A j \in OwnedBy(pid) : i < j

get_sender_local_id(pid) ==
  LET known == {i \in SenderSlots : senderDB[i] = pid}
  IN  CASE get_mb_id(pid) # NoId -> get_mb_id(pid)
        [] get_mb_id(pid) = NoId /\ known # {} -> Min(known)
        [] OTHER -> NoId

\* An entry equal to -1 is free; none is, unless something stores -1.
set_sender_local_id(pid) ==
  LET free == {i \in SenderSlots : i >= MAX_MAILBOXES /\ senderDB[i] = -1}
  IN  senderDB' = IF get_mb_id(pid) = NoId /\ free # {}
                  THEN [senderDB EXCEPT ![Min(free)] = pid]
                  ELSE senderDB

\* The permission word of mailbox m lets p see it and register with it.
Permits(m, p) == \/ "EVERYONE" \in m.perm
                 \/ "GROUP" \in m.perm /\ m.owner_gid = Gid[p]
                 \/ "USER" \in m.perm /\ m.owner_uid = Uid[p]

\* Before the first create_mailbox call the table itself is a NULL pointer.
Uninitialised == \A i \in Ids : mbList[i] = NoMailBox

-----------------------------------------------------------------------------
get_free_id == Min(Ids \ mb_id_pool)

\* The record create_mailbox fills in for a new mailbox id of process p.
create_mailbox(p, id, perm) ==
  [mb_id |-> id, owner_pid |-> p, owner_uid |-> Uid[p], owner_gid |-> Gid[p], perm |-> perm,
   senders |-> <<>>, num_senders |-> 0, sus_sender_idx |-> 0, rx_suspended |-> FALSE,
   queue |-> <<>>, num_messages |-> 0, last_out |-> 0]

(* create_mailbox: nothing stops a process from creating a second one.     *)
do_create_mailbox(p, perm) ==
  /\ Ready(p)
  /\ mb_id_pool # Ids
  /\ mb_id_pool' = mb_id_pool \cup {get_free_id}
  /\ mbList' = [mbList EXCEPT ![get_free_id] = create_mailbox(p, get_free_id, perm)]
  /\ UNCHANGED <<wgVars, senderDB, mail, sent>>

set_free_id(id) == mb_id_pool' = mb_id_pool \ {id}

\* Slips do_destroy_mailbox avoids: the id is not given back; the slot is
\* (the commented-out assignment of NULL).
DestroyKeepsId(p, id) ==
  /\ Ready(p) /\ id \in Ids /\ mbList[id] # NoMailBox
  /\ mbList' = [mbList EXCEPT ![id].owner_pid = NoPid, ![id].mb_id = NoId]
  /\ UNCHANGED <<wgVars, mb_id_pool, senderDB, mail, sent>>
DestroyFreesSlot(p, id) ==
  /\ Ready(p) /\ id \in Ids /\ mbList[id] # NoMailBox
  /\ mbList' = [mbList EXCEPT ![id] = NoMailBox]
  /\ set_free_id(id)
  /\ UNCHANGED <<wgVars, senderDB, mail, sent>>

(* destroy_mailbox: any process may (the owner test is commented out), a   *)
(* slot that is free already too, and whoever is blocked stays blocked.    *)
do_destroy_mailbox(p, id) ==
  /\ Ready(p)
  /\ IF id \in Ids
     THEN \/ /\ mbList[id] # NoMailBox
             /\ mbList' = [mbList EXCEPT ![id].owner_pid = NoPid, ![id].mb_id = NoId,
                                         ![id].num_senders = 0, ![id].num_messages = 0,
                                         ![id].queue = <<>>]
             /\ set_free_id(id)
             /\ UNCHANGED <<wgVars, senderDB, mail, sent>>
          \/ Uninitialised /\ Breaks
     ELSE id < 0 /\ Breaks

\* register_mb puts p behind the senders mailbox id has, unless it is full.
AddsSender(p, id) ==
  /\ \A i \in 1 .. Len(mbList[id].senders) : mbList[id].senders[i] # p
  /\ Len(mbList[id].senders) < MAX_SENDERS

\* A slip do_register_mb avoids: the permission word is not asked.
RegisterUnasked(p, id) ==
  /\ Ready(p)
  /\ id \in Ids /\ mbList[id] # NoMailBox
  /\ AddsSender(p, id)
  /\ mbList' = [mbList EXCEPT ![id].senders = Append(@, p), ![id].num_senders = @ + 1]
  /\ set_sender_local_id(p)
  /\ UNCHANGED <<wgVars, mb_id_pool, mail, sent>>

(* register_mb, without a look at mb_id: an unused slot is dereferenced, a *)
(* destroyed one still takes senders.  It ends in set_sender_local_id,     *)
(* which looks for p's own mailbox.                                        *)
do_register_mb(p, id) ==
  /\ Ready(p)
  /\ IF id \in Ids /\ mbList[id] # NoMailBox
     THEN /\ Permits(mbList[id], p)
          /\ AddsSender(p, id)
          /\ \/ /\ mbList' = [mbList EXCEPT ![id].senders = Append(@, p),
                                             ![id].num_senders = @ + 1]
                /\ set_sender_local_id(p)
                /\ UNCHANGED <<wgVars, mb_id_pool, mail, sent>>
             \/ DereferencesNull(p) /\ Breaks
     ELSE Breaks

\* The (mb_id, owner_pid) pairs get_av_mailboxes packs for p, in slot order,
\* destroyed slots included; the pair (-1, -1) after them ends the list.
Listed(p) == {i \in Ids : mbList[i] # NoMailBox /\ Permits(mbList[i], p)}

(* get_av_mailboxes only reads, but a full list leaves no room for its end.*)
do_get_av_mailboxes(p) ==
  /\ Ready(p)
  /\ Listed(p) = Ids \/ Uninitialised
  /\ Breaks

(* get_senders only reads; a negative id reads before the table.           *)
do_get_senders(p, id) ==
  /\ Ready(p)
  /\ id < 0 \/ Uninitialised
  /\ Breaks

-----------------------------------------------------------------------------
(* deposit.                                                                *)

\* deposit enters with a destination list, as far as its terminator.
do_deposit(p, dest) ==
  /\ EnterDeposit(p)
  /\ sent < MaxMsg
  /\ sent' = sent + 1
  /\ mail' = [msg |-> [id |-> sent + 1, sender_id |-> p], dest |-> dest, sus |-> <<>>]
  /\ UNCHANGED <<mbList, mb_id_pool, senderDB>>

\* The sender is among the num_senders first entries of the destination.
isValidSender(id, pid) ==
  \E i \in 1 .. mbList[id].num_senders : mbList[id].senders[i] = pid

\* do_deposit returns: the rest of the list is dropped, the caller answered.
DepositReturns ==
  /\ LeaveDeposit
  /\ mail' = NoMail
  /\ UNCHANGED <<mbList, mb_id_pool, senderDB, sent>>

\* The loop is at a destination, whose mailbox is id.
AtDestination(id) ==
  /\ At("sending")
  /\ mail.dest # <<>>
  /\ id = get_mb_id(Head(mail.dest))

\* No mailbox (-3) or not registered with it (-5): earlier destinations keep
\* what they got.
DepositRefused ==
  \E id \in Ids \cup {NoId} :
    /\ AtDestination(id)
    /\ id \in Ids => ~isValidSender(id, handler.caller)
    /\ DepositReturns

\* A valid destination whose mailbox is full, or not.
ValidDestination(id) == AtDestination(id) /\ isValidSender(id, handler.caller)
\* A slip Full avoids: one message too many.
FullLate(id) == mbList[id].num_messages > MB_CAPACITY
Full(id) == mbList[id].num_messages >= MB_CAPACITY
\* A slip NextDestination avoids: the loop does not advance.
SameDestination == mail' = mail
NextDestination == mail' = [mail EXCEPT !.dest = Tail(@)]

\* A slip DepositBlocks avoids: the full destination is tried again.
DepositBlocksAgain ==
  \E id \in Ids :
    /\ ValidDestination(id) /\ Full(id)
    /\ mail' = [mail EXCEPT !.sus = Append(@, id)]
    /\ UNCHANGED <<wgVars, mbList, mb_id_pool, senderDB, sent>>

\* Full: the sender is noted, in an array the code never takes it out of.
DepositBlocks ==
  \E id \in Ids :
    /\ ValidDestination(id) /\ Full(id)
    /\ IF mbList[id].sus_sender_idx = MAX_SENDERS
       THEN Breaks
       ELSE /\ mbList' = [mbList EXCEPT ![id].sus_sender_idx = @ + 1]
            /\ mail' = [mail EXCEPT !.dest = Tail(@), !.sus = Append(@, id)]
            /\ UNCHANGED <<wgVars, mb_id_pool, senderDB, sent>>

\* rx_suspended is set: the message goes to the buffer of the owner's last
\* blocked retrieve, and rx_suspended stays set (line 306 compares).
DepositHandsOver ==
  \E id \in Ids :
    /\ ValidDestination(id) /\ ~Full(id)
    /\ mbList[id].rx_suspended
    /\ mbList' = [mbList EXCEPT ![id].last_out = mail.msg.id]
    /\ WakeReceiver(mbList[id].owner_pid)
    /\ NextDestination
    /\ UNCHANGED <<mb_id_pool, senderDB, sent>>

\* Slips DepositQueues avoids: the waiting receiver is not looked at; the
\* message goes to the front of the list.
DepositQueuesAlways ==
  \E id \in Ids :
    /\ ValidDestination(id) /\ ~Full(id)
    /\ mbList' = [mbList EXCEPT ![id].queue = Append(@, mail.msg), ![id].num_messages = @ + 1]
    /\ NextDestination
    /\ UNCHANGED <<wgVars, mb_id_pool, senderDB, sent>>
DepositQueuesInFront ==
  \E id \in Ids :
    /\ ValidDestination(id) /\ ~Full(id)
    /\ ~mbList[id].rx_suspended
    /\ mbList' = [mbList EXCEPT ![id].queue = <<mail.msg>> \o @, ![id].num_messages = @ + 1]
    /\ NextDestination
    /\ UNCHANGED <<wgVars, mb_id_pool, senderDB, sent>>

\* putMsg links the message in behind the others.
DepositQueues ==
  \E id \in Ids :
    /\ ValidDestination(id) /\ ~Full(id)
    /\ ~mbList[id].rx_suspended
    /\ mbList' = [mbList EXCEPT ![id].queue = Append(@, mail.msg), ![id].num_messages = @ + 1]
    /\ NextDestination
    /\ UNCHANGED <<wgVars, mb_id_pool, senderDB, sent>>

\* The list is exhausted and every destination took the message.
DepositDone ==
  /\ At("sending") /\ mail.dest = <<>> /\ mail.sus = <<>>
  /\ DepositReturns

\* A slip DepositSuspends avoids: the sender is suspended unchecked.
DepositSuspendsUnchecked ==
  LET local == get_sender_local_id(handler.caller)
  IN  /\ At("sending") /\ mail.dest = <<>> /\ mail.sus # <<>>
      /\ local # NoId
      /\ susContext' = [susContext EXCEPT ![local] =
                          [sus_end_p |-> handler.caller, suspened_for |-> mail.sus]]
      /\ handler' = Idle
      /\ mail' = NoMail
      /\ UNCHANGED <<vfs, proc, mbList, mb_id_pool, senderDB, sent>>

\* The list is exhausted and some destination was full.
DepositSuspends ==
  /\ At("sending") /\ mail.dest = <<>> /\ mail.sus # <<>>
  /\ SuspendSender(get_sender_local_id(handler.caller), mail.sus)
  /\ mail' = NoMail
  /\ UNCHANGED <<mbList, mb_id_pool, senderDB, sent>>

\* The lookups of a deposit may trap: of a destination, of the sender.
DepositLooksUp ==
  /\ At("sending")
  /\ IF mail.dest # <<>>
     THEN DereferencesNull(Head(mail.dest))
     ELSE mail.sus # <<>> /\ DereferencesNull(handler.caller)
  /\ Breaks

DeadlockWalk == (CheckStep \/ IndicateStep) /\ UNCHANGED mailVars

-----------------------------------------------------------------------------
\* A slip getMsg avoids: the list is read from its rear.
getLastMsg(m) ==
  [m EXCEPT !.last_out = m.queue[Len(m.queue)].id,
            !.queue = SubSeq(@, 1, Len(@) - 1), !.num_messages = @ - 1]

\* getMsg unlinks the front of mailbox m's list; the message goes to the
\* caller of retrieve.
getMsg(m) == [m EXCEPT !.last_out = Head(m.queue).id,
                       !.queue = Tail(@), !.num_messages = @ - 1]

(* retrieve: the oldest message of the caller's lowest mailbox, or wait.   *)
(* Senders that wait for room are not woken.                               *)
do_retrieve(p) ==
  /\ Ready(p)
  /\ \/ \E id \in Ids :
          /\ id = get_mb_id(p)
          /\ mbList[id].queue = <<>>
          /\ mbList' = [mbList EXCEPT ![id].rx_suspended = TRUE]
          /\ SuspendReceiver(p)
          /\ UNCHANGED <<mb_id_pool, senderDB, mail, sent>>
     \/ \E id \in Ids :
          /\ id = get_mb_id(p)
          /\ mbList[id].queue # <<>>
          /\ mbList' = [mbList EXCEPT ![id] = [getMsg(@) EXCEPT !.rx_suspended = FALSE]]
          /\ UNCHANGED <<wgVars, mb_id_pool, senderDB, mail, sent>>
     \/ DereferencesNull(p) /\ Breaks

-----------------------------------------------------------------------------
DestLists == UNION {[1 .. n -> Proc] : n \in 0 .. MAX_DEST}

Administration ==
  \E p \in Proc :
    \/ \E perm \in Permissions : do_create_mailbox(p, perm)
    \/ \E id \in Ids \cup BadIds : \/ do_destroy_mailbox(p, id)
                                   \/ do_register_mb(p, id)
                                   \/ do_get_senders(p, id)
    \/ do_get_av_mailboxes(p)

DepositStep == \/ DepositRefused \/ DepositBlocks \/ DepositHandsOver \/ DepositQueues
               \/ DepositDone \/ DepositSuspends \/ DepositLooksUp
               \/ DeadlockWalk

Next == \/ Administration
        \/ \E p \in Proc : do_retrieve(p)
        \/ \E p \in Proc, dest \in DestLists : do_deposit(p, dest)
        \/ DepositStep

\* VFS goes on with the deposit it is serving; no process has to call.
Spec == Init /\ [][Next]_vars /\ WF_vars(DepositStep)

-----------------------------------------------------------------------------
(* Properties of the table.                                                *)

\* A bit of mb_id_pool is set exactly while its slot holds a mailbox that
\* somebody owns, under the id get_av_mailboxes hands out.
PoolMatchesTable ==
  \A i \in Ids : /\ i \in mb_id_pool <=> mbList[i].owner_pid \in Proc
                 /\ mbList[i].mb_id = (IF i \in mb_id_pool THEN i ELSE NoId)

\* get_mb_id dereferences unused slots, but never on its way to a mailbox
\* that exists: creation takes the lowest id and destroyed slots keep their
\* record, so mail to an owner of a mailbox does not trap.
OwnersAreFound ==
  \A p \in Proc : OwnedBy(p) # {} => ~DereferencesNull(p)

\* num_messages, on which putMsg decides, counts the list of every mailbox,
\* across deposits, retrieves and destruction, and the list never outgrows
\* MB_CAPACITY.
QueueCounted ==
  \A i \in Ids : mbList[i] # NoMailBox =>
    /\ mbList[i].num_messages = Len(mbList[i].queue)
    /\ mbList[i].num_messages <= MB_CAPACITY

\* A mailbox whose owner was told to wait holds no mail: putMsg never leaves
\* a message in the list behind the back of a receiver it thinks is waiting.
NoMailBehindReceiver ==
  \A i \in mb_id_pool : mbList[i].rx_suspended => mbList[i].queue = <<>>

\* Messages leave a mailbox in the order they were deposited, whichever way
\* they leave it (getMsg, or handed to a waiting receiver by putMsg): what is
\* in the list is in deposit order and newer than what was given out.
FifoOrder ==
  \A i \in mb_id_pool :
    LET q == mbList[i].queue
    IN  /\ \A j \in 1 .. Len(q) : mbList[i].last_out <= q[j].id
        /\ \A j, k \in 1 .. Len(q) : j <= k => q[j].id <= q[k].id

\* A mailbox holds mail from registered senders only, and everybody who ever
\* registered was permitted to by the creator's permission word, user and
\* group, which outlive the mailbox.
MailIsAuthorised ==
  \A i \in Ids : mbList[i] # NoMailBox =>
    LET m == mbList[i]
    IN  /\ \A j \in 1 .. Len(m.queue) :
             \E k \in 1 .. m.num_senders : m.senders[k] = m.queue[j].sender_id
        /\ \A k \in 1 .. Len(m.senders) : Permits(m, m.senders[k])

\* What Mailbox shows of its state to MailQueues: message ids only, and the
\* lists of the slots that have an owner.
Shown(m) == [j \in 1 .. Len(m.queue) |-> m.queue[j].id]
ShownList == [i \in Ids |-> IF i \in mb_id_pool THEN Shown(mbList[i]) ELSE <<>>]
ShownOut == [i \in Ids |-> IF mbList[i] = NoMailBox THEN 0 ELSE mbList[i].last_out]

Queues == INSTANCE MailQueues
  WITH Slot <- Ids, Capacity <- MB_CAPACITY, MaxId <- MaxMsg,
       open <- mb_id_pool, list <- ShownList, lastOut <- ShownOut, newest <- sent

\* The handlers keep the promise of MailQueues: with rx_suspended, capacity,
\* registration, destruction by anybody and lost wake-ups in play, mail still
\* moves only through the front of a bounded list or past an empty one.
KeepsPromise == Queues!Spec

\* Every call VFS has begun comes to an end (or leaves C's defined
\* behaviour): the destination loop and both deadlock walks terminate.
HandlerReturns ==
  handler.pc # "idle" ~> (handler.pc = "idle" \/ vfs = "undefined")

-----------------------------------------------------------------------------
(* What the documentation says and the code does not do.                   *)

\* ManPage_Doc/retrieve.1: the receiver process receives the mails that
\* reached its mailbox.  A deposit may copy its message only to an owner
\* that is blocked in retrieve; otherwise the copy overwrites a buffer the
\* owner is not waiting on and no retrieve returns the message.
HandedToWaitingReceiver ==
  [][\A i \in Ids :
       handler.pc = "sending" /\ mbList'[i] # mbList[i] /\ mbList'[i].last_out # mbList[i].last_out
         => proc[mbList[i].owner_pid] = "retrieve"]_vars

\* ManPage_Doc/deposit.1: a deposit blocks if the mailbox is full.  While the
\* mailboxes a sender is suspended for exist, one of them must be full.
BlockedOnlyWhileFull ==
  handler.pc = "idle" =>
    \A l \in Ids :
      LET c == susContext[l]
          waited == {c.suspened_for[k] : k \in 1 .. Len(c.suspened_for)}
      IN  /\ c # NoContext
          /\ proc[c.sus_end_p] = "deposit"
          /\ waited \subseteq mb_id_pool
          => \E i \in waited : Full(i)

=============================================================================
