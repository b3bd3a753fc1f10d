---------------------------- MODULE MailboxProofs ----------------------------
(***************************************************************************)
(* The mailbox handlers implement WaitGraph and MailQueues, and keep the   *)
(* invariants of the mailbox table, for any number of processes,           *)
(* mailboxes, senders and messages.                                        *)
(***************************************************************************)
EXTENDS Mailbox, WaitGraphProofs, WellFoundedInduction, SequenceTheorems

-----------------------------------------------------------------------------
(* The least element of a set of natural numbers, as get_mb_id and         *)
(* get_free_id find it.                                                    *)

Less == {ss \in Nat \X Nat : ss[1] < ss[2]}

LEMMA LessIsWellFounded == IsWellFoundedOn(Less, Nat)
<1>1. OpToRel(<, Nat) = Less
  BY DEF OpToRel, Less
<1> QED
  BY <1>1, NatLessThanWellFounded

LEMMA MinIsLeast ==
  ASSUME NEW S \in SUBSET Nat, S # {}
  PROVE  Min(S) \in S /\ \A y \in S : Min(S) <= y
<1>1. PICK x \in S : \A y \in S : ~ (<<y, x>> \in Less)
  BY LessIsWellFounded, WFMin
<1>2. ASSUME NEW y \in S PROVE x <= y
  <2>1. x \in Nat /\ y \in Nat
    OBVIOUS
  <2>2. ~ (<<y, x>> \in Less)
    BY <1>1
  <2>3. y < x => <<y, x>> \in Less
    BY <2>1 DEF Less
  <2> QED
    BY <2>1, <2>2, <2>3
<1> QED
  BY <1>2 DEF Min

(* get_mb_id returns no mailbox, or the lowest one its argument owns.      *)
LEMMA GetMbId ==
  ASSUME NEW p
  PROVE  /\ get_mb_id(p) \in Ids \cup {NoId}
         /\ get_mb_id(p) \in Ids => mbList[get_mb_id(p)].owner_pid = p
         /\ OwnedBy(p) # {} => /\ get_mb_id(p) \in OwnedBy(p)
                               /\ \A i \in OwnedBy(p) : get_mb_id(p) <= i
<1>1. OwnedBy(p) \in SUBSET Ids /\ OwnedBy(p) \in SUBSET Nat
  BY DEF OwnedBy, Ids
<1>2. CASE OwnedBy(p) = {}
  BY <1>2 DEF get_mb_id, Ids, NoId
<1>3. CASE OwnedBy(p) # {}
  <2>1. get_mb_id(p) = Min(OwnedBy(p))
    BY <1>3 DEF get_mb_id
  <2>2. get_mb_id(p) \in OwnedBy(p) /\ \A i \in OwnedBy(p) : get_mb_id(p) <= i
    BY <1>1, <1>3, <2>1, MinIsLeast
  <2> QED
    BY <1>1, <2>2 DEF OwnedBy
<1> QED
  BY <1>2, <1>3

(* The slot get_free_id finds is free, and the lowest that is.             *)
LEMMA GetFreeId ==
  ASSUME mb_id_pool \subseteq Ids, mb_id_pool # Ids
  PROVE  /\ get_free_id \in Ids \ mb_id_pool
         /\ \A i \in Ids \ mb_id_pool : get_free_id <= i
<1>1. Ids \ mb_id_pool \in SUBSET Nat
  BY DEF Ids
<1>2. Ids \ mb_id_pool # {}
  BY Zenon
<1> QED
  BY <1>1, <1>2, MinIsLeast DEF get_free_id

-----------------------------------------------------------------------------
(* The invariant, slot by slot: what holds of the record of every mailbox  *)
(* that was ever created, when newest is the id of the last message.       *)

Counted(m) == m.num_messages = Len(m.queue) /\ m.num_messages <= MB_CAPACITY

NothingBehind(m) == m.rx_suspended => m.queue = <<>>

InOrder(m, newest) ==
  /\ m.last_out <= newest
  /\ \A j \in 1 .. Len(m.queue) : m.last_out <= m.queue[j].id /\ m.queue[j].id <= newest
  /\ \A j, k \in 1 .. Len(m.queue) : j <= k => m.queue[j].id <= m.queue[k].id

Authorised(m) ==
  /\ m.num_senders <= Len(m.senders)
  /\ \A j \in 1 .. Len(m.queue) :
       \E k \in 1 .. m.num_senders : m.senders[k] = m.queue[j].sender_id
  /\ \A k \in 1 .. Len(m.senders) : Permits(m, m.senders[k])

BoxOK(m, newest) == /\ m \in MailBoxes
                    /\ Counted(m)
                    /\ NothingBehind(m)
                    /\ InOrder(m, newest)
                    /\ Authorised(m)

LEMMA NoMailBoxIsNone == NoMailBox \notin MailBoxes
<1>1. \A m \in MailBoxes : "perm" \in DOMAIN m
  BY DEF MailBoxes
<1>2. "perm" \notin DOMAIN NoMailBox
  BY DEF NoMailBox
<1> QED
  BY <1>1, <1>2

LEMMA CreatedBoxOK ==
  ASSUME NEW p \in Proc, NEW id \in Ids, NEW perm \in Permissions, NEW newest \in Nat, NEW m,
         m = create_mailbox(p, id, perm)
  PROVE  BoxOK(m, newest) /\ m.owner_pid = p /\ m.mb_id = id
<1>1. /\ Uid[p] \in Nat /\ Gid[p] \in Nat
      /\ perm \in SUBSET {"USER", "GROUP", "EVERYONE"}
      /\ 0 \in 0 .. MAX_SENDERS /\ 0 \in 0 .. MaxMsg
  BY UserAssumption, PermissionsAssumption, SendersAssumption, MaxMsgAssumption
<1>2. <<>> \in Seq(Proc) /\ <<>> \in Seq(Messages)
  OBVIOUS
<1>3. m \in MailBoxes
  BY <1>1, <1>2 DEF create_mailbox, MailBoxes
<1>4. /\ m.queue = <<>> /\ m.senders = <<>> /\ m.num_messages = 0 /\ m.num_senders = 0
      /\ m.last_out = 0 /\ m.rx_suspended = FALSE /\ m.owner_pid = p /\ m.mb_id = id
  BY DEF create_mailbox
<1>5. Counted(m) /\ NothingBehind(m) /\ InOrder(m, newest)
  BY <1>4, CapacityAssumption DEF Counted, NothingBehind, InOrder
<1>6. Authorised(m)
  BY <1>4 DEF Authorised
<1> QED
  BY <1>3, <1>4, <1>5, <1>6 DEF BoxOK

-----------------------------------------------------------------------------
(* What the handlers do to the record of a mailbox keeps it in order.      *)

\* The fields on which the permission of a sender depends.
SameRights(m, n) == /\ n.perm = m.perm
                    /\ n.owner_uid = m.owner_uid
                    /\ n.owner_gid = m.owner_gid

LEMMA BoxFields ==
  ASSUME NEW m \in MailBoxes
  PROVE  /\ m.owner_pid \in Proc \cup {NoPid} /\ m.mb_id \in Ids \cup {NoId}
         /\ m.senders \in Seq(Proc) /\ m.num_senders \in Nat
         /\ m.sus_sender_idx \in 0 .. MAX_SENDERS /\ m.rx_suspended \in BOOLEAN
         /\ m.queue \in Seq(Messages) /\ m.num_messages \in Nat /\ m.last_out \in 0 .. MaxMsg
BY DEF MailBoxes

LEMMA AuthorisedFrom ==
  ASSUME NEW m, NEW n, Authorised(m), SameRights(m, n),
         n.senders = m.senders, n.num_senders = m.num_senders,
         \A j \in 1 .. Len(n.queue) :
           \E k \in 1 .. m.num_senders : m.senders[k] = n.queue[j].sender_id
  PROVE  Authorised(n)
<1>1. \A p : Permits(m, p) <=> Permits(n, p)
  BY DEF SameRights, Permits
<1> QED
  BY <1>1 DEF Authorised

Destroyed(m) == [m EXCEPT !.owner_pid = NoPid, !.mb_id = NoId, !.num_senders = 0,
                          !.num_messages = 0, !.queue = <<>>]
Registered(m, p) == [m EXCEPT !.senders = Append(@, p), !.num_senders = @ + 1]
Noted(m) == [m EXCEPT !.sus_sender_idx = @ + 1]
HandedOver(m, id) == [m EXCEPT !.last_out = id]
Queued(m, msg) == [m EXCEPT !.queue = Append(@, msg), !.num_messages = @ + 1]
Waiting(m) == [m EXCEPT !.rx_suspended = TRUE]
Emptied(m) == [getMsg(m) EXCEPT !.rx_suspended = FALSE]

LEMMA DestroyedFields ==
  ASSUME NEW m, m \in MailBoxes, NEW n, n = Destroyed(m)
  PROVE  /\ n \in MailBoxes /\ SameRights(m, n) /\ n.owner_pid = NoPid /\ n.mb_id = NoId
         /\ n.senders = m.senders /\ n.num_senders = 0
         /\ n.queue = <<>> /\ n.num_messages = 0 /\ n.last_out = m.last_out
<1>1. <<>> \in Seq(Messages) /\ 0 \in Nat
  OBVIOUS
<1> QED
  BY <1>1 DEF Destroyed, MailBoxes, SameRights

LEMMA DestroyedBoxOK ==
  ASSUME NEW newest \in Nat, NEW m, BoxOK(m, newest), NEW n,
         n = Destroyed(m)
  PROVE  BoxOK(n, newest) /\ n.owner_pid = NoPid /\ n.mb_id = NoId
<1>1. m \in MailBoxes
  BY DEF BoxOK
<1>3. /\ n \in MailBoxes /\ SameRights(m, n) /\ n.owner_pid = NoPid /\ n.mb_id = NoId
      /\ n.senders = m.senders /\ n.num_senders = 0
      /\ n.queue = <<>> /\ n.num_messages = 0 /\ n.last_out = m.last_out
  BY <1>1, DestroyedFields
<1>4. Counted(n) /\ NothingBehind(n) /\ InOrder(n, newest)
  BY <1>3, CapacityAssumption DEF BoxOK, Counted, NothingBehind, InOrder
<1>5. Authorised(n)
  <2>1. \A p : Permits(m, p) <=> Permits(n, p)
    BY <1>3 DEF SameRights, Permits
  <2>2. Len(m.senders) \in Nat
    BY <1>1, BoxFields
  <2> QED
    BY <1>3, <2>1, <2>2 DEF BoxOK, Authorised
<1> QED
  BY <1>3, <1>4, <1>5 DEF BoxOK

LEMMA RegisteredFields ==
  ASSUME NEW m, m \in MailBoxes, NEW n, NEW p \in Proc, n = Registered(m, p)
  PROVE  /\ n \in MailBoxes /\ SameRights(m, n)
         /\ n.owner_pid = m.owner_pid /\ n.mb_id = m.mb_id
         /\ n.senders = Append(m.senders, p) /\ n.num_senders = m.num_senders + 1
         /\ n.rx_suspended = m.rx_suspended /\ n.queue = m.queue
         /\ n.num_messages = m.num_messages /\ n.last_out = m.last_out
<1>1. Append(m.senders, p) \in Seq(Proc) /\ m.num_senders + 1 \in Nat
  BY DEF MailBoxes
<1> QED
  BY <1>1 DEF Registered, MailBoxes, SameRights

LEMMA RegisteredBoxOK ==
  ASSUME NEW newest \in Nat, NEW m, BoxOK(m, newest), NEW p \in Proc, Permits(m, p), NEW n,
         n = Registered(m, p)
  PROVE  BoxOK(n, newest) /\ n.owner_pid = m.owner_pid /\ n.mb_id = m.mb_id
<1>1. m \in MailBoxes
  BY DEF BoxOK
<1>3. /\ m.senders \in Seq(Proc) /\ m.num_senders \in Nat /\ Len(m.senders) \in Nat
      /\ m.num_senders <= Len(m.senders)
  BY <1>1, BoxFields DEF BoxOK, Authorised
<1>4. Append(m.senders, p) \in Seq(Proc) /\ m.num_senders + 1 \in Nat
  BY <1>3
<1>5. /\ n \in MailBoxes /\ SameRights(m, n)
      /\ n.owner_pid = m.owner_pid /\ n.mb_id = m.mb_id
      /\ n.senders = Append(m.senders, p) /\ n.num_senders = m.num_senders + 1
      /\ n.rx_suspended = m.rx_suspended /\ n.queue = m.queue
      /\ n.num_messages = m.num_messages /\ n.last_out = m.last_out
  BY <1>1, <1>4, RegisteredFields
<1>6. Counted(n) /\ NothingBehind(n) /\ InOrder(n, newest)
  BY <1>5 DEF BoxOK, Counted, NothingBehind, InOrder
<1>7. /\ Len(n.senders) = Len(m.senders) + 1
      /\ n.senders[Len(m.senders) + 1] = p
      /\ \A k \in 1 .. Len(m.senders) : n.senders[k] = m.senders[k]
  BY <1>3, <1>5
<1>8. Authorised(n)
  <2>1. n.num_senders <= Len(n.senders)
    BY <1>3, <1>5, <1>7
  <2>2. ASSUME NEW j \in 1 .. Len(n.queue)
        PROVE  \E k \in 1 .. n.num_senders : n.senders[k] = n.queue[j].sender_id
    <3>1. PICK k \in 1 .. m.num_senders : m.senders[k] = m.queue[j].sender_id
      BY <1>5 DEF BoxOK, Authorised
    <3>2. k \in 1 .. n.num_senders /\ k \in 1 .. Len(m.senders)
      BY <1>3, <1>5
    <3> QED
      BY <1>5, <1>7, <3>1, <3>2
  <2>3. \A q : Permits(m, q) <=> Permits(n, q)
    BY <1>5 DEF SameRights, Permits
  <2>4. ASSUME NEW k \in 1 .. Len(n.senders) PROVE Permits(n, n.senders[k])
    <3>1. k \in 1 .. Len(m.senders) => Permits(m, m.senders[k])
      BY DEF BoxOK, Authorised
    <3>2. k \in 1 .. Len(m.senders) \/ k = Len(m.senders) + 1
      BY <1>3, <1>7
    <3> QED
      BY <1>7, <2>3, <3>1, <3>2
  <2> QED
    BY <2>1, <2>2, <2>4 DEF Authorised
<1> QED
  BY <1>5, <1>6, <1>8 DEF BoxOK

LEMMA NotedFields ==
  ASSUME NEW m, m \in MailBoxes, NEW n, n = Noted(m), m.sus_sender_idx # MAX_SENDERS
  PROVE  /\ n \in MailBoxes /\ SameRights(m, n)
         /\ n.owner_pid = m.owner_pid /\ n.mb_id = m.mb_id
         /\ n.senders = m.senders /\ n.num_senders = m.num_senders
         /\ n.rx_suspended = m.rx_suspended /\ n.queue = m.queue
         /\ n.num_messages = m.num_messages /\ n.last_out = m.last_out
<1>1. m.sus_sender_idx + 1 \in 0 .. MAX_SENDERS
  BY SendersAssumption DEF MailBoxes
<1> QED
  BY <1>1 DEF Noted, MailBoxes, SameRights

LEMMA NotedBoxOK ==
  ASSUME NEW newest \in Nat, NEW m, BoxOK(m, newest), m.sus_sender_idx # MAX_SENDERS, NEW n,
         n = Noted(m)
  PROVE  BoxOK(n, newest) /\ n.owner_pid = m.owner_pid /\ n.mb_id = m.mb_id
<1>1. m \in MailBoxes
  BY DEF BoxOK
<1>3. m.sus_sender_idx + 1 \in 0 .. MAX_SENDERS
  BY <1>1, BoxFields, SendersAssumption
<1>4. /\ n \in MailBoxes /\ SameRights(m, n)
      /\ n.owner_pid = m.owner_pid /\ n.mb_id = m.mb_id
      /\ n.senders = m.senders /\ n.num_senders = m.num_senders
      /\ n.rx_suspended = m.rx_suspended /\ n.queue = m.queue
      /\ n.num_messages = m.num_messages /\ n.last_out = m.last_out
  BY <1>1, <1>3, NotedFields
<1>5. Counted(n) /\ NothingBehind(n) /\ InOrder(n, newest)
  BY <1>4 DEF BoxOK, Counted, NothingBehind, InOrder
<1>6. Authorised(n)
  <2>1. Authorised(m)
    BY DEF BoxOK
  <2>2. \A j \in 1 .. Len(n.queue) :
          \E k \in 1 .. m.num_senders : m.senders[k] = n.queue[j].sender_id
    BY <1>4, <2>1 DEF Authorised
  <2>3. /\ SameRights(m, n) /\ n.senders = m.senders /\ n.num_senders = m.num_senders
    BY <1>4
  <2> QED
    BY <2>1, <2>2, <2>3, AuthorisedFrom
<1> QED
  BY <1>4, <1>5, <1>6 DEF BoxOK

LEMMA HandedOverFields ==
  ASSUME NEW m, m \in MailBoxes, NEW n, NEW id, id \in 0 .. MaxMsg, n = HandedOver(m, id)
  PROVE  /\ n \in MailBoxes /\ SameRights(m, n)
         /\ n.owner_pid = m.owner_pid /\ n.mb_id = m.mb_id
         /\ n.senders = m.senders /\ n.num_senders = m.num_senders
         /\ n.rx_suspended = m.rx_suspended /\ n.queue = m.queue
         /\ n.num_messages = m.num_messages /\ n.last_out = id
BY DEF HandedOver, MailBoxes, SameRights

LEMMA HandedOverBoxOK ==
  ASSUME NEW msg \in Messages, NEW m, BoxOK(m, msg.id), m.rx_suspended, NEW n,
         n = HandedOver(m, msg.id)
  PROVE  BoxOK(n, msg.id) /\ n.owner_pid = m.owner_pid /\ n.mb_id = m.mb_id
<1>1. m \in MailBoxes /\ m.queue = <<>>
  BY DEF BoxOK, NothingBehind
<1>3. msg.id \in 0 .. MaxMsg /\ msg.id \in Nat
  BY MaxMsgAssumption DEF Messages
<1>4. /\ n \in MailBoxes /\ SameRights(m, n)
      /\ n.owner_pid = m.owner_pid /\ n.mb_id = m.mb_id
      /\ n.senders = m.senders /\ n.num_senders = m.num_senders
      /\ n.rx_suspended = m.rx_suspended /\ n.queue = m.queue
      /\ n.num_messages = m.num_messages /\ n.last_out = msg.id
  BY <1>1, <1>3, HandedOverFields
<1>5. Counted(n) /\ NothingBehind(n) /\ InOrder(n, msg.id)
  BY <1>1, <1>3, <1>4 DEF BoxOK, Counted, NothingBehind, InOrder
<1>6. Authorised(n)
  <2>1. Authorised(m)
    BY DEF BoxOK
  <2>2. \A j \in 1 .. Len(n.queue) :
          \E k \in 1 .. m.num_senders : m.senders[k] = n.queue[j].sender_id
    BY <1>4, <2>1 DEF Authorised
  <2>3. /\ SameRights(m, n) /\ n.senders = m.senders /\ n.num_senders = m.num_senders
    BY <1>4
  <2> QED
    BY <2>1, <2>2, <2>3, AuthorisedFrom
<1> QED
  BY <1>4, <1>5, <1>6 DEF BoxOK

LEMMA QueuedFields ==
  ASSUME NEW m, m \in MailBoxes, NEW n, NEW msg \in Messages, n = Queued(m, msg)
  PROVE  /\ n \in MailBoxes /\ SameRights(m, n)
         /\ n.owner_pid = m.owner_pid /\ n.mb_id = m.mb_id
         /\ n.senders = m.senders /\ n.num_senders = m.num_senders
         /\ n.rx_suspended = m.rx_suspended /\ n.queue = Append(m.queue, msg)
         /\ n.num_messages = m.num_messages + 1 /\ n.last_out = m.last_out
<1>1. Append(m.queue, msg) \in Seq(Messages) /\ m.num_messages + 1 \in Nat
  BY DEF MailBoxes
<1> QED
  BY <1>1 DEF Queued, MailBoxes, SameRights

LEMMA QueuedBoxOK ==
  ASSUME NEW msg \in Messages, NEW m, BoxOK(m, msg.id), ~m.rx_suspended,
         m.num_messages < MB_CAPACITY,
         \E k \in 1 .. m.num_senders : m.senders[k] = msg.sender_id, NEW n,
         n = Queued(m, msg)
  PROVE  BoxOK(n, msg.id) /\ n.owner_pid = m.owner_pid /\ n.mb_id = m.mb_id
<1>1. m \in MailBoxes
  BY DEF BoxOK
<1>3. m.queue \in Seq(Messages) /\ m.num_messages \in Nat
  BY <1>1, BoxFields
<1>4. Append(m.queue, msg) \in Seq(Messages) /\ m.num_messages + 1 \in Nat
  BY <1>3
<1>5. /\ n \in MailBoxes /\ SameRights(m, n)
      /\ n.owner_pid = m.owner_pid /\ n.mb_id = m.mb_id
      /\ n.senders = m.senders /\ n.num_senders = m.num_senders
      /\ n.rx_suspended = m.rx_suspended /\ n.queue = Append(m.queue, msg)
      /\ n.num_messages = m.num_messages + 1 /\ n.last_out = m.last_out
  BY <1>1, <1>4, QueuedFields
<1>6. /\ Len(n.queue) = Len(m.queue) + 1 /\ Len(m.queue) \in Nat
      /\ n.queue[Len(m.queue) + 1] = msg
      /\ \A j \in 1 .. Len(m.queue) : n.queue[j] = m.queue[j]
  BY <1>3, <1>5
<1>7. Counted(n) /\ NothingBehind(n)
  BY <1>3, <1>5, <1>6, CapacityAssumption DEF BoxOK, Counted, NothingBehind
<1>8. \A j \in 1 .. Len(n.queue) : j \in 1 .. Len(m.queue) \/ j = Len(m.queue) + 1
  BY <1>6
<1>9. InOrder(n, msg.id)
  <2>1. m.last_out \in Nat /\ msg.id \in Nat
    BY <1>1, BoxFields, MaxMsgAssumption DEF Messages
  <2>2. InOrder(m, msg.id)
    BY DEF BoxOK
  <2>3. ASSUME NEW j \in 1 .. Len(n.queue)
        PROVE  n.last_out <= n.queue[j].id /\ n.queue[j].id <= msg.id
    BY <1>5, <1>6, <1>8, <2>1, <2>2 DEF InOrder
  <2>4. ASSUME NEW j \in 1 .. Len(n.queue), NEW k \in 1 .. Len(n.queue), j <= k
        PROVE  n.queue[j].id <= n.queue[k].id
    <3>1. CASE k \in 1 .. Len(m.queue)
      <4>1. j \in 1 .. Len(m.queue)
        BY <1>6, <2>4, <3>1
      <4> QED
        BY <1>6, <2>2, <2>4, <3>1, <4>1 DEF InOrder
    <3>2. CASE k = Len(m.queue) + 1
      BY <1>6, <2>3, <3>2
    <3> QED
      BY <1>8, <3>1, <3>2
  <2> QED
    BY <1>5, <2>2, <2>3, <2>4 DEF InOrder
<1>10. Authorised(n)
  <2>1. Authorised(m)
    BY DEF BoxOK
  <2>2. ASSUME NEW j \in 1 .. Len(n.queue)
        PROVE  \E k \in 1 .. m.num_senders : m.senders[k] = n.queue[j].sender_id
    <3>1. CASE j \in 1 .. Len(m.queue)
      BY <1>6, <2>1, <3>1 DEF Authorised
    <3>2. CASE j = Len(m.queue) + 1
      BY <1>6, <3>2
    <3> QED
      BY <1>8, <3>1, <3>2
  <2> QED
    BY <1>5, <2>1, <2>2, AuthorisedFrom
<1> QED
  BY <1>5, <1>7, <1>9, <1>10 DEF BoxOK

LEMMA WaitingFields ==
  ASSUME NEW m, m \in MailBoxes, NEW n, n = Waiting(m)
  PROVE  /\ n \in MailBoxes /\ SameRights(m, n)
         /\ n.owner_pid = m.owner_pid /\ n.mb_id = m.mb_id
         /\ n.senders = m.senders /\ n.num_senders = m.num_senders
         /\ n.rx_suspended = TRUE /\ n.queue = m.queue
         /\ n.num_messages = m.num_messages /\ n.last_out = m.last_out
BY DEF Waiting, MailBoxes, SameRights

LEMMA WaitingBoxOK ==
  ASSUME NEW newest \in Nat, NEW m, BoxOK(m, newest), m.queue = <<>>, NEW n,
         n = Waiting(m)
  PROVE  BoxOK(n, newest) /\ n.owner_pid = m.owner_pid /\ n.mb_id = m.mb_id
<1>1. m \in MailBoxes
  BY DEF BoxOK
<1>3. /\ n \in MailBoxes /\ SameRights(m, n)
      /\ n.owner_pid = m.owner_pid /\ n.mb_id = m.mb_id
      /\ n.senders = m.senders /\ n.num_senders = m.num_senders
      /\ n.rx_suspended = TRUE /\ n.queue = m.queue
      /\ n.num_messages = m.num_messages /\ n.last_out = m.last_out
  BY <1>1, WaitingFields
<1>4. Counted(n) /\ NothingBehind(n) /\ InOrder(n, newest)
  BY <1>3 DEF BoxOK, Counted, NothingBehind, InOrder
<1>5. Authorised(n)
  <2>1. Authorised(m)
    BY DEF BoxOK
  <2>2. \A j \in 1 .. Len(n.queue) :
          \E k \in 1 .. m.num_senders : m.senders[k] = n.queue[j].sender_id
    BY <1>3, <2>1 DEF Authorised
  <2>3. /\ SameRights(m, n) /\ n.senders = m.senders /\ n.num_senders = m.num_senders
    BY <1>3
  <2> QED
    BY <2>1, <2>2, <2>3, AuthorisedFrom
<1> QED
  BY <1>3, <1>4, <1>5 DEF BoxOK

LEMMA EmptiedFields ==
  ASSUME NEW m, m \in MailBoxes, NEW n, n = Emptied(m), m.num_messages - 1 \in Nat,
         Tail(m.queue) \in Seq(Messages), Head(m.queue).id \in 0 .. MaxMsg
  PROVE  /\ n \in MailBoxes /\ SameRights(m, n)
         /\ n.owner_pid = m.owner_pid /\ n.mb_id = m.mb_id
         /\ n.senders = m.senders /\ n.num_senders = m.num_senders
         /\ n.rx_suspended = FALSE /\ n.queue = Tail(m.queue)
         /\ n.num_messages = m.num_messages - 1 /\ n.last_out = Head(m.queue).id
BY DEF Emptied, getMsg, MailBoxes, SameRights

LEMMA EmptiedBoxOK ==
  ASSUME NEW newest \in Nat, NEW m, BoxOK(m, newest), m.queue # <<>>, NEW n,
         n = Emptied(m)
  PROVE  BoxOK(n, newest) /\ n.owner_pid = m.owner_pid /\ n.mb_id = m.mb_id
<1>1. m \in MailBoxes
  BY DEF BoxOK
<1>3. /\ m.queue \in Seq(Messages) /\ Len(m.queue) \in Nat \ {0}
      /\ m.num_messages = Len(m.queue) /\ m.num_messages <= MB_CAPACITY
  BY <1>1, BoxFields DEF BoxOK, Counted
<1>2. Tail(m.queue) \in Seq(Messages)
  BY <1>3
<1>4. PICK rest : rest = Tail(m.queue) /\ rest \in Seq(Messages)
  BY <1>2
<1>5. Len(rest) = Len(m.queue) - 1 /\ \A j \in 1 .. Len(rest) : rest[j] = m.queue[j + 1]
  BY <1>3, <1>4
<1>6. PICK first \in Messages : first = Head(m.queue) /\ first = m.queue[1]
  BY <1>3
<1>7. first.id \in 0 .. MaxMsg /\ first.id \in Nat
  BY MaxMsgAssumption DEF Messages
<1>8. /\ n \in MailBoxes /\ SameRights(m, n)
      /\ n.owner_pid = m.owner_pid /\ n.mb_id = m.mb_id
      /\ n.senders = m.senders /\ n.num_senders = m.num_senders
      /\ n.rx_suspended = FALSE /\ n.queue = rest
      /\ n.num_messages = Len(m.queue) - 1 /\ n.last_out = first.id
  <2>1. Len(m.queue) - 1 \in Nat
    BY <1>3
  <2> QED
    BY <1>1, <1>3, <1>4, <1>6, <1>7, <2>1, EmptiedFields
<1>9. Counted(n) /\ NothingBehind(n)
  BY <1>3, <1>5, <1>8, CapacityAssumption DEF Counted, NothingBehind
<1>10. \A j \in 1 .. Len(rest) : j + 1 \in 1 .. Len(m.queue)
  BY <1>3, <1>5
<1>11. InOrder(n, newest)
  <2>1. InOrder(m, newest)
    BY DEF BoxOK
  <2>2. 1 \in 1 .. Len(m.queue)
    BY <1>3
  <2>3. n.last_out <= newest
    BY <1>6, <1>8, <2>1, <2>2 DEF InOrder
  <2>4. ASSUME NEW j \in 1 .. Len(rest)
        PROVE  first.id <= rest[j].id /\ rest[j].id <= newest
    <3>1. PICK i \in 1 .. Len(m.queue) : i = j + 1 /\ 1 <= i
      BY <1>10
    <3>2. m.queue[1].id <= m.queue[i].id /\ m.queue[i].id <= newest
      BY <2>1, <2>2, <3>1 DEF InOrder
    <3> QED
      BY <1>5, <1>6, <3>1, <3>2
  <2>5. ASSUME NEW j \in 1 .. Len(rest), NEW k \in 1 .. Len(rest), j <= k
        PROVE  rest[j].id <= rest[k].id
    <3>1. m.queue[j + 1].id <= m.queue[k + 1].id
      BY <1>10, <2>1, <2>5 DEF InOrder
    <3> QED
      BY <1>5, <3>1
  <2> QED
    BY <1>8, <2>3, <2>4, <2>5 DEF InOrder
<1>12. Authorised(n)
  <2>1. Authorised(m)
    BY DEF BoxOK
  <2>2. ASSUME NEW j \in 1 .. Len(n.queue)
        PROVE  \E k \in 1 .. m.num_senders : m.senders[k] = n.queue[j].sender_id
    BY <1>5, <1>8, <1>10, <2>1 DEF Authorised
  <2> QED
    BY <1>8, <2>1, <2>2, AuthorisedFrom
<1> QED
  BY <1>8, <1>9, <1>11, <1>12 DEF BoxOK

-----------------------------------------------------------------------------
(* The invariant.                                                          *)

\* Creation takes the lowest id and a destroyed slot keeps its record.
FilledInOrder ==
  \A i, j \in Ids : mbList[i] = NoMailBox /\ i < j => mbList[j] = NoMailBox

BoxesOK == \A i \in Ids : mbList[i] # NoMailBox => BoxOK(mbList[i], sent)

\* set_sender_local_id looks for an entry -1 in a table nobody puts one in.
NoSenderIds == \A k \in SenderSlots : senderDB[k] = 0

TableOK == /\ mbList \in [Ids -> MailBoxes \cup {NoMailBox}]
           /\ mb_id_pool \subseteq Ids
           /\ senderDB \in [SenderSlots -> Int]
           /\ PoolMatchesTable
           /\ FilledInOrder
           /\ BoxesOK
           /\ NoSenderIds

\* The message being delivered is the newest one, from the process served.
MailOK == /\ mail \in [msg : Messages, dest : Seq(Proc), sus : Seq(Ids)] \cup {NoMail}
          /\ At("sending") => /\ mail.msg \in Messages
                               /\ Len(mail.dest) + Len(mail.sus) <= MAX_DEST
                               /\ mail.msg.id = sent
                               /\ mail.msg.sender_id = handler.caller

MailboxInv == /\ WGTypeOK
              /\ TableOK
              /\ MailOK
              /\ sent \in 0 .. MaxMsg

LEMMA InitMailboxInv == Init => MailboxInv
<1> SUFFICES ASSUME Init PROVE MailboxInv
  OBVIOUS
<1>1. WGTypeOK /\ handler.pc = "idle"
  BY InitTypeOK DEF Init, WGInit, Idle
<1>2. \A i \in Ids : mbList[i] = NoMailBox
  BY DEF Init
<1>3. NoMailBox.owner_pid = NoPid /\ NoMailBox.mb_id = NoId /\ NoPid \notin Proc
  BY ProcAssumption DEF NoMailBox, NoPid
<1>4. /\ mbList \in [Ids -> MailBoxes \cup {NoMailBox}]
      /\ mb_id_pool = {}
      /\ senderDB \in [SenderSlots -> Int]
      /\ \A k \in SenderSlots : senderDB[k] = 0
  BY DEF Init
<1>5. PoolMatchesTable /\ FilledInOrder /\ BoxesOK
  BY <1>2, <1>3, <1>4 DEF PoolMatchesTable, FilledInOrder, BoxesOK
<1>6. TableOK
  BY <1>4, <1>5 DEF TableOK, NoSenderIds
<1>7. MailOK /\ sent \in 0 .. MaxMsg
  BY <1>1, MaxMsgAssumption DEF Init, MailOK, At
<1> QED
  BY <1>1, <1>6, <1>7 DEF MailboxInv

(* A later message leaves a mailbox in order.                              *)
LEMMA BoxOKLater ==
  ASSUME NEW m, NEW k \in Nat, NEW l \in Nat, k <= l, BoxOK(m, k)
  PROVE  BoxOK(m, l)
<1>1. m \in MailBoxes /\ InOrder(m, k)
  BY DEF BoxOK
<1>2. m.last_out \in Nat /\ m.queue \in Seq(Messages)
  BY <1>1, BoxFields, MaxMsgAssumption
<1>3. \A j \in 1 .. Len(m.queue) : m.queue[j].id \in Nat
  <2>1. \A msg \in Messages : msg.id \in Nat
    BY MaxMsgAssumption DEF Messages
  <2>2. \A j \in 1 .. Len(m.queue) : m.queue[j] \in Messages
    BY <1>2
  <2> QED
    BY <2>1, <2>2
<1>4. InOrder(m, l)
  BY <1>1, <1>2, <1>3 DEF InOrder
<1> QED
  BY <1>4 DEF BoxOK

(* A step that does not write the table.                                   *)
LEMMA TableKept ==
  ASSUME TableOK, UNCHANGED <<mbList, mb_id_pool, senderDB>>,
         sent \in Nat, sent' \in Nat, sent <= sent'
  PROVE  TableOK'
<1>1. BoxesOK'
  BY BoxOKLater DEF TableOK, BoxesOK
<1> QED
  BY <1>1 DEF TableOK, PoolMatchesTable, FilledInOrder, NoSenderIds

(* A step that writes the record of one mailbox, but not whose it is.      *)
LEMMA BoxUpdated ==
  ASSUME TableOK, NEW id \in Ids, mbList[id] # NoMailBox, NEW n, BoxOK(n, sent),
         n.owner_pid = mbList[id].owner_pid, n.mb_id = mbList[id].mb_id,
         mbList' = [mbList EXCEPT ![id] = n],
         UNCHANGED <<mb_id_pool, senderDB, sent>>
  PROVE  TableOK'
<1>1. n \in MailBoxes /\ n # NoMailBox
  BY NoMailBoxIsNone DEF BoxOK
<1>2. mbList'[id] = n /\ \A i \in Ids : i # id => mbList'[i] = mbList[i]
  BY DEF TableOK
<1>3. mbList' \in [Ids -> MailBoxes \cup {NoMailBox}]
  BY <1>1 DEF TableOK
<1>4. PoolMatchesTable'
  BY <1>2 DEF TableOK, PoolMatchesTable
<1>5. FilledInOrder'
  BY <1>1, <1>2 DEF TableOK, FilledInOrder
<1>6. BoxesOK'
  BY <1>2 DEF TableOK, BoxesOK
<1> QED
  BY <1>3, <1>4, <1>5, <1>6 DEF TableOK, NoSenderIds

(* The record of a mailbox that get_mb_id finds.                           *)
LEMMA FoundBox ==
  ASSUME TableOK, NEW p \in Proc, NEW id \in Ids, id = get_mb_id(p)
  PROVE  /\ mbList[id] # NoMailBox /\ mbList[id].owner_pid = p
         /\ BoxOK(mbList[id], sent)
<1>1. mbList[id].owner_pid = p
  BY GetMbId
<1>2. NoMailBox.owner_pid \notin Proc
  BY ProcAssumption DEF NoMailBox, NoPid
<1> QED
  BY <1>1, <1>2 DEF TableOK, BoxesOK

(* get_sender_local_id finds the caller's mailbox or nothing.              *)
LEMMA LocalIds ==
  ASSUME TableOK, NEW p \in Proc
  PROVE  get_sender_local_id(p) \in Ids \cup {NoId}
<1>1. {i \in SenderSlots : senderDB[i] = p} = {}
  BY ProcAssumption DEF TableOK, NoSenderIds
<1>2. get_mb_id(p) \in Ids \cup {NoId} /\ NoId \notin Ids
  BY GetMbId DEF Ids, NoId
<1> QED
  BY <1>1, <1>2 DEF get_sender_local_id

-----------------------------------------------------------------------------
(* Each handler keeps the table.                                           *)

LEMMA CreateKeeps ==
  ASSUME MailboxInv, NEW p \in Proc, NEW perm \in Permissions, do_create_mailbox(p, perm)
  PROVE  TableOK'
<1>1. /\ TableOK /\ mb_id_pool # Ids /\ mb_id_pool \subseteq Ids /\ sent \in Nat
      /\ UNCHANGED <<senderDB, sent>>
  BY MaxMsgAssumption DEF MailboxInv, TableOK, do_create_mailbox
<1>2. PICK id \in Ids : /\ id = get_free_id /\ id \notin mb_id_pool
                        /\ \A i \in Ids \ mb_id_pool : id <= i
  BY <1>1, GetFreeId
<1>3. PICK n : n = create_mailbox(p, id, perm)
  OBVIOUS
<1>4. /\ BoxOK(n, sent) /\ n.owner_pid = p /\ n.mb_id = id
      /\ n \in MailBoxes /\ n # NoMailBox
  BY <1>1, <1>3, CreatedBoxOK, NoMailBoxIsNone DEF BoxOK
<1>5. mb_id_pool' = mb_id_pool \cup {id} /\ mbList' = [mbList EXCEPT ![id] = n]
  BY <1>2, <1>3 DEF do_create_mailbox
<1>6. mbList'[id] = n /\ \A i \in Ids : i # id => mbList'[i] = mbList[i]
  BY <1>1, <1>5 DEF TableOK
<1>7. mbList' \in [Ids -> MailBoxes \cup {NoMailBox}] /\ mb_id_pool' \subseteq Ids
  BY <1>1, <1>4, <1>5 DEF TableOK
<1>8. PoolMatchesTable'
  <2>1. ASSUME NEW i \in Ids
        PROVE  /\ i \in mb_id_pool' <=> mbList'[i].owner_pid \in Proc
               /\ mbList'[i].mb_id = (IF i \in mb_id_pool' THEN i ELSE NoId)
    <3>1. CASE i = id
      BY <1>4, <1>5, <1>6, <3>1
    <3>2. CASE i # id
      <4>1. i \in mb_id_pool' <=> i \in mb_id_pool
        BY <1>5, <3>2
      <4> QED
        BY <1>1, <1>6, <3>2, <4>1 DEF TableOK, PoolMatchesTable
    <3> QED
      BY <3>1, <3>2
  <2> QED
    BY <2>1 DEF PoolMatchesTable
<1>9. FilledInOrder'
  <2>1. ASSUME NEW i \in Ids, NEW j \in Ids, mbList'[i] = NoMailBox, i < j
        PROVE  mbList'[j] = NoMailBox
    <3>1. i # id /\ mbList[i] = NoMailBox
      BY <1>4, <1>6, <2>1
    <3>2. i \notin mb_id_pool
      BY <1>1, <3>1, ProcAssumption DEF TableOK, PoolMatchesTable, NoMailBox, NoPid
    <3>3. id < j
      BY <1>2, <2>1, <3>2 DEF Ids
    <3> QED
      BY <1>1, <1>6, <2>1, <3>1, <3>3 DEF TableOK, FilledInOrder, Ids
  <2> QED
    BY <2>1 DEF FilledInOrder
<1>10. BoxesOK'
  BY <1>1, <1>4, <1>6 DEF TableOK, BoxesOK
<1> QED
  BY <1>1, <1>7, <1>8, <1>9, <1>10 DEF TableOK, NoSenderIds

LEMMA DestroyKeeps ==
  ASSUME MailboxInv, NEW id \in Ids, mbList[id] # NoMailBox,
         mbList' = [mbList EXCEPT ![id].owner_pid = NoPid, ![id].mb_id = NoId,
                                  ![id].num_senders = 0, ![id].num_messages = 0,
                                  ![id].queue = <<>>],
         set_free_id(id), UNCHANGED <<senderDB, sent>>
  PROVE  TableOK'
<1>1. /\ TableOK /\ BoxOK(mbList[id], sent) /\ sent \in Nat /\ mb_id_pool \subseteq Ids
  BY MaxMsgAssumption DEF MailboxInv, TableOK, BoxesOK
<1>2. PICK n : n = Destroyed(mbList[id])
  OBVIOUS
<1>3. /\ BoxOK(n, sent) /\ n.owner_pid = NoPid /\ n.mb_id = NoId
      /\ n \in MailBoxes /\ n # NoMailBox
  BY <1>1, <1>2, DestroyedBoxOK, NoMailBoxIsNone DEF BoxOK
<1>4. mbList' = [mbList EXCEPT ![id] = n]
  BY <1>1, <1>2 DEF Destroyed, TableOK
<1>5. mbList'[id] = n /\ \A i \in Ids : i # id => mbList'[i] = mbList[i]
  BY <1>1, <1>4 DEF TableOK
<1>6. mbList' \in [Ids -> MailBoxes \cup {NoMailBox}] /\ mb_id_pool' \subseteq Ids
  <2>1. mbList' \in [Ids -> MailBoxes \cup {NoMailBox}]
    BY <1>1, <1>3, <1>4 DEF TableOK
  <2> QED
    BY <1>1, <2>1 DEF set_free_id
<1>7. PoolMatchesTable'
  <2>1. ASSUME NEW i \in Ids
        PROVE  /\ i \in mb_id_pool' <=> mbList'[i].owner_pid \in Proc
               /\ mbList'[i].mb_id = (IF i \in mb_id_pool' THEN i ELSE NoId)
    <3>1. CASE i = id
      <4>1. NoPid \notin Proc
        BY ProcAssumption DEF NoPid
      <4> QED
        BY <1>3, <1>5, <3>1, <4>1 DEF set_free_id
    <3>2. CASE i # id
      <4>1. i \in mb_id_pool' <=> i \in mb_id_pool
        BY <3>2 DEF set_free_id
      <4> QED
        BY <1>1, <1>5, <3>2, <4>1 DEF TableOK, PoolMatchesTable
    <3> QED
      BY <3>1, <3>2
  <2> QED
    BY <2>1 DEF PoolMatchesTable
<1>8. FilledInOrder'
  BY <1>1, <1>3, <1>5 DEF TableOK, FilledInOrder
<1>9. BoxesOK'
  BY <1>1, <1>3, <1>5 DEF TableOK, BoxesOK
<1> QED
  BY <1>1, <1>6, <1>7, <1>8, <1>9 DEF TableOK, NoSenderIds

LEMMA RegisterKeeps ==
  ASSUME MailboxInv, NEW p \in Proc, NEW id \in Ids, mbList[id] # NoMailBox,
         Permits(mbList[id], p),
         mbList' = [mbList EXCEPT ![id].senders = Append(@, p), ![id].num_senders = @ + 1],
         set_sender_local_id(p), UNCHANGED <<mb_id_pool, sent>>
  PROVE  TableOK'
<1>1. TableOK /\ BoxOK(mbList[id], sent) /\ sent \in Nat
  BY MaxMsgAssumption DEF MailboxInv, TableOK, BoxesOK
<1>2. PICK n : n = Registered(mbList[id], p)
  OBVIOUS
<1>3. BoxOK(n, sent) /\ n.owner_pid = mbList[id].owner_pid /\ n.mb_id = mbList[id].mb_id
  BY <1>1, <1>2, RegisteredBoxOK
<1>4. mbList' = [mbList EXCEPT ![id] = n]
  BY <1>1, <1>2 DEF Registered, TableOK
<1>5. senderDB' = senderDB
  <2>1. {i \in SenderSlots : i >= MAX_MAILBOXES /\ senderDB[i] = -1} = {}
    BY <1>1 DEF TableOK, NoSenderIds
  <2> QED
    BY <2>1 DEF set_sender_local_id
<1> QED
  BY <1>1, <1>3, <1>4, <1>5, BoxUpdated

(* What the steps of a deposit may rely on.                                *)
LEMMA Delivering ==
  ASSUME MailboxInv, At("sending")
  PROVE  /\ TableOK /\ sent \in Nat
         /\ handler.caller \in Proc
         /\ mail.msg \in Messages /\ mail.msg.id = sent /\ mail.msg.sender_id = handler.caller
         /\ mail.dest \in Seq(Proc) /\ mail.sus \in Seq(Ids)
         /\ Len(mail.dest) + Len(mail.sus) <= MAX_DEST
<1>1. handler.caller \in Proc
  BY DEF MailboxInv, WGTypeOK, At, Idle, Handlers
<1>2. /\ mail.msg \in Messages /\ mail.msg.id = sent /\ mail.msg.sender_id = handler.caller
      /\ Len(mail.dest) + Len(mail.sus) <= MAX_DEST
  BY DEF MailboxInv, MailOK
<1>3. mail.dest \in Seq(Proc) /\ mail.sus \in Seq(Ids)
  <2>1. CASE mail = NoMail
    BY <2>1 DEF NoMail
  <2>2. CASE mail \in [msg : Messages, dest : Seq(Proc), sus : Seq(Ids)]
    BY <2>2
  <2> QED
    BY <2>1, <2>2 DEF MailboxInv, MailOK
<1>4. TableOK /\ sent \in Nat
  BY MaxMsgAssumption DEF MailboxInv
<1> QED
  BY <1>1, <1>2, <1>3, <1>4

(* The mailbox a deposit is at.                                            *)
LEMMA Destination ==
  ASSUME MailboxInv, NEW id \in Ids, AtDestination(id)
  PROVE  /\ mail.dest # <<>> /\ Head(mail.dest) \in Proc
         /\ mbList[id] # NoMailBox /\ mbList[id].owner_pid \in Proc
         /\ BoxOK(mbList[id], sent) /\ mbList[id] \in MailBoxes
<1>1. mail.dest # <<>> /\ mail.dest \in Seq(Proc) /\ TableOK
  BY Delivering DEF AtDestination
<1>2. Head(mail.dest) \in Proc
  BY <1>1
<1> QED
  BY <1>1, <1>2, FoundBox DEF AtDestination, BoxOK

LEMMA DepositBlocksKeeps ==
  ASSUME MailboxInv, NEW id \in Ids, ValidDestination(id),
         mbList[id].sus_sender_idx # MAX_SENDERS,
         mbList' = [mbList EXCEPT ![id].sus_sender_idx = @ + 1],
         UNCHANGED <<mb_id_pool, senderDB, sent>>
  PROVE  TableOK'
<1>1. /\ TableOK /\ sent \in Nat
      /\ BoxOK(mbList[id], sent) /\ mbList[id] # NoMailBox
  BY Delivering, Destination DEF ValidDestination, AtDestination
<1>2. PICK n : n = Noted(mbList[id])
  OBVIOUS
<1>3. BoxOK(n, sent) /\ n.owner_pid = mbList[id].owner_pid /\ n.mb_id = mbList[id].mb_id
  BY <1>1, <1>2, NotedBoxOK
<1>4. mbList' = [mbList EXCEPT ![id] = n]
  BY <1>1, <1>2 DEF Noted, TableOK
<1> QED
  BY <1>1, <1>3, <1>4, BoxUpdated

LEMMA DepositHandsOverKeeps ==
  ASSUME MailboxInv, NEW id \in Ids, ValidDestination(id), mbList[id].rx_suspended,
         mbList' = [mbList EXCEPT ![id].last_out = mail.msg.id],
         UNCHANGED <<mb_id_pool, senderDB, sent>>
  PROVE  TableOK'
<1>1. /\ TableOK /\ sent \in Nat /\ mail.msg \in Messages /\ mail.msg.id = sent
      /\ BoxOK(mbList[id], sent) /\ mbList[id] # NoMailBox
  BY Delivering, Destination DEF ValidDestination, AtDestination
<1>2. PICK n : n = HandedOver(mbList[id], mail.msg.id)
  OBVIOUS
<1>3. BoxOK(n, sent) /\ n.owner_pid = mbList[id].owner_pid /\ n.mb_id = mbList[id].mb_id
  BY <1>1, <1>2, HandedOverBoxOK
<1>4. mbList' = [mbList EXCEPT ![id] = n]
  BY <1>1, <1>2 DEF HandedOver, TableOK
<1> QED
  BY <1>1, <1>3, <1>4, BoxUpdated

LEMMA DepositQueuesKeeps ==
  ASSUME MailboxInv, NEW id \in Ids, ValidDestination(id), ~Full(id),
         ~mbList[id].rx_suspended,
         mbList' = [mbList EXCEPT ![id].queue = Append(@, mail.msg), ![id].num_messages = @ + 1],
         UNCHANGED <<mb_id_pool, senderDB, sent>>
  PROVE  TableOK'
<1>1. /\ TableOK /\ sent \in Nat /\ mail.msg \in Messages /\ mail.msg.id = sent
      /\ mail.msg.sender_id = handler.caller
      /\ BoxOK(mbList[id], sent) /\ mbList[id] # NoMailBox /\ mbList[id] \in MailBoxes
  BY Delivering, Destination DEF ValidDestination, AtDestination
<1>2. \E k \in 1 .. mbList[id].num_senders : mbList[id].senders[k] = mail.msg.sender_id
  BY <1>1 DEF ValidDestination, isValidSender
<1>3. mbList[id].num_messages < MB_CAPACITY
  <2>1. mbList[id].num_messages \in Nat
    BY <1>1, BoxFields
  <2> QED
    BY <2>1, CapacityAssumption DEF Full
<1>4. PICK n : n = Queued(mbList[id], mail.msg)
  OBVIOUS
<1>5. BoxOK(n, sent) /\ n.owner_pid = mbList[id].owner_pid /\ n.mb_id = mbList[id].mb_id
  BY <1>1, <1>2, <1>3, <1>4, QueuedBoxOK
<1>6. mbList' = [mbList EXCEPT ![id] = n]
  BY <1>1, <1>4 DEF Queued, TableOK
<1> QED
  BY <1>1, <1>5, <1>6, BoxUpdated

LEMMA RetrieveKeeps ==
  ASSUME MailboxInv, NEW p \in Proc, do_retrieve(p)
  PROVE  TableOK'
<1>1. TableOK /\ sent \in Nat /\ UNCHANGED <<mb_id_pool, senderDB, sent>>
  BY MaxMsgAssumption DEF MailboxInv, do_retrieve, Breaks, mailVars
<1>2. ASSUME NEW id \in Ids, id = get_mb_id(p), mbList[id].queue = <<>>,
             mbList' = [mbList EXCEPT ![id].rx_suspended = TRUE]
      PROVE  TableOK'
  <2>1. BoxOK(mbList[id], sent) /\ mbList[id] # NoMailBox
    BY <1>1, <1>2, FoundBox
  <2>2. PICK n : n = Waiting(mbList[id])
    OBVIOUS
  <2>3. BoxOK(n, sent) /\ n.owner_pid = mbList[id].owner_pid /\ n.mb_id = mbList[id].mb_id
    BY <1>1, <1>2, <2>1, <2>2, WaitingBoxOK
  <2>4. mbList' = [mbList EXCEPT ![id] = n]
    BY <1>1, <1>2, <2>2 DEF Waiting, TableOK
  <2> QED
    BY <1>1, <2>1, <2>3, <2>4, BoxUpdated
<1>3. ASSUME NEW id \in Ids, id = get_mb_id(p), mbList[id].queue # <<>>,
             mbList' = [mbList EXCEPT ![id] = [getMsg(@) EXCEPT !.rx_suspended = FALSE]]
      PROVE  TableOK'
  <2>1. BoxOK(mbList[id], sent) /\ mbList[id] # NoMailBox
    BY <1>1, <1>3, FoundBox
  <2>2. PICK n : n = Emptied(mbList[id])
    OBVIOUS
  <2>3. BoxOK(n, sent) /\ n.owner_pid = mbList[id].owner_pid /\ n.mb_id = mbList[id].mb_id
    BY <1>1, <1>3, <2>1, <2>2, EmptiedBoxOK
  <2>4. mbList' = [mbList EXCEPT ![id] = n]
    BY <1>1, <1>3, <2>2 DEF Emptied, TableOK
  <2> QED
    BY <1>1, <2>1, <2>3, <2>4, BoxUpdated
<1>4. CASE Breaks
  BY <1>1, <1>4, TableKept DEF Breaks, mailVars
<1> QED
  BY <1>2, <1>3, <1>4 DEF do_retrieve

-----------------------------------------------------------------------------
(* Each handler keeps the message in hand.                                 *)

LEMMA MailKept ==
  ASSUME MailOK, UNCHANGED <<mail, sent>>, At("sending")' => At("sending"),
         At("sending")' => handler' = handler
  PROVE  MailOK'
BY DEF MailOK

LEMMA MailDone ==
  ASSUME mail' = NoMail, ~At("sending")' PROVE MailOK'
BY DEF MailOK

LEMMA MailEntered ==
  ASSUME MailboxInv, NEW p \in Proc, NEW dest \in DestLists, do_deposit(p, dest)
  PROVE  MailOK' /\ sent' \in 0 .. MaxMsg /\ sent <= sent'
<1>1. dest \in Seq(Proc) /\ Len(dest) <= MAX_DEST
  BY DestAssumption DEF DestLists
<1>2. sent' = sent + 1 /\ sent' \in 1 .. MaxMsg /\ sent \in Nat
  BY MaxMsgAssumption DEF MailboxInv, do_deposit
<1>3. PICK msg : msg = [id |-> sent', sender_id |-> p]
  OBVIOUS
<1>4. msg \in Messages /\ msg.id = sent' /\ msg.sender_id = p
  BY <1>2, <1>3 DEF Messages
<1>5. mail' = [msg |-> msg, dest |-> dest, sus |-> <<>>]
  BY <1>2, <1>3 DEF do_deposit
<1>6. /\ mail' \in [msg : Messages, dest : Seq(Proc), sus : Seq(Ids)]
      /\ mail'.msg = msg /\ mail'.dest = dest /\ mail'.sus = <<>>
  BY <1>1, <1>4, <1>5
<1>7. handler'.caller = p
  BY DEF do_deposit, EnterDeposit, Idle
<1>8. Len(mail'.dest) + Len(mail'.sus) <= MAX_DEST
  BY <1>1, <1>6, DestAssumption
<1> QED
  BY <1>2, <1>4, <1>6, <1>7, <1>8, MaxMsgAssumption DEF MailOK

LEMMA TailOfSeq ==
  ASSUME NEW S, NEW s \in Seq(S), s # <<>>
  PROVE  Tail(s) \in Seq(S) /\ Len(Tail(s)) \in Nat /\ Len(Tail(s)) + 1 = Len(s)
OBVIOUS

LEMMA AppendToSeq ==
  ASSUME NEW S, NEW s \in Seq(S), NEW x \in S
  PROVE  Append(s, x) \in Seq(S) /\ Len(Append(s, x)) = Len(s) + 1
OBVIOUS

\* The step DepositBlocks takes on a full mailbox.
SuspendedFor(id) == mail' = [mail EXCEPT !.dest = Tail(@), !.sus = Append(@, id)]

LEMMA MailAdvances ==
  ASSUME MailboxInv, At("sending"), mail.dest # <<>>,
         NextDestination \/ \E id \in Ids : SuspendedFor(id),
         UNCHANGED <<sent, handler>>
  PROVE  MailOK'
<1>1. /\ mail.msg \in Messages /\ mail.msg.id = sent /\ mail.msg.sender_id = handler.caller
      /\ mail.dest \in Seq(Proc) /\ mail.sus \in Seq(Ids)
      /\ Len(mail.dest) + Len(mail.sus) <= MAX_DEST
  BY Delivering
<1>2. mail \in [msg : Messages, dest : Seq(Proc), sus : Seq(Ids)]
  <2>1. NoMail.dest = <<>>
    BY DEF NoMail
  <2> QED
    BY <2>1 DEF MailboxInv, MailOK
<1>3. PICK dest \in Seq(Proc), sus \in Seq(Ids) : dest = mail.dest /\ sus = mail.sus
  BY <1>1
<1>4. PICK rest \in Seq(Proc) : rest = Tail(dest) /\ Len(rest) + 1 = Len(dest)
  <2>1. dest # <<>>
    BY <1>3
  <2>2. Tail(dest) \in Seq(Proc) /\ Len(Tail(dest)) + 1 = Len(dest)
    BY <1>3, <2>1, TailOfSeq
  <2> QED
    BY <2>2, Zenon
<1>5. Len(rest) \in Nat /\ Len(sus) \in Nat /\ Len(rest) + 1 + Len(sus) <= MAX_DEST
  <2>1. Len(dest) + Len(sus) <= MAX_DEST
    BY <1>1, <1>3
  <2>2. Len(rest) \in Nat /\ Len(sus) \in Nat
    BY <1>3, <1>4
  <2> QED
    BY <1>4, <2>1, <2>2
<1>6. CASE NextDestination
  <2>1. mail' = [mail EXCEPT !.dest = rest]
    BY <1>3, <1>4, <1>6 DEF NextDestination
  <2>2. /\ mail' \in [msg : Messages, dest : Seq(Proc), sus : Seq(Ids)]
        /\ mail'.msg = mail.msg /\ mail'.dest = rest /\ mail'.sus = sus
    BY <1>2, <1>3, <2>1
  <2>3. Len(mail'.dest) + Len(mail'.sus) <= MAX_DEST
    <3>1. Len(rest) + Len(sus) <= MAX_DEST
      BY <1>5, DestAssumption
    <3> QED
      BY <2>2, <3>1
  <2> QED
    BY <1>1, <2>2, <2>3 DEF MailOK
<1>7. ASSUME NEW id \in Ids, SuspendedFor(id) PROVE MailOK'
  <2>1. PICK more \in Seq(Ids) : more = Append(sus, id) /\ Len(more) = Len(sus) + 1
    <3>1. Append(sus, id) \in Seq(Ids) /\ Len(Append(sus, id)) = Len(sus) + 1
      BY <1>3, <1>7, AppendToSeq
    <3> QED
      BY <3>1, Zenon
  <2>2. mail' = [mail EXCEPT !.dest = rest, !.sus = more]
    BY <1>3, <1>4, <1>7, <2>1 DEF SuspendedFor
  <2>3. /\ mail' \in [msg : Messages, dest : Seq(Proc), sus : Seq(Ids)]
        /\ mail'.msg = mail.msg /\ mail'.dest = rest /\ mail'.sus = more
    BY <1>2, <2>2
  <2>4. Len(mail'.dest) + Len(mail'.sus) <= MAX_DEST
    <3>1. Len(rest) + Len(more) <= MAX_DEST
      BY <1>5, <2>1, DestAssumption
    <3> QED
      BY <2>3, <3>1
  <2> QED
    BY <1>1, <2>3, <2>4 DEF MailOK
<1> QED
  BY <1>6, <1>7

-----------------------------------------------------------------------------
(* Every step of the handlers is a step of WaitGraph, or none of its       *)
(* business.                                                               *)

LEMMA BreaksSimulates ==
  ASSUME Breaks, At("idle") \/ At("sending") PROVE WGNext
BY DEF Breaks, OtherBreaks, WGNext

LEMMA SuspendsSimulates ==
  ASSUME MailboxInv, DepositSuspends PROVE WGNext
<1>1. /\ At("sending") /\ mail.sus # <<>>
      /\ SuspendSender(get_sender_local_id(handler.caller), mail.sus)
  BY DEF DepositSuspends
<1>2. /\ TableOK /\ handler.caller \in Proc
      /\ mail.dest \in Seq(Proc) /\ mail.sus \in Seq(Ids)
      /\ Len(mail.dest) + Len(mail.sus) <= MAX_DEST
  BY <1>1, Delivering
<1>3. get_sender_local_id(handler.caller) \in Ids \cup {NoId}
  BY <1>2, LocalIds
<1>4. PICK dest \in Seq(Proc), sus \in Seq(Ids) : dest = mail.dest /\ sus = mail.sus
  BY <1>2
<1>5. Len(sus) \in 1 .. MAX_DEST /\ sus \in [1 .. Len(sus) -> Ids]
  <2>1. sus # <<>> /\ Len(dest) + Len(sus) <= MAX_DEST
    BY <1>1, <1>2, <1>4
  <2>2. Len(dest) \in Nat /\ Len(sus) \in Nat \ {0}
    BY <1>4, <2>1
  <2>3. Len(sus) \in 1 .. MAX_DEST
    BY <2>1, <2>2, DestAssumption
  <2> QED
    BY <2>3
<1> QED
  BY <1>1, <1>3, <1>4, <1>5 DEF WGNext

LEMMA NextSimulates == MailboxInv /\ [Next]_vars => [WGNext]_wgVars
<1> SUFFICES ASSUME MailboxInv, [Next]_vars PROVE [WGNext]_wgVars
  OBVIOUS
<1>1. CASE Administration
  <2>1. UNCHANGED wgVars \/ (Breaks /\ At("idle"))
    BY <1>1 DEF Administration, do_create_mailbox, do_destroy_mailbox, do_register_mb,
                do_get_senders, do_get_av_mailboxes, Ready
  <2> QED
    BY <2>1, BreaksSimulates
<1>2. ASSUME NEW p \in Proc, do_retrieve(p) PROVE [WGNext]_wgVars
  <2>1. UNCHANGED wgVars \/ SuspendReceiver(p) \/ (Breaks /\ At("idle"))
    BY <1>2 DEF do_retrieve, Ready
  <2> QED
    BY <2>1, BreaksSimulates DEF WGNext
<1>3. ASSUME NEW p \in Proc, NEW dest \in DestLists, do_deposit(p, dest)
      PROVE  [WGNext]_wgVars
  BY <1>3 DEF do_deposit, WGNext
<1>4. CASE DepositRefused \/ DepositDone
  BY <1>4 DEF DepositRefused, DepositDone, DepositReturns, WGNext
<1>5. CASE DepositBlocks
  <2>1. UNCHANGED wgVars \/ (Breaks /\ At("sending"))
    BY <1>5 DEF DepositBlocks, ValidDestination, AtDestination
  <2> QED
    BY <2>1, BreaksSimulates
<1>6. CASE DepositHandsOver
  <2>1. PICK id \in Ids : ValidDestination(id) /\ WakeReceiver(mbList[id].owner_pid)
    BY <1>6 DEF DepositHandsOver
  <2>2. mbList[id].owner_pid \in Proc
    BY <2>1, Destination DEF ValidDestination
  <2> QED
    BY <2>1, <2>2 DEF WGNext
<1>7. CASE DepositQueues
  BY <1>7 DEF DepositQueues
<1>8. CASE DepositLooksUp
  BY <1>8, BreaksSimulates DEF DepositLooksUp
<1>9. CASE DeadlockWalk
  BY <1>9 DEF DeadlockWalk, WGNext
<1>10. CASE UNCHANGED vars
  BY <1>10 DEF vars
<1>11. CASE DepositStep
  BY <1>4, <1>5, <1>6, <1>7, <1>8, <1>9, <1>11, SuspendsSimulates DEF DepositStep
<1> QED
  BY <1>1, <1>2, <1>3, <1>10, <1>11 DEF Next

-----------------------------------------------------------------------------
(* Every step keeps the invariant.                                         *)

LEMMA AdministrationKeeps ==
  ASSUME MailboxInv, Administration
  PROVE  TableOK' /\ MailOK' /\ sent' = sent
<1>1. TableOK /\ MailOK /\ sent \in Nat
  BY MaxMsgAssumption DEF MailboxInv
<1>2. MailOK' /\ sent' = sent
  <2>1. At("idle") /\ (Breaks \/ UNCHANGED <<wgVars, mail, sent>>)
    BY DEF Administration, do_create_mailbox, do_destroy_mailbox, do_register_mb,
           do_get_senders, do_get_av_mailboxes, Ready
  <2>2. UNCHANGED <<mail, sent, handler>>
    BY <2>1 DEF Breaks, Undefined, wgVars, mailVars
  <2> QED
    BY <1>1, <2>1, <2>2, MailKept DEF At
<1>3. CASE Breaks
  <2>1. UNCHANGED <<mbList, mb_id_pool, senderDB>> /\ sent' \in Nat /\ sent <= sent'
    BY <1>1, <1>2, <1>3 DEF Breaks, mailVars
  <2> QED
    BY <1>1, <1>2, <2>1, TableKept
<1>4. ASSUME NEW p \in Proc, NEW perm \in Permissions, do_create_mailbox(p, perm)
      PROVE  TableOK'
  BY <1>4, CreateKeeps
<1>5. ASSUME NEW p \in Proc, NEW id \in Ids \cup BadIds, do_destroy_mailbox(p, id)
      PROVE  TableOK'
  BY <1>3, <1>5, DestroyKeeps DEF do_destroy_mailbox
<1>6. ASSUME NEW p \in Proc, NEW id \in Ids \cup BadIds, do_register_mb(p, id)
      PROVE  TableOK'
  BY <1>3, <1>6, RegisterKeeps DEF do_register_mb
<1> QED
  BY <1>2, <1>3, <1>4, <1>5, <1>6
  DEF Administration, do_get_senders, do_get_av_mailboxes

LEMMA DepositStepKeeps ==
  ASSUME MailboxInv, DepositStep
  PROVE  TableOK' /\ MailOK' /\ sent' = sent
<1>1. TableOK /\ MailOK /\ sent \in Nat
  BY MaxMsgAssumption DEF MailboxInv
<1>2. CASE DepositRefused \/ DepositDone
  <2>1. DepositReturns
    BY <1>2 DEF DepositRefused, DepositDone
  <2>2. ~At("sending")'
    BY <2>1 DEF DepositReturns, LeaveDeposit, At, Idle
  <2> QED
    BY <1>1, <2>1, <2>2, TableKept, MailDone DEF DepositReturns
<1>3. CASE DepositSuspends
  <2>1. handler \in Handlers
    BY <1>3 DEF DepositSuspends, At, MailboxInv, WGTypeOK, Idle
  <2>2. ~At("sending")'
    BY <1>3, <2>1 DEF DepositSuspends, SuspendSender, Undefined, At, Handlers
  <2> QED
    BY <1>1, <1>3, <2>2, TableKept, MailDone DEF DepositSuspends
<1>4. CASE Breaks
  <2>1. ~At("sending")'
    BY <1>4 DEF Breaks, Undefined, At
  <2> QED
    BY <1>1, <1>4, <2>1, TableKept, MailKept DEF Breaks, mailVars
<1>5. CASE DepositBlocks
  <2>1. PICK id \in Ids :
          /\ ValidDestination(id) /\ Full(id)
          /\ IF mbList[id].sus_sender_idx = MAX_SENDERS
             THEN Breaks
             ELSE /\ mbList' = [mbList EXCEPT ![id].sus_sender_idx = @ + 1]
                  /\ mail' = [mail EXCEPT !.dest = Tail(@), !.sus = Append(@, id)]
                  /\ UNCHANGED <<wgVars, mb_id_pool, senderDB, sent>>
    BY <1>5 DEF DepositBlocks
  <2>2. CASE mbList[id].sus_sender_idx # MAX_SENDERS
    <3>1. At("sending") /\ mail.dest # <<>> /\ UNCHANGED <<sent, handler>>
      BY <2>1, <2>2 DEF ValidDestination, AtDestination, wgVars
    <3>2. mail' = [mail EXCEPT !.dest = Tail(@), !.sus = Append(@, id)]
      BY <2>1, <2>2
    <3>3. MailOK'
      BY <3>1, <3>2, MailAdvances DEF SuspendedFor
    <3>4. TableOK'
      BY <2>1, <2>2, DepositBlocksKeeps
    <3> QED
      BY <3>1, <3>3, <3>4
  <2> QED
    BY <1>4, <2>1, <2>2
<1>6. CASE DepositHandsOver \/ DepositQueues
  <2>1. PICK id \in Ids :
          /\ ValidDestination(id) /\ ~Full(id)
          /\ \/ /\ mbList[id].rx_suspended
                /\ mbList' = [mbList EXCEPT ![id].last_out = mail.msg.id]
             \/ /\ ~mbList[id].rx_suspended
                /\ mbList' = [mbList EXCEPT ![id].queue = Append(@, mail.msg),
                                            ![id].num_messages = @ + 1]
          /\ UNCHANGED handler
          /\ NextDestination
          /\ UNCHANGED <<mb_id_pool, senderDB, sent>>
    BY <1>6 DEF DepositHandsOver, DepositQueues, WakeReceiver, wgVars
  <2>2. At("sending") /\ mail.dest # <<>>
    BY <2>1 DEF ValidDestination, AtDestination
  <2>3. MailOK'
    BY <2>1, <2>2, MailAdvances
  <2>4. TableOK'
    BY <2>1, DepositHandsOverKeeps, DepositQueuesKeeps
  <2> QED
    BY <2>1, <2>3, <2>4
<1>7. CASE DeadlockWalk
  <2>1. handler \in Handlers /\ handler.pc \in {"check", "indicate"}
    BY <1>7 DEF DeadlockWalk, CheckStep, IndicateStep, At, MailboxInv, WGTypeOK, Idle
  <2>2. ASSUME CheckStep PROVE handler'.pc # "sending"
    BY <2>1, <2>2 DEF CheckStep, Idle, Handlers
  <2>3. ASSUME NEW next, NEW Q, IndicateGoesOn(next, Q)
        PROVE  handler'.pc # "sending"
    BY <2>1, <2>3 DEF IndicateGoesOn, IndicateReturns, Idle, Handlers
  <2>4. ASSUME IndicateStep PROVE handler'.pc # "sending"
    <3>1. \/ \E Q : IndicateReturns(Q)
          \/ \E next, Q : IndicateGoesOn(next, Q)
      BY <2>4 DEF IndicateStep
    <3>2. ASSUME NEW Q, IndicateReturns(Q) PROVE handler'.pc # "sending"
      BY <3>2 DEF IndicateReturns, Idle
    <3> QED
      BY <2>3, <3>1, <3>2
  <2>5. handler'.pc # "sending"
    BY <1>7, <2>2, <2>4 DEF DeadlockWalk
  <2> QED
    BY <1>1, <1>7, <2>5, TableKept, MailKept DEF DeadlockWalk, mailVars, At
<1> QED
  BY <1>2, <1>3, <1>4, <1>5, <1>6, <1>7 DEF DepositStep, DepositLooksUp

LEMMA NextMailboxInv == MailboxInv /\ [Next]_vars => MailboxInv'
<1> SUFFICES ASSUME MailboxInv, [Next]_vars PROVE MailboxInv'
  OBVIOUS
<1>1. WGTypeOK'
  BY NextSimulates, NextTypeOK DEF MailboxInv
<1>2. sent \in 0 .. MaxMsg /\ TableOK /\ MailOK /\ sent \in Nat
  BY MaxMsgAssumption DEF MailboxInv
<1>3. TableOK' /\ MailOK' /\ sent' \in 0 .. MaxMsg
  <2>1. CASE Administration \/ DepositStep
    BY <1>2, <2>1, AdministrationKeeps, DepositStepKeeps
  <2>2. ASSUME NEW p \in Proc, do_retrieve(p) PROVE TableOK' /\ MailOK' /\ sent' = sent
    <3>1. UNCHANGED <<mail, sent, handler>> /\ At("idle")
      BY <2>2 DEF do_retrieve, Ready, SuspendReceiver, Breaks, Undefined, wgVars, mailVars
    <3>2. MailOK'
      BY <1>2, <3>1, MailKept DEF At
    <3> QED
      BY <2>2, <3>1, <3>2, RetrieveKeeps
  <2>3. ASSUME NEW p \in Proc, NEW dest \in DestLists, do_deposit(p, dest)
        PROVE  TableOK' /\ MailOK' /\ sent' \in 0 .. MaxMsg
    <3>1. MailOK' /\ sent' \in 0 .. MaxMsg /\ sent <= sent' /\ sent' \in Nat
      BY <2>3, MailEntered, MaxMsgAssumption
    <3> QED
      BY <1>2, <2>3, <3>1, TableKept DEF do_deposit
  <2>4. CASE UNCHANGED vars
    BY <1>2, <2>4, TableKept, MailKept DEF vars, wgVars, mailVars, At
  <2> QED
    BY <1>2, <2>1, <2>2, <2>3, <2>4 DEF Next
<1> QED
  BY <1>1, <1>3 DEF MailboxInv

LEMMA AlwaysMailboxInv == Spec => []MailboxInv
BY InitMailboxInv, NextMailboxInv, PTL DEF Spec

-----------------------------------------------------------------------------
(* The results.                                                            *)

(* The handlers keep every table and message well-formed.                  *)
THEOREM TypeCorrect == Spec => []TypeOK
<1>1. MailboxInv => TypeOK
  BY DEF MailboxInv, TableOK, MailOK, TypeOK
<1> QED
  BY <1>1, AlwaysMailboxInv, PTL

(* The handlers of Mailbox implement WaitGraph: whatever they do to the    *)
(* table of suspended senders and to the processes, WaitGraph allows.      *)
THEOREM ImplementsWaitGraph == Spec => WGSafety
<1>1. Init => WGInit
  BY DEF Init
<1>2. MailboxInv /\ [Next]_vars => [WGNext]_wgVars
  BY NextSimulates
<1> QED
  BY <1>1, <1>2, AlwaysMailboxInv, PTL DEF Spec, WGSafety

(* So no deposit leaves a cycle of waiting senders behind.                 *)
THEOREM NoCycleIsLeft == Spec => []NoWaitCycle
BY ImplementsWaitGraph, WaitCyclesAreBroken, PTL

(* The id pool, the owners and the ids in the table always agree.          *)
THEOREM PoolAgrees == Spec => []PoolMatchesTable
<1>1. MailboxInv => PoolMatchesTable
  BY DEF MailboxInv, TableOK
<1> QED
  BY <1>1, AlwaysMailboxInv, PTL

(* The search for a mailbox never dereferences NULL if there is one.       *)
THEOREM OwnersAreAlwaysFound == Spec => []OwnersAreFound
<1>1. MailboxInv => OwnersAreFound
  <2> SUFFICES ASSUME MailboxInv, NEW p \in Proc, OwnedBy(p) # {}, DereferencesNull(p)
               PROVE  FALSE
    BY DEF OwnersAreFound
  <2>1. PICK j \in Ids : j \in OwnedBy(p) /\ mbList[j].owner_pid = p
    BY DEF OwnedBy
  <2>2. PICK i \in Ids : mbList[i] = NoMailBox /\ i < j
    BY <2>1 DEF DereferencesNull
  <2>3. mbList[j] = NoMailBox
    BY <2>2 DEF MailboxInv, TableOK, FilledInOrder
  <2> QED
    BY <2>1, <2>3, ProcAssumption DEF NoMailBox, NoPid
<1> QED
  BY <1>1, AlwaysMailboxInv, PTL

(* num_messages counts the list of every mailbox and stays in capacity.    *)
THEOREM QueuesAreCounted == Spec => []QueueCounted
<1>1. MailboxInv => QueueCounted
  BY DEF MailboxInv, TableOK, BoxesOK, BoxOK, Counted, QueueCounted
<1> QED
  BY <1>1, AlwaysMailboxInv, PTL

(* A mailbox with a waiting receiver holds no mail, and a mailbox gives    *)
(* its mail out in the order of the deposits.                              *)
THEOREM MailInOrder == Spec => [](NoMailBehindReceiver /\ FifoOrder)
<1>1. MailboxInv => NoMailBehindReceiver /\ FifoOrder
  <2> SUFFICES ASSUME MailboxInv, NEW i \in mb_id_pool
               PROVE  BoxOK(mbList[i], sent)
    BY DEF NoMailBehindReceiver, FifoOrder, BoxOK, NothingBehind, InOrder
  <2>1. i \in Ids /\ mbList[i].owner_pid \in Proc
    BY DEF MailboxInv, TableOK, PoolMatchesTable
  <2>2. mbList[i] # NoMailBox
    BY <2>1, ProcAssumption DEF NoMailBox, NoPid
  <2> QED
    BY <2>1, <2>2 DEF MailboxInv, TableOK, BoxesOK
<1> QED
  BY <1>1, AlwaysMailboxInv, PTL

(* putMsg leaves no message behind the back of a receiver that waits.      *)
THEOREM NobodyWaitsBeforeMail == Spec => []NoMailBehindReceiver
BY MailInOrder, PTL

(* A mailbox holds mail of registered senders only, all of them permitted. *)
THEOREM MailIsAlwaysAuthorised == Spec => []MailIsAuthorised
<1>1. MailboxInv => MailIsAuthorised
  BY DEF MailboxInv, TableOK, BoxesOK, BoxOK, Authorised, MailIsAuthorised
<1> QED
  BY <1>1, AlwaysMailboxInv, PTL

-----------------------------------------------------------------------------
(* The mailbox handlers implement MailQueues: whatever the senders, the    *)
(* permissions and the blocking do, mail goes through bounded lists.       *)

(* How the lists that are shown follow the records.                        *)

LEMMA ShownDomains ==
  DOMAIN ShownList = Ids /\ DOMAIN ShownOut = Ids
BY DEF ShownList, ShownOut

(* Nothing that is shown changes.                                          *)
LEMMA SameShown ==
  ASSUME UNCHANGED mb_id_pool,
         \A i \in Ids : /\ i \in mb_id_pool => mbList'[i].queue = mbList[i].queue
                        /\ mbList'[i] = NoMailBox <=> mbList[i] = NoMailBox
                        /\ mbList[i] # NoMailBox => mbList'[i].last_out = mbList[i].last_out
  PROVE  UNCHANGED <<mb_id_pool, ShownList, ShownOut>>
<1>1. ASSUME NEW i \in Ids
      PROVE  ShownList'[i] = ShownList[i] /\ ShownOut'[i] = ShownOut[i]
  BY <1>1 DEF ShownList, ShownOut, Shown
<1>2. ShownList' = [i \in Ids |-> ShownList[i]] /\ ShownOut' = [i \in Ids |-> ShownOut[i]]
  BY <1>1 DEF ShownList, ShownOut
<1> QED
  BY <1>2 DEF ShownList, ShownOut

(* One slot that is shown changes.                                         *)
LEMMA SlotShown ==
  ASSUME NEW id \in Ids, NEW n, n # NoMailBox,
         mbList \in [Ids -> MailBoxes \cup {NoMailBox}],
         mbList' = [mbList EXCEPT ![id] = n],
         \A i \in Ids : i # id => (i \in mb_id_pool' <=> i \in mb_id_pool)
  PROVE  /\ ShownList' = [ShownList EXCEPT ![id] = IF id \in mb_id_pool' THEN Shown(n) ELSE <<>>]
         /\ ShownOut' = [ShownOut EXCEPT ![id] = n.last_out]
<1>1. mbList'[id] = n /\ \A i \in Ids : i # id => mbList'[i] = mbList[i]
  OBVIOUS
<1>2. ASSUME NEW i \in Ids
      PROVE  /\ ShownList'[i] = IF i = id THEN IF id \in mb_id_pool' THEN Shown(n) ELSE <<>>
                                ELSE ShownList[i]
             /\ ShownOut'[i] = IF i = id THEN n.last_out ELSE ShownOut[i]
  BY <1>1, <1>2 DEF ShownList, ShownOut, Shown
<1>3. /\ ShownList' = [i \in Ids |-> ShownList'[i]]
      /\ ShownOut' = [i \in Ids |-> ShownOut'[i]]
  BY DEF ShownList, ShownOut
<1> QED
  BY <1>2, <1>3, ShownDomains

(* The same for a step that opens and closes no mailbox.                   *)
LEMMA OpenSlotShown ==
  ASSUME NEW id \in Ids, NEW n, n # NoMailBox, id \in mb_id_pool, UNCHANGED mb_id_pool,
         mbList \in [Ids -> MailBoxes \cup {NoMailBox}],
         mbList' = [mbList EXCEPT ![id] = n]
  PROVE  /\ ShownList' = [ShownList EXCEPT ![id] = Shown(n)]
         /\ ShownOut' = [ShownOut EXCEPT ![id] = n.last_out]
<1>1. \A i \in Ids : i # id => (i \in mb_id_pool' <=> i \in mb_id_pool)
  OBVIOUS
<1>2. /\ ShownList' = [ShownList EXCEPT ![id] = IF id \in mb_id_pool' THEN Shown(n) ELSE <<>>]
      /\ ShownOut' = [ShownOut EXCEPT ![id] = n.last_out]
  BY <1>1, SlotShown
<1> QED
  BY <1>2

(* The ids of a list of messages, and of the list getMsg and putMsg leave. *)
LEMMA ShownSeq ==
  ASSUME NEW m \in MailBoxes
  PROVE  /\ Shown(m) \in Seq(Nat) /\ Len(Shown(m)) = Len(m.queue)
         /\ \A j \in 1 .. Len(m.queue) : Shown(m)[j] = m.queue[j].id
<1>1. m.queue \in Seq(Messages) /\ Len(m.queue) \in Nat
  BY BoxFields
<1>2. \A msg \in Messages : msg.id \in Nat
  BY MaxMsgAssumption DEF Messages
<1> QED
  BY <1>1, <1>2 DEF Shown

LEMMA LastOrBefore ==
  ASSUME NEW n \in Nat, NEW j \in 1 .. n + 1 PROVE j \in 1 .. n \/ j = n + 1
OBVIOUS

LEMMA ShownAppend ==
  ASSUME NEW m \in MailBoxes, NEW n \in MailBoxes, NEW msg \in Messages,
         n.queue = Append(m.queue, msg)
  PROVE  Shown(n) = Append(Shown(m), msg.id)
<1>1. /\ m.queue \in Seq(Messages) /\ Len(m.queue) \in Nat
      /\ Len(n.queue) = Len(m.queue) + 1
      /\ n.queue[Len(m.queue) + 1] = msg
      /\ \A j \in 1 .. Len(m.queue) : n.queue[j] = m.queue[j]
  <2>1. m.queue \in Seq(Messages)
    BY BoxFields
  <2> QED
    BY <2>1
<1>2. msg.id \in Nat
  BY MaxMsgAssumption DEF Messages
<1>3. Append(Shown(m), msg.id) \in Seq(Nat) /\ Shown(n) \in Seq(Nat)
  BY <1>2, ShownSeq, AppendToSeq
<1>4. Len(Append(Shown(m), msg.id)) = Len(m.queue) + 1 /\ Len(Shown(n)) = Len(m.queue) + 1
  BY <1>1, <1>2, ShownSeq, AppendToSeq
<1>5. ASSUME NEW j \in 1 .. Len(m.queue) + 1
      PROVE  Append(Shown(m), msg.id)[j] = Shown(n)[j]
  <2>1. Shown(m) \in Seq(Nat) /\ Len(Shown(m)) = Len(m.queue) /\ Shown(n)[j] = n.queue[j].id
    BY <1>1, ShownSeq
  <2>2. CASE j \in 1 .. Len(m.queue)
    BY <1>1, <1>2, <2>1, <2>2, ShownSeq
  <2>3. CASE j = Len(m.queue) + 1
    BY <1>1, <1>2, <2>1, <2>3
  <2>4. j \in 1 .. Len(m.queue) \/ j = Len(m.queue) + 1
    BY <1>1, LastOrBefore
  <2> QED
    BY <2>2, <2>3, <2>4
<1> QED
  BY <1>3, <1>4, <1>5, SeqEqual

LEMMA ShownTail ==
  ASSUME NEW m \in MailBoxes, NEW n \in MailBoxes, m.queue # <<>>, n.queue = Tail(m.queue)
  PROVE  /\ Shown(m) # <<>> /\ Head(Shown(m)) = Head(m.queue).id
         /\ Shown(n) = Tail(Shown(m))
<1>1. /\ m.queue \in Seq(Messages) /\ Len(m.queue) \in Nat \ {0}
      /\ Head(m.queue) = m.queue[1]
      /\ Len(n.queue) = Len(m.queue) - 1
      /\ \A j \in 1 .. Len(n.queue) : n.queue[j] = m.queue[j + 1]
  <2>1. m.queue \in Seq(Messages)
    BY BoxFields
  <2> QED
    BY <2>1, HeadTailProperties
<1>2. /\ Shown(m) \in Seq(Nat) /\ Len(Shown(m)) = Len(m.queue)
      /\ \A j \in 1 .. Len(m.queue) : Shown(m)[j] = m.queue[j].id
      /\ Shown(n) \in Seq(Nat) /\ Len(Shown(n)) = Len(n.queue)
      /\ \A j \in 1 .. Len(n.queue) : Shown(n)[j] = n.queue[j].id
  BY ShownSeq
<1>3. PICK ids \in Seq(Nat) : ids = Shown(m) /\ Len(ids) = Len(m.queue) /\ ids # <<>>
  <2>1. Shown(m) # <<>>
    BY <1>1, <1>2
  <2> QED
    BY <1>2, <2>1
<1>4. Head(ids) = Head(m.queue).id
  <2>1. Head(ids) = ids[1] /\ 1 \in 1 .. Len(m.queue)
    BY <1>1, <1>3
  <2> QED
    BY <1>1, <1>2, <1>3, <2>1
<1>5. /\ Tail(ids) \in Seq(Nat) /\ Len(Tail(ids)) = Len(ids) - 1
      /\ \A j \in 1 .. Len(Tail(ids)) : Tail(ids)[j] = ids[j + 1]
  BY <1>3, HeadTailProperties
<1>6. Len(Shown(n)) = Len(Tail(ids))
  BY <1>1, <1>2, <1>3, <1>5
<1>7. ASSUME NEW j \in 1 .. Len(Shown(n)) PROVE Shown(n)[j] = Tail(ids)[j]
  <2>1. j \in 1 .. Len(n.queue) /\ j \in 1 .. Len(Tail(ids)) /\ j + 1 \in 1 .. Len(m.queue)
    BY <1>1, <1>2, <1>6
  <2>2. Shown(n)[j] = m.queue[j + 1].id
    BY <1>1, <1>2, <2>1
  <2>3. Tail(ids)[j] = m.queue[j + 1].id
    BY <1>2, <1>3, <1>5, <2>1
  <2> QED
    BY <2>2, <2>3
<1>8. Shown(n) = Tail(ids)
  BY <1>2, <1>5, <1>6, <1>7, SeqEqual
<1> QED
  BY <1>3, <1>4, <1>8

-----------------------------------------------------------------------------
(* Each handler is a step of MailQueues.                                   *)

\* A step that shows nothing.
Hidden == UNCHANGED <<mb_id_pool, ShownList, ShownOut, sent>>

LEMMA HiddenSimulates == Hidden => [Queues!Next]_Queues!vars
BY DEF Hidden, Queues!vars

\* The invariant of the slots, and what an action finds in its mailbox.
LEMMA OpenBox ==
  ASSUME MailboxInv, NEW id \in Ids, mbList[id].owner_pid \in Proc
  PROVE  /\ id \in mb_id_pool /\ mbList[id] # NoMailBox
         /\ mbList[id] \in MailBoxes /\ BoxOK(mbList[id], sent)
         /\ ShownList[id] = Shown(mbList[id]) /\ ShownOut[id] = mbList[id].last_out
<1>1. NoMailBox.owner_pid \notin Proc
  BY ProcAssumption DEF NoMailBox, NoPid
<1>2. id \in mb_id_pool /\ mbList[id] # NoMailBox
  BY <1>1 DEF MailboxInv, TableOK, PoolMatchesTable
<1>3. BoxOK(mbList[id], sent)
  BY <1>2 DEF MailboxInv, TableOK, BoxesOK
<1> QED
  BY <1>2, <1>3 DEF BoxOK, ShownList, ShownOut

LEMMA TableUntouched ==
  ASSUME UNCHANGED <<mbList, mb_id_pool, sent>> PROVE Hidden
<1>1. UNCHANGED <<mb_id_pool, ShownList, ShownOut>>
  BY SameShown
<1> QED
  BY <1>1 DEF Hidden

(* A new record in the slot of a mailbox, with the same mail.              *)
LEMMA MailUntouched ==
  ASSUME MailboxInv, NEW id \in Ids, mbList[id] # NoMailBox, NEW n, n \in MailBoxes,
         mbList' = [mbList EXCEPT ![id] = n],
         n.queue = mbList[id].queue, n.last_out = mbList[id].last_out,
         UNCHANGED <<mb_id_pool, sent>>
  PROVE  Hidden
<1>1. mbList'[id] = n /\ \A i \in Ids : i # id => mbList'[i] = mbList[i]
  BY DEF MailboxInv, TableOK
<1>2. UNCHANGED <<mb_id_pool, ShownList, ShownOut>>
  BY <1>1, NoMailBoxIsNone, SameShown
<1> QED
  BY <1>2 DEF Hidden

LEMMA CreateSimulates ==
  ASSUME MailboxInv, NEW p \in Proc, NEW perm \in Permissions, do_create_mailbox(p, perm)
  PROVE  Queues!Next
<1>1. PICK id \in Ids : id = get_free_id /\ id \notin mb_id_pool
  BY GetFreeId DEF do_create_mailbox, MailboxInv, TableOK
<1>2. PICK n : n = create_mailbox(p, id, perm)
  OBVIOUS
<1>3. /\ n # NoMailBox /\ n.queue = <<>> /\ n.last_out = 0
      /\ mb_id_pool' = mb_id_pool \cup {id} /\ mbList' = [mbList EXCEPT ![id] = n]
      /\ UNCHANGED sent
  <2>1. n.queue = <<>> /\ n.last_out = 0
    BY <1>2 DEF create_mailbox
  <2>2. "perm" \in DOMAIN n /\ "perm" \notin DOMAIN NoMailBox
    BY <1>2 DEF create_mailbox, NoMailBox
  <2> QED
    BY <1>1, <1>2, <2>1, <2>2 DEF do_create_mailbox
<1>4. /\ ShownList' = [ShownList EXCEPT ![id] = Shown(n)]
      /\ ShownOut' = [ShownOut EXCEPT ![id] = n.last_out]
  BY <1>3, SlotShown DEF MailboxInv, TableOK
<1>5. Shown(n) = <<>>
  BY <1>3 DEF Shown
<1>6. Queues!Open(id)
  BY <1>1, <1>3, <1>4, <1>5 DEF Queues!Open
<1> QED
  BY <1>6 DEF Queues!Next

LEMMA DestroyedInPlace ==
  ASSUME NEW id \in Ids, mbList[id] # NoMailBox,
         mbList \in [Ids -> MailBoxes \cup {NoMailBox}],
         mbList' = [mbList EXCEPT ![id].owner_pid = NoPid, ![id].mb_id = NoId,
                                  ![id].num_senders = 0, ![id].num_messages = 0,
                                  ![id].queue = <<>>]
  PROVE  mbList' = [mbList EXCEPT ![id] = Destroyed(mbList[id])]
<1>1. mbList[id] \in MailBoxes
  OBVIOUS
<1> QED
  BY <1>1 DEF Destroyed

LEMMA DestroySimulates ==
  ASSUME MailboxInv, NEW p \in Proc, NEW id \in Ids, mbList[id] # NoMailBox,
         mbList' = [mbList EXCEPT ![id] = Destroyed(mbList[id])],
         set_free_id(id), UNCHANGED sent
  PROVE  [Queues!Next]_Queues!vars
<1>1. BoxOK(mbList[id], sent) /\ mbList[id] \in MailBoxes
      /\ mbList \in [Ids -> MailBoxes \cup {NoMailBox}]
  BY DEF MailboxInv, TableOK, BoxesOK, BoxOK
<1>2. PICK n : n = Destroyed(mbList[id])
  OBVIOUS
<1>3. /\ n # NoMailBox /\ n.queue = <<>> /\ n.last_out = mbList[id].last_out
      /\ mbList' = [mbList EXCEPT ![id] = n]
  <2>1. n \in MailBoxes /\ n.queue = <<>> /\ n.last_out = mbList[id].last_out
    BY <1>1, <1>2, DestroyedFields
  <2>2. mbList' = [mbList EXCEPT ![id] = n]
    BY <1>2
  <2> QED
    BY <2>1, <2>2, NoMailBoxIsNone
<1>4. mb_id_pool' = mb_id_pool \ {id}
  BY DEF set_free_id
<1>5. /\ ShownList' = [ShownList EXCEPT ![id] = <<>>]
      /\ ShownOut' = [ShownOut EXCEPT ![id] = n.last_out]
  <2>1. id \notin mb_id_pool' /\ \A i \in Ids : i # id => (i \in mb_id_pool' <=> i \in mb_id_pool)
    BY <1>4
  <2>2. /\ ShownList' = [ShownList EXCEPT ![id] = IF id \in mb_id_pool' THEN Shown(n) ELSE <<>>]
        /\ ShownOut' = [ShownOut EXCEPT ![id] = n.last_out]
    BY <1>1, <1>3, <2>1, SlotShown
  <2> QED
    BY <2>1, <2>2
<1>6. ShownOut[id] = n.last_out
  BY <1>3 DEF ShownOut
<1>7. ShownOut' = ShownOut
  BY <1>5, <1>6, ShownDomains DEF ShownOut
<1>8. CASE id \in mb_id_pool
  <2>1. Queues!Close(id)
    BY <1>4, <1>5, <1>7, <1>8 DEF Queues!Close
  <2> QED
    BY <2>1 DEF Queues!Next
<1>9. CASE id \notin mb_id_pool
  <2>1. ShownList' = ShownList /\ mb_id_pool' = mb_id_pool
    BY <1>4, <1>5, <1>9 DEF ShownList
  <2> QED
    BY <1>7, <2>1, HiddenSimulates DEF Hidden
<1> QED
  BY <1>8, <1>9

LEMMA RegisterSimulates ==
  ASSUME MailboxInv, NEW p \in Proc, NEW id \in Ids, mbList[id] # NoMailBox,
         mbList' = [mbList EXCEPT ![id].senders = Append(@, p), ![id].num_senders = @ + 1],
         UNCHANGED <<mb_id_pool, sent>>
  PROVE  Hidden
<1>1. /\ mbList[id] \in MailBoxes /\ mbList \in [Ids -> MailBoxes \cup {NoMailBox}]
  BY DEF MailboxInv, TableOK, BoxesOK, BoxOK
<1>2. PICK n : n = Registered(mbList[id], p)
  OBVIOUS
<1>3. n \in MailBoxes /\ n.queue = mbList[id].queue /\ n.last_out = mbList[id].last_out
  BY <1>1, <1>2, RegisteredFields
<1>4. mbList' = [mbList EXCEPT ![id] = n]
  BY <1>1, <1>2 DEF Registered
<1> QED
  BY <1>3, <1>4, MailUntouched

LEMMA BlocksSimulates ==
  ASSUME MailboxInv, DepositBlocks PROVE Hidden
<1>1. PICK id \in Ids :
        /\ ValidDestination(id)
        /\ IF mbList[id].sus_sender_idx = MAX_SENDERS
           THEN Breaks
           ELSE /\ mbList' = [mbList EXCEPT ![id].sus_sender_idx = @ + 1]
                /\ UNCHANGED <<mb_id_pool, sent>>
  BY DEF DepositBlocks
<1>2. CASE mbList[id].sus_sender_idx = MAX_SENDERS
  BY <1>1, <1>2, TableUntouched DEF Breaks, mailVars
<1>3. CASE mbList[id].sus_sender_idx # MAX_SENDERS
  <2>1. /\ mbList[id] \in MailBoxes /\ mbList[id] # NoMailBox
        /\ mbList \in [Ids -> MailBoxes \cup {NoMailBox}]
    BY <1>1, Destination DEF ValidDestination, MailboxInv, TableOK
  <2>2. PICK n : n = Noted(mbList[id])
    OBVIOUS
  <2>3. n \in MailBoxes /\ n.queue = mbList[id].queue /\ n.last_out = mbList[id].last_out
    BY <1>3, <2>1, <2>2, NotedFields
  <2>4. mbList' = [mbList EXCEPT ![id] = n]
    BY <1>1, <1>3, <2>1, <2>2 DEF Noted
  <2> QED
    BY <1>1, <1>3, <2>1, <2>3, <2>4, MailUntouched
<1> QED
  BY <1>2, <1>3

LEMMA HandsOverSimulates ==
  ASSUME MailboxInv, DepositHandsOver PROVE Queues!Next
<1>1. PICK id \in Ids :
        /\ ValidDestination(id)
        /\ mbList[id].rx_suspended
        /\ mbList' = [mbList EXCEPT ![id].last_out = mail.msg.id]
        /\ UNCHANGED <<mb_id_pool, sent>>
  BY DEF DepositHandsOver
<1>2. /\ id \in mb_id_pool /\ mbList[id] # NoMailBox /\ mbList[id] \in MailBoxes
      /\ BoxOK(mbList[id], sent) /\ mbList \in [Ids -> MailBoxes \cup {NoMailBox}]
      /\ ShownList[id] = Shown(mbList[id])
  BY <1>1, Destination, OpenBox DEF ValidDestination, MailboxInv, TableOK
<1>3. mail.msg.id = sent /\ sent \in 0 .. MaxMsg
  BY <1>1, Delivering DEF ValidDestination, AtDestination, MailboxInv
<1>4. mbList[id].queue = <<>>
  BY <1>1, <1>2 DEF BoxOK, NothingBehind
<1>5. PICK n : n = HandedOver(mbList[id], sent)
  OBVIOUS
<1>6. /\ n \in MailBoxes /\ n # NoMailBox
      /\ n.queue = mbList[id].queue /\ n.last_out = sent
  BY <1>2, <1>3, <1>5, HandedOverFields, NoMailBoxIsNone
<1>7. mbList' = [mbList EXCEPT ![id] = n]
  BY <1>1, <1>2, <1>3, <1>5 DEF HandedOver
<1>8. Shown(n) = <<>> /\ Shown(mbList[id]) = <<>>
  BY <1>4, <1>6 DEF Shown
<1>9. /\ ShownList' = [ShownList EXCEPT ![id] = <<>>]
      /\ ShownOut' = [ShownOut EXCEPT ![id] = sent]
  <2>1. /\ ShownList' = [ShownList EXCEPT ![id] = Shown(n)]
        /\ ShownOut' = [ShownOut EXCEPT ![id] = n.last_out]
    BY <1>1, <1>2, <1>6, <1>7, OpenSlotShown
  <2> QED
    BY <1>2, <1>6, <1>8, <2>1
<1>10. ShownList' = ShownList
  BY <1>2, <1>8, <1>9 DEF ShownList
<1>11. Queues!PassOn(id)
  BY <1>1, <1>2, <1>8, <1>9, <1>10 DEF Queues!PassOn
<1> QED
  BY <1>11 DEF Queues!Next

LEMMA QueuesSimulates ==
  ASSUME MailboxInv, DepositQueues PROVE Queues!Next
<1>1. PICK id \in Ids :
        /\ ValidDestination(id) /\ ~Full(id)
        /\ mbList' = [mbList EXCEPT ![id].queue = Append(@, mail.msg), ![id].num_messages = @ + 1]
        /\ UNCHANGED <<mb_id_pool, sent>>
  BY DEF DepositQueues
<1>2. /\ id \in mb_id_pool /\ mbList[id] # NoMailBox /\ mbList[id] \in MailBoxes
      /\ BoxOK(mbList[id], sent) /\ mbList \in [Ids -> MailBoxes \cup {NoMailBox}]
      /\ ShownList[id] = Shown(mbList[id]) /\ ShownOut[id] = mbList[id].last_out
  BY <1>1, Destination, OpenBox DEF ValidDestination, MailboxInv, TableOK
<1>3. mail.msg.id = sent /\ mail.msg \in Messages
  BY <1>1, Delivering DEF ValidDestination, AtDestination
<1>4. Len(ShownList[id]) < MB_CAPACITY
  <2>1. Len(ShownList[id]) = mbList[id].num_messages /\ mbList[id].num_messages \in Nat
    BY <1>2, ShownSeq, BoxFields DEF BoxOK, Counted
  <2> QED
    BY <1>1, <2>1, CapacityAssumption DEF Full
<1>5. PICK n : n = Queued(mbList[id], mail.msg)
  OBVIOUS
<1>6. /\ n \in MailBoxes /\ n # NoMailBox
      /\ n.queue = Append(mbList[id].queue, mail.msg) /\ n.last_out = mbList[id].last_out
  BY <1>2, <1>3, <1>5, QueuedFields, NoMailBoxIsNone
<1>7. mbList' = [mbList EXCEPT ![id] = n]
  BY <1>1, <1>2, <1>5 DEF Queued
<1>8. Shown(n) = Append(ShownList[id], sent)
  BY <1>2, <1>3, <1>6, ShownAppend
<1>9. /\ ShownList' = [ShownList EXCEPT ![id] = Append(@, sent)]
      /\ ShownOut' = [ShownOut EXCEPT ![id] = ShownOut[id]]
  <2>1. /\ ShownList' = [ShownList EXCEPT ![id] = Shown(n)]
        /\ ShownOut' = [ShownOut EXCEPT ![id] = n.last_out]
    BY <1>1, <1>2, <1>6, <1>7, OpenSlotShown
  <2> QED
    BY <1>2, <1>6, <1>8, <2>1
<1>10. ShownOut' = ShownOut
  BY <1>9 DEF ShownOut
<1>11. Queues!Post(id)
  BY <1>1, <1>2, <1>4, <1>9, <1>10 DEF Queues!Post
<1> QED
  BY <1>11 DEF Queues!Next

LEMMA RetrieveSimulates ==
  ASSUME MailboxInv, NEW p \in Proc, do_retrieve(p) PROVE [Queues!Next]_Queues!vars
<1>1. UNCHANGED <<mb_id_pool, sent>>
  BY DEF do_retrieve, Breaks, mailVars
<1>2. ASSUME NEW id \in Ids, id = get_mb_id(p)
      PROVE  /\ id \in mb_id_pool /\ mbList[id] # NoMailBox /\ mbList[id] \in MailBoxes
             /\ BoxOK(mbList[id], sent) /\ mbList \in [Ids -> MailBoxes \cup {NoMailBox}]
             /\ ShownList[id] = Shown(mbList[id]) /\ ShownOut[id] = mbList[id].last_out
  BY <1>2, FoundBox, OpenBox DEF MailboxInv, TableOK
<1>3. ASSUME NEW id \in Ids, id = get_mb_id(p),
             mbList' = [mbList EXCEPT ![id].rx_suspended = TRUE]
      PROVE  Hidden
  <2>1. PICK n : n = Waiting(mbList[id])
    OBVIOUS
  <2>2. n \in MailBoxes /\ n.queue = mbList[id].queue /\ n.last_out = mbList[id].last_out
    BY <1>2, <1>3, <2>1, WaitingFields
  <2>3. mbList' = [mbList EXCEPT ![id] = n]
    BY <1>2, <1>3, <2>1 DEF Waiting
  <2> QED
    BY <1>1, <1>2, <1>3, <2>2, <2>3, MailUntouched
<1>4. ASSUME NEW id \in Ids, id = get_mb_id(p), mbList[id].queue # <<>>,
             mbList' = [mbList EXCEPT ![id] = [getMsg(@) EXCEPT !.rx_suspended = FALSE]]
      PROVE  Queues!Next
  <2>1. PICK m \in MailBoxes : m = mbList[id] /\ m.queue # <<>> /\ BoxOK(m, sent)
    BY <1>2, <1>4
  <2>2. PICK n : n = Emptied(m)
    OBVIOUS
  <2>3. /\ n \in MailBoxes /\ n # NoMailBox
        /\ n.queue = Tail(m.queue) /\ n.last_out = Head(m.queue).id
    <3>1. m.queue \in Seq(Messages) /\ m.num_messages = Len(m.queue)
      BY <2>1, BoxFields DEF BoxOK, Counted
    <3>2. Head(m.queue) \in Messages /\ Tail(m.queue) \in Seq(Messages)
          /\ Len(m.queue) \in Nat \ {0}
      BY <2>1, <3>1, HeadTailProperties, EmptySeq
    <3>3. Head(m.queue).id \in 0 .. MaxMsg /\ m.num_messages - 1 \in Nat
      BY <3>1, <3>2, MaxMsgAssumption DEF Messages
    <3> QED
      BY <2>1, <2>2, <3>2, <3>3, EmptiedFields, NoMailBoxIsNone
  <2>4. mbList' = [mbList EXCEPT ![id] = n]
    BY <1>2, <1>4, <2>1, <2>2 DEF Emptied
  <2>5. /\ Shown(m) # <<>> /\ Head(Shown(m)) = Head(m.queue).id
        /\ Shown(n) = Tail(Shown(m))
    BY <2>1, <2>3, ShownTail
  <2>6. m.last_out <= Head(m.queue).id
    <3>1. m.queue \in Seq(Messages) /\ InOrder(m, sent)
      BY <2>1, BoxFields DEF BoxOK
    <3>2. Head(m.queue) = m.queue[1] /\ 1 \in 1 .. Len(m.queue)
      BY <2>1, <3>1
    <3> QED
      BY <3>1, <3>2 DEF InOrder
  <2>7. m.last_out \in Int /\ Head(m.queue).id \in Int
    <3>1. Head(m.queue) \in Messages
      BY <2>1, BoxFields, HeadTailProperties
    <3> QED
      BY <2>1, <3>1, BoxFields, MaxMsgAssumption DEF Messages
  <2>8. /\ ShownList' = [ShownList EXCEPT ![id] = Shown(n)]
        /\ ShownOut' = [ShownOut EXCEPT ![id] = Head(m.queue).id]
    <3>1. id \in mb_id_pool /\ mbList \in [Ids -> MailBoxes \cup {NoMailBox}]
      BY <1>2, <1>4
    <3>2. /\ ShownList' = [ShownList EXCEPT ![id] = Shown(n)]
          /\ ShownOut' = [ShownOut EXCEPT ![id] = n.last_out]
      BY <1>1, <2>3, <2>4, <3>1, OpenSlotShown
    <3> QED
      BY <2>3, <3>2
  <2>9. ShownList[id] = Shown(m) /\ ShownOut[id] = m.last_out /\ id \in mb_id_pool
    BY <1>2, <1>4, <2>1
  <2>10. Queues!Take(id)
    BY <1>1, <2>5, <2>6, <2>7, <2>8, <2>9 DEF Queues!Take
  <2> QED
    BY <2>10 DEF Queues!Next
<1>5. CASE Breaks
  BY <1>5, TableUntouched, HiddenSimulates DEF Breaks, mailVars
<1> QED
  BY <1>3, <1>4, <1>5, HiddenSimulates DEF do_retrieve

LEMMA NextSimulatesQueues == MailboxInv /\ [Next]_vars => [Queues!Next]_Queues!vars
<1> SUFFICES ASSUME MailboxInv, [Next]_vars PROVE [Queues!Next]_Queues!vars
  OBVIOUS
<1>1. CASE UNCHANGED <<mbList, mb_id_pool, sent>>
  BY <1>1, TableUntouched, HiddenSimulates
<1>2. ASSUME NEW p \in Proc, NEW perm \in Permissions, do_create_mailbox(p, perm)
      PROVE  Queues!Next
  BY <1>2, CreateSimulates
<1>3. ASSUME NEW p \in Proc, NEW id \in Ids \cup BadIds, do_destroy_mailbox(p, id)
      PROVE  [Queues!Next]_Queues!vars
  <2>1. CASE UNCHANGED <<mbList, mb_id_pool, sent>>
    BY <1>1, <2>1
  <2>2. CASE id \in Ids /\ mbList[id] # NoMailBox /\ ~ UNCHANGED <<mbList, mb_id_pool, sent>>
    <3>1. /\ mbList' = [mbList EXCEPT ![id].owner_pid = NoPid, ![id].mb_id = NoId,
                                      ![id].num_senders = 0, ![id].num_messages = 0,
                                      ![id].queue = <<>>]
          /\ set_free_id(id) /\ UNCHANGED sent
      BY <1>3, <2>2 DEF do_destroy_mailbox, Breaks, mailVars
    <3>2. mbList \in [Ids -> MailBoxes \cup {NoMailBox}]
      BY DEF MailboxInv, TableOK
    <3>3. mbList' = [mbList EXCEPT ![id] = Destroyed(mbList[id])]
      BY <2>2, <3>1, <3>2, DestroyedInPlace
    <3> QED
      BY <2>2, <3>1, <3>3, DestroySimulates
  <2> QED
    BY <1>3, <2>1, <2>2 DEF do_destroy_mailbox, Breaks, mailVars
<1>4. ASSUME NEW p \in Proc, NEW id \in Ids \cup BadIds, do_register_mb(p, id)
      PROVE  [Queues!Next]_Queues!vars
  BY <1>1, <1>4, RegisterSimulates, HiddenSimulates DEF do_register_mb, Breaks, mailVars
<1>5. CASE Administration
  BY <1>1, <1>2, <1>3, <1>4, <1>5
  DEF Administration, do_get_senders, do_get_av_mailboxes, Breaks, mailVars
<1>6. ASSUME NEW p \in Proc, NEW dest \in DestLists, do_deposit(p, dest)
      PROVE  Queues!Next
  <2>1. /\ sent < MaxMsg /\ sent' = sent + 1
        /\ UNCHANGED <<mb_id_pool, ShownList, ShownOut>>
    BY <1>6, SameShown DEF do_deposit
  <2>2. Queues!NewMessage
    BY <2>1 DEF Queues!NewMessage
  <2> QED
    BY <2>2 DEF Queues!Next
<1>7. CASE DepositStep
  <2>1. CASE DepositBlocks \/ DepositHandsOver \/ DepositQueues
    BY <2>1, BlocksSimulates, HandsOverSimulates, QueuesSimulates, HiddenSimulates
  <2>2. CASE DepositRefused \/ DepositDone \/ DepositSuspends \/ DepositLooksUp \/ DeadlockWalk
    BY <1>1, <2>2 DEF DepositRefused, DepositDone, DepositReturns, DepositSuspends,
                      DepositLooksUp, DeadlockWalk, Breaks, mailVars
  <2> QED
    BY <1>7, <2>1, <2>2 DEF DepositStep
<1>8. CASE UNCHANGED vars
  BY <1>1, <1>8 DEF vars, mailVars
<1> QED
  BY <1>5, <1>6, <1>7, <1>8, RetrieveSimulates DEF Next

-----------------------------------------------------------------------------
(* The handlers implement MailQueues: mail enters a mailbox behind the     *)
(* other mail or passes an empty list, never beyond the capacity, leaves   *)
(* it from the front, and disappears only with its mailbox.                *)
THEOREM ImplementsMailQueues == Spec => KeepsPromise
<1>1. Init => Queues!Init
  <2> SUFFICES ASSUME Init PROVE Queues!Init
    OBVIOUS
  <2>1. /\ mb_id_pool = {} /\ sent = 0 /\ \A i \in Ids : mbList[i] = NoMailBox
    BY DEF Init
  <2>2. ShownList = [i \in Ids |-> <<>>] /\ ShownOut = [i \in Ids |-> 0]
    BY <2>1 DEF ShownList, ShownOut
  <2> QED
    BY <2>1, <2>2 DEF Queues!Init
<1>2. MailboxInv /\ [Next]_vars => [Queues!Next]_Queues!vars
  BY NextSimulatesQueues
<1> QED
  BY <1>1, <1>2, AlwaysMailboxInv, PTL DEF Spec, KeepsPromise, Queues!Spec

=============================================================================
