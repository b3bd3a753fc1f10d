------------------------------ MODULE WaitGraph ------------------------------
(***************************************************************************)
(* The table of suspended senders of the mailbox system calls, and the two *)
(* walks VFS makes over it: check_dead_lock, which decides whether a       *)
(* sender that found a full mailbox may be suspended, and                  *)
(* indicate_deadlock, which releases the senders of a detected deadlock.   *)
(*                                                                         *)
(* The rest of the mailbox calls is the environment here: processes enter  *)
(* deposit and retrieve, and a deposit wakes receivers.  Module Mailbox    *)
(* replaces the environment by the handlers themselves and implements this *)
(* specification.                                                          *)
(*                                                                         *)
(* VFS runs one handler at a time and a handler never blocks, so handler   *)
(* is the program counter of VFS.  A process that calls VFS stays blocked  *)
(* until VFS replies to it; a handler that returns SUSPEND sends no reply, *)
(* and a reply to a process that is not blocked in a call is dropped.      *)
(***************************************************************************)
EXTENDS Integers, Sequences

CONSTANTS Proc,            \* the pids of the processes that use mailboxes
          MAX_MAILBOXES,   \* slots of the mailbox table
          MAX_DEST         \* longest destination list of a deposit

ASSUME ProcAssumption == Proc \subseteq Nat \ {0}
ASSUME MailboxesAssumption == MAX_MAILBOXES \in Nat \ {0}
ASSUME DestAssumption == MAX_DEST \in Nat \ {0}

VARIABLES vfs,          \* "up", or "undefined" once a handler did what C leaves undefined
          proc,         \* per process: running, or the call it is blocked in
          susContext,   \* per local id: the suspended sender's context
          handler       \* what VFS is executing

wgVars == <<vfs, proc, susContext, handler>>

Ids == 0 .. MAX_MAILBOXES - 1
NoId == -1
NoPid == -1

\* The mailboxes a sender is suspended for, in the order it met them.
WaitLists == UNION {[1 .. n -> Ids \cup {NoId}] : n \in 1 .. MAX_DEST}

NoContext == [sus_end_p |-> NoPid, suspened_for |-> <<>>]
Contexts == [sus_end_p : Proc, suspened_for : WaitLists]

Idle == [pc |-> "idle", caller |-> NoPid, local |-> NoId, cursor |-> NoId]
Handlers == [pc : {"sending", "check", "indicate"}, caller : Proc,
             local : Ids \cup {NoId}, cursor : Ids \cup {NoId}]

ProcStates == {"running", "deposit", "retrieve"}

WGTypeOK == /\ vfs \in {"up", "undefined"}
            /\ proc \in [Proc -> ProcStates]
            /\ susContext \in [Ids -> Contexts \cup {NoContext}]
            /\ handler \in Handlers \cup {Idle}
            /\ handler.pc \in {"check", "indicate"} =>
                 /\ handler.local \in Ids /\ handler.cursor \in Ids
                 /\ susContext[handler.local] # NoContext
            /\ handler.pc = "indicate" => susContext[handler.cursor] # NoContext

WGInit == /\ vfs = "up"
          /\ proc = [p \in Proc |-> "running"]
          /\ susContext = [l \in Ids |-> NoContext]
          /\ handler = Idle

-----------------------------------------------------------------------------
At(pc) == vfs = "up" /\ handler.pc = pc

\* What reply() does to the processes Q: one that is not blocked drops it.
Replied(Q) == [p \in Proc |-> IF p \in Q THEN "running" ELSE proc[p]]

Undefined == /\ vfs' = "undefined"
             /\ UNCHANGED <<proc, susContext, handler>>

\* The mailbox local id l was last recorded to wait for, suspened_for[0].
WaitsFor(l) == susContext[l].suspened_for[1]

-----------------------------------------------------------------------------
(* The environment: the rest of the handlers, as Mailbox has them.         *)

EnterDeposit(p) ==
  /\ At("idle") /\ proc[p] = "running"
  /\ proc' = [proc EXCEPT ![p] = "deposit"]
  /\ handler' = [Idle EXCEPT !.pc = "sending", !.caller = p]
  /\ UNCHANGED <<vfs, susContext>>

LeaveDeposit ==
  /\ At("sending")
  /\ proc' = Replied({handler.caller})
  /\ handler' = Idle
  /\ UNCHANGED <<vfs, susContext>>

WakeReceiver(q) ==
  /\ At("sending")
  /\ proc' = Replied({q})
  /\ UNCHANGED <<vfs, susContext, handler>>

SuspendReceiver(p) ==
  /\ At("idle") /\ proc[p] = "running"
  /\ proc' = [proc EXCEPT ![p] = "retrieve"]
  /\ UNCHANGED <<vfs, susContext, handler>>

\* Another part of a handler does what C leaves undefined.
OtherBreaks == (At("idle") \/ At("sending")) /\ Undefined

-----------------------------------------------------------------------------
\* A slip SuspendSender avoids: only a new context is checked.
SuspendSenderKnown(local, dests) ==
  /\ At("sending")
  /\ local # NoId
  /\ susContext' = [susContext EXCEPT ![local] =
                      [sus_end_p |-> handler.caller, suspened_for |-> dests]]
  /\ handler' = IF susContext[local] = NoContext
                THEN [handler EXCEPT !.pc = "check", !.local = local, !.cursor = local]
                ELSE Idle
  /\ UNCHANGED <<vfs, proc>>

(* A sender that met full mailboxes: its context is stored under its local *)
(* id, over whatever was there, and the check starts.  Local id -1 indexes *)
(* before the table, and the code writes through what it finds there.      *)
SuspendSender(local, dests) ==
  /\ At("sending")
  /\ IF local = NoId
     THEN Undefined
     ELSE /\ susContext' = [susContext EXCEPT ![local] =
                              [sus_end_p |-> handler.caller, suspened_for |-> dests]]
          /\ handler' = [handler EXCEPT !.pc = "check", !.local = local, !.cursor = local]
          /\ UNCHANGED <<vfs, proc>>

\* A slip CheckStep avoids: a released context, -1, is followed.
CheckStepFollows ==
  /\ At("check")
  /\ LET next == WaitsFor(handler.cursor)
     IN  handler' = IF susContext[handler.cursor] = NoContext
                    THEN Idle
                    ELSE IF next = handler.local
                         THEN [handler EXCEPT !.pc = "indicate", !.cursor = handler.local]
                         ELSE [handler EXCEPT !.cursor = next]
  /\ UNCHANGED <<vfs, proc, susContext>>

(* One iteration of check_dead_lock.  A chain that ends lets do_deposit    *)
(* return SUSPEND: no reply, the caller stays blocked.                     *)
CheckStep ==
  /\ At("check")
  /\ LET ends == susContext[handler.cursor] = NoContext
         next == WaitsFor(handler.cursor)
     IN  handler' = CASE ends -> Idle
                      [] ~ends /\ next = handler.local ->
                           [handler EXCEPT !.pc = "indicate", !.cursor = handler.local]
                      [] ~ends /\ next # handler.local /\ next = NoId -> Idle
                      [] OTHER -> [handler EXCEPT !.cursor = next]
  /\ UNCHANGED <<vfs, proc, susContext>>

\* The loop is over: do_deposit answers the caller (and the processes Q were
\* answered on the way).
IndicateReturns(Q) ==
  /\ proc' = Replied(Q \cup {handler.caller})
  /\ handler' = Idle
  /\ UNCHANGED vfs

(* The loop goes on at next, in the table as the iteration left it, unless *)
(* next leaves the table: susContext[-1] is another undefined read.        *)
IndicateGoesOn(next, Q) ==
  IF next \in Ids
  THEN IF susContext'[next] = NoContext
       THEN IndicateReturns(Q)
       ELSE /\ proc' = Replied(Q)
            /\ handler' = [handler EXCEPT !.cursor = next]
            /\ UNCHANGED vfs
  ELSE \/ IndicateReturns(Q)
       \/ /\ vfs' = "undefined"
          /\ proc' = Replied(Q)
          /\ UNCHANGED handler

\* A slip ForgetWait avoids: the released sender keeps waiting in the table.
KeepWait(l) == UNCHANGED susContext

\* suspened_for[0] = -1 in the context of local id l.
ForgetWait(l) == susContext' = [susContext EXCEPT ![l].suspened_for[1] = NoId]

(* One iteration of indicate_deadlock.  The context that waits for the     *)
(* caller is the last one; any other context but the caller's own is       *)
(* released, and the cursor then moves twice: to the mailbox the released  *)
(* sender waited for, and on to what that one waits for.                   *)
IndicateStep ==
  /\ At("indicate")
  /\ LET cursor == handler.cursor
         next == WaitsFor(cursor)
         sender == susContext[cursor].sus_end_p
     IN  \/ /\ next = handler.local
            /\ ForgetWait(cursor)
            /\ IndicateReturns({sender})
         \/ /\ next # handler.local /\ cursor # handler.local
            /\ ForgetWait(cursor)
            /\ IF next \in Ids /\ susContext[next] # NoContext
               THEN IndicateGoesOn(susContext'[next].suspened_for[1], {sender})
               ELSE IndicateGoesOn(NoId, {sender})
         \/ /\ next # handler.local /\ cursor = handler.local
            /\ UNCHANGED susContext
            /\ IndicateGoesOn(next, {})

WGNext == \/ \E p \in Proc : EnterDeposit(p) \/ SuspendReceiver(p) \/ WakeReceiver(p)
          \/ LeaveDeposit
          \/ OtherBreaks
          \/ \E local \in Ids \cup {NoId}, n \in 1 .. MAX_DEST :
               \E dests \in [1 .. n -> Ids] : SuspendSender(local, dests)
          \/ CheckStep
          \/ IndicateStep

\* A handler that runs keeps running: VFS is never preempted inside a walk
\* for good, and the walk waits for nobody.
WGFairness == WF_wgVars(CheckStep \/ IndicateStep)

WGSafety == WGInit /\ [][WGNext]_wgVars
WGSpec == WGSafety /\ WGFairness

-----------------------------------------------------------------------------
(* Properties.                                                             *)

\* A set of local ids each of which is recorded to wait for one of the set.
WaitClosed(S) ==
  \A l \in S : susContext[l] # NoContext /\ WaitsFor(l) \in S

(* No two or more senders wait for each other around a cycle once the      *)
(* handler is through, though check_dead_lock follows only one mailbox per *)
(* sender, contexts are never freed and indicate_deadlock clears only some *)
(* of them: every cycle a suspension closes runs through the new context,  *)
(* is found from there, and loses at least one edge.                       *)
NoWaitCycle ==
  handler.pc \in {"idle", "sending"} =>
    \A S \in SUBSET Ids : WaitClosed(S) => S = {}

(* What makes NoWaitCycle inductive: while a walk runs, its cursor stands  *)
(* on every cycle there is.  In particular check_dead_lock never runs      *)
(* around a cycle that does not contain its caller, where it would not end.*)
WalkOnEveryCycle ==
  handler.pc \in {"check", "indicate"} =>
    \A S \in SUBSET Ids : S # {} /\ WaitClosed(S) => handler.cursor \in S

\* Neither walk holds VFS for ever: check_dead_lock and indicate_deadlock,
\* loops without a step bound, leave the walk (or C's defined behaviour).
WalkReturns ==
  handler.pc \in {"check", "indicate"} ~> (handler.pc = "idle" \/ vfs = "undefined")

-----------------------------------------------------------------------------
(* What the comments of the code say and the code does not do.             *)

\* The processes of the real deadlock through the caller, if there is one: a
\* cycle of contexts of different processes, all of them blocked in deposit.
Deadlocked ==
  {p \in Proc :
     \E S \in SUBSET Ids :
       LET sender(l) == susContext[l].sus_end_p
       IN  /\ handler.local \in S /\ WaitClosed(S)
           /\ \A T \in SUBSET S : T # {} /\ WaitClosed(T) => T = S
           /\ \A l \in S : proc[sender(l)] = "deposit"
           /\ \A k, l \in S : sender(k) = sender(l) => k = l
           /\ \E l \in S : sender(l) = p}

\* Comment in indicate_deadlock: only the process that just caused the
\* deadlock needs no unblocking, so every process of the deadlock is released.
DeadlockReleasesAll ==
  \A p \in Proc : (At("indicate") /\ p \in Deadlocked)
                     ~> (proc[p] = "running" \/ vfs = "undefined")

=============================================================================
