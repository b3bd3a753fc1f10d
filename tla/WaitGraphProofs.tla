--------------------------- MODULE WaitGraphProofs ---------------------------
(***************************************************************************)
(* Type correctness of WaitGraph, and that no cycle of suspended senders   *)
(* outlives the handler, for any number of processes and mailboxes.        *)
(***************************************************************************)
EXTENDS WaitGraph, TLAPS

USE ProcAssumption, MailboxesAssumption, DestAssumption

(* The pid -1 is no process, so an empty context is never a context.       *)
LEMMA NoContextIsNone == NoContext \notin Contexts
BY DEF NoContext, Contexts, NoPid

(* Clearing suspened_for[0] of local id l leaves a context there, one that *)
(* waits for nothing, and no other local id's context changes.             *)
LEMMA ForgetWaitEffect ==
  ASSUME susContext \in [Ids -> Contexts \cup {NoContext}],
         NEW l \in Ids, susContext[l] # NoContext, ForgetWait(l)
  PROVE  /\ susContext' \in [Ids -> Contexts \cup {NoContext}]
         /\ susContext'[l] # NoContext
         /\ susContext'[l].suspened_for[1] = NoId
         /\ \A k \in Ids : k # l => susContext'[k] = susContext[k]
<1>1. susContext[l] \in Contexts
  OBVIOUS
<1>2. PICK n \in 1 .. MAX_DEST : susContext[l].suspened_for \in [1 .. n -> Ids \cup {NoId}]
  BY <1>1 DEF Contexts, WaitLists
<1> DEFINE list == [susContext[l].suspened_for EXCEPT ![1] = NoId]
           cleared == [susContext[l] EXCEPT !.suspened_for = list]
<1>3. 1 \in 1 .. n
  BY <1>2
<1>4. list \in [1 .. n -> Ids \cup {NoId}] /\ list[1] = NoId
  BY <1>2, <1>3
<1>5. list \in WaitLists
  BY <1>4 DEF WaitLists
<1>6. cleared \in Contexts /\ cleared.suspened_for = list
  BY <1>1, <1>5 DEF Contexts
<1>7. susContext' = [susContext EXCEPT ![l] = cleared]
  BY DEF ForgetWait
<1>8. susContext'[l] = cleared /\ \A k \in Ids : k # l => susContext'[k] = susContext[k]
  BY <1>7
<1> QED
  BY <1>4, <1>6, <1>7, <1>8, NoContextIsNone

(* What a context of the table waits for is a mailbox or nothing.          *)
LEMMA WaitsForType ==
  ASSUME WGTypeOK, NEW l \in Ids, susContext[l] # NoContext
  PROVE  WaitsFor(l) \in Ids \cup {NoId} /\ susContext[l].sus_end_p \in Proc
<1>1. susContext[l] \in Contexts
  BY DEF WGTypeOK
<1>2. PICK n \in 1 .. MAX_DEST : susContext[l].suspened_for \in [1 .. n -> Ids \cup {NoId}]
  BY <1>1 DEF Contexts, WaitLists
<1>3. 1 \in 1 .. n
  BY <1>2
<1> QED
  BY <1>1, <1>2, <1>3 DEF Contexts, WaitsFor

(* A reply changes the state of processes to running, and nothing else.    *)
LEMMA RepliedType ==
  ASSUME WGTypeOK, NEW Q PROVE Replied(Q) \in [Proc -> ProcStates]
BY DEF WGTypeOK, Replied, ProcStates

-----------------------------------------------------------------------------
(* Type correctness.                                                       *)

LEMMA InitTypeOK == WGInit => WGTypeOK
BY DEF WGInit, WGTypeOK, ProcStates, Idle

LEMMA UndefinedTypeOK == WGTypeOK /\ Undefined => WGTypeOK'
BY DEF WGTypeOK, Undefined

LEMMA SuspendSenderTypeOK ==
  ASSUME WGTypeOK, NEW local \in Ids \cup {NoId}, NEW n \in 1 .. MAX_DEST,
         NEW dests \in [1 .. n -> Ids], SuspendSender(local, dests)
  PROVE  WGTypeOK'
<1>1. CASE local = NoId
  BY <1>1, UndefinedTypeOK DEF SuspendSender
<1>2. CASE local # NoId
  <2> DEFINE context == [sus_end_p |-> handler.caller, suspened_for |-> dests]
  <2>1. local \in Ids
    BY <1>2
  <2>2. handler \in Handlers /\ handler.caller \in Proc
    BY DEF WGTypeOK, SuspendSender, At, Idle, Handlers
  <2>3. dests \in WaitLists
    BY DEF WaitLists
  <2>4. context \in Contexts
    BY <2>2, <2>3 DEF Contexts
  <2>5. context # NoContext
    BY <2>4, NoContextIsNone
  <2>6. susContext' = [susContext EXCEPT ![local] = context]
    BY <1>2 DEF SuspendSender
  <2>7. handler' = [handler EXCEPT !.pc = "check", !.local = local, !.cursor = local]
    BY <1>2 DEF SuspendSender
  <2>8. handler' \in Handlers /\ handler'.pc = "check"
        /\ handler'.local = local /\ handler'.cursor = local
    BY <2>1, <2>2, <2>7 DEF Handlers
  <2>9. susContext' \in [Ids -> Contexts \cup {NoContext}] /\ susContext'[local] = context
    BY <2>1, <2>4, <2>6 DEF WGTypeOK
  <2>10. vfs' = vfs /\ proc' = proc
    BY <1>2 DEF SuspendSender
  <2> HIDE DEF context
  <2> QED
    BY <2>1, <2>5, <2>8, <2>9, <2>10 DEF WGTypeOK
<1> QED
  BY <1>1, <1>2

LEMMA CheckStepTypeOK == WGTypeOK /\ CheckStep => WGTypeOK'
<1> SUFFICES ASSUME WGTypeOK, CheckStep PROVE WGTypeOK'
  OBVIOUS
<1> DEFINE cursor == handler.cursor
           next == WaitsFor(cursor)
<1>1. /\ handler \in Handlers /\ handler.pc = "check"
      /\ cursor \in Ids /\ handler.local \in Ids
      /\ susContext[handler.local] # NoContext
  BY DEF WGTypeOK, CheckStep, At, Idle, Handlers
<1>2. susContext[cursor] # NoContext => next \in Ids \cup {NoId}
  BY <1>1, WaitsForType
<1>3. vfs' = vfs /\ proc' = proc /\ susContext' = susContext
  BY DEF CheckStep
<1>4. \/ handler' = Idle
      \/ /\ handler' = [handler EXCEPT !.pc = "indicate", !.cursor = handler.local]
      \/ /\ handler' = [handler EXCEPT !.cursor = next] /\ next \in Ids
  BY <1>2 DEF CheckStep
<1>5. CASE handler' = Idle
  BY <1>3, <1>5 DEF WGTypeOK, Idle
<1>6. CASE handler' = [handler EXCEPT !.pc = "indicate", !.cursor = handler.local]
  <2>1. /\ handler' \in Handlers /\ handler'.cursor = handler.local
        /\ handler'.local = handler.local
    BY <1>1, <1>6 DEF Handlers
  <2> QED
    BY <1>1, <1>3, <2>1 DEF WGTypeOK
<1>7. CASE handler' = [handler EXCEPT !.cursor = next] /\ next \in Ids
  <2>1. /\ handler' \in Handlers /\ handler'.pc = "check" /\ handler'.cursor = next
        /\ handler'.local = handler.local
    BY <1>1, <1>7 DEF Handlers
  <2> QED
    BY <1>1, <1>3, <1>7, <2>1 DEF WGTypeOK
<1> QED
  BY <1>4, <1>5, <1>6, <1>7

(* What is left to show of an iteration of indicate_deadlock once the      *)
(* table it leaves is known to be well-formed.                             *)
LEMMA IndicateGoesOnTypeOK ==
  ASSUME WGTypeOK, At("indicate"), NEW next, NEW Q, IndicateGoesOn(next, Q),
         susContext' \in [Ids -> Contexts \cup {NoContext}],
         susContext'[handler.local] # NoContext, susContext'[handler.cursor] # NoContext
  PROVE  WGTypeOK'
<1>1. /\ handler \in Handlers /\ handler.pc = "indicate"
      /\ handler.cursor \in Ids /\ handler.local \in Ids
  BY DEF WGTypeOK, At, Idle, Handlers
<1>2. proc' \in [Proc -> ProcStates]
  BY RepliedType DEF IndicateGoesOn, IndicateReturns
<1>3. \/ handler' = Idle /\ vfs' = vfs
      \/ handler' = handler /\ vfs' = "undefined"
      \/ /\ handler' = [handler EXCEPT !.cursor = next] /\ vfs' = vfs
         /\ next \in Ids /\ susContext'[next] # NoContext
  BY DEF IndicateGoesOn, IndicateReturns
<1>4. CASE handler' = Idle /\ vfs' = vfs
  BY <1>2, <1>4 DEF WGTypeOK, Idle
<1>5. CASE handler' = handler /\ vfs' = "undefined"
  BY <1>1, <1>2, <1>5 DEF WGTypeOK
<1>6. CASE /\ handler' = [handler EXCEPT !.cursor = next] /\ vfs' = vfs
           /\ next \in Ids /\ susContext'[next] # NoContext
  <2>1. /\ handler' \in Handlers /\ handler'.pc = "indicate" /\ handler'.cursor = next
        /\ handler'.local = handler.local
    BY <1>1, <1>6 DEF Handlers
  <2> QED
    BY <1>1, <1>2, <1>6, <2>1 DEF WGTypeOK
<1> QED
  BY <1>3, <1>4, <1>5, <1>6

LEMMA IndicateStepTypeOK == WGTypeOK /\ IndicateStep => WGTypeOK'
<1> SUFFICES ASSUME WGTypeOK, IndicateStep PROVE WGTypeOK'
  OBVIOUS
<1> DEFINE cursor == handler.cursor
           next == WaitsFor(cursor)
           sender == susContext[cursor].sus_end_p
<1>1. /\ handler \in Handlers /\ At("indicate")
      /\ cursor \in Ids /\ handler.local \in Ids
      /\ susContext[handler.local] # NoContext /\ susContext[cursor] # NoContext
  BY DEF WGTypeOK, IndicateStep, At, Idle, Handlers
<1>2. ForgetWait(cursor) => /\ susContext' \in [Ids -> Contexts \cup {NoContext}]
                            /\ susContext'[handler.local] # NoContext
                            /\ susContext'[cursor] # NoContext
  BY <1>1, ForgetWaitEffect DEF WGTypeOK
<1>3. CASE next = handler.local /\ ForgetWait(cursor) /\ IndicateReturns({sender})
  BY <1>2, <1>3, RepliedType DEF WGTypeOK, IndicateReturns, Idle
<1>4. ASSUME NEW on, ForgetWait(cursor), IndicateGoesOn(on, {sender}) PROVE WGTypeOK'
  BY <1>1, <1>2, <1>4, IndicateGoesOnTypeOK
<1>5. CASE UNCHANGED susContext /\ IndicateGoesOn(next, {})
  BY <1>1, <1>5, IndicateGoesOnTypeOK DEF WGTypeOK
<1> QED
  BY <1>3, <1>4, <1>5 DEF IndicateStep

LEMMA NextTypeOK == WGTypeOK /\ [WGNext]_wgVars => WGTypeOK'
<1> SUFFICES ASSUME WGTypeOK, [WGNext]_wgVars PROVE WGTypeOK'
  OBVIOUS
<1>1. ASSUME NEW p \in Proc, EnterDeposit(p) PROVE WGTypeOK'
  BY <1>1 DEF WGTypeOK, EnterDeposit, At, Idle, Handlers, ProcStates, NoId
<1>2. ASSUME NEW p \in Proc, SuspendReceiver(p) PROVE WGTypeOK'
  BY <1>2 DEF WGTypeOK, SuspendReceiver, ProcStates
<1>3. ASSUME NEW p \in Proc, WakeReceiver(p) PROVE WGTypeOK'
  BY <1>3, RepliedType DEF WGTypeOK, WakeReceiver
<1>4. CASE LeaveDeposit
  BY <1>4, RepliedType DEF WGTypeOK, LeaveDeposit, Idle
<1>5. CASE OtherBreaks
  BY <1>5, UndefinedTypeOK DEF OtherBreaks
<1>6. ASSUME NEW local \in Ids \cup {NoId}, NEW n \in 1 .. MAX_DEST,
             NEW dests \in [1 .. n -> Ids], SuspendSender(local, dests)
      PROVE  WGTypeOK'
  BY <1>6, SuspendSenderTypeOK
<1>7. CASE UNCHANGED wgVars
  BY <1>7 DEF WGTypeOK, wgVars
<1> QED
  BY <1>1, <1>2, <1>3, <1>4, <1>5, <1>6, <1>7, CheckStepTypeOK, IndicateStepTypeOK DEF WGNext

-----------------------------------------------------------------------------
(* No cycle survives.  The argument looks at closed sets of local ids, each *)
(* of which waits for one of the set: a cycle is one, and a set that is     *)
(* closed stays so however the walk's cursor moves.                        *)

WGInv == WGTypeOK /\ NoWaitCycle /\ WalkOnEveryCycle

LEMMA InitInv == WGInit => WGInv
<1> SUFFICES ASSUME WGInit PROVE NoWaitCycle /\ WalkOnEveryCycle
  BY InitTypeOK DEF WGInv
<1>1. handler.pc = "idle" /\ \A l \in Ids : susContext[l] = NoContext
  BY DEF WGInit, Idle
<1> QED
  BY <1>1 DEF NoWaitCycle, WalkOnEveryCycle, WaitClosed

(* A step that leaves the contexts and the walk alone keeps both facts.    *)
LEMMA OtherStepsKeep ==
  ASSUME WGInv, UNCHANGED susContext,
         \/ UNCHANGED handler
         \/ /\ handler.pc \in {"idle", "sending"}
            /\ handler'.pc \in {"idle", "sending"}
  PROVE  NoWaitCycle' /\ WalkOnEveryCycle'
<1>1. \A S \in SUBSET Ids : WaitClosed(S)' <=> WaitClosed(S)
  BY DEF WaitClosed, WaitsFor
<1> QED
  BY <1>1 DEF WGInv, NoWaitCycle, WalkOnEveryCycle

(* The new context is on every cycle the suspension closes: a closed set   *)
(* without it was closed before.                                           *)
LEMMA SuspendSenderKeeps ==
  ASSUME WGInv, NEW local \in Ids \cup {NoId}, NEW dests, SuspendSender(local, dests)
  PROVE  NoWaitCycle' /\ WalkOnEveryCycle'
<1>1. CASE local = NoId
  BY <1>1, OtherStepsKeep DEF SuspendSender, Undefined
<1>2. CASE local # NoId
  <2>1. handler \in Handlers /\ handler.pc = "sending" /\ local \in Ids
    BY <1>2 DEF WGInv, WGTypeOK, SuspendSender, At, Idle, Handlers
  <2>2. handler'.pc = "check" /\ handler'.cursor = local
    BY <1>2, <2>1 DEF SuspendSender, Handlers
  <2>3. \A l \in Ids : l # local => susContext'[l] = susContext[l]
    BY <1>2 DEF WGInv, WGTypeOK, SuspendSender
  <2>4. ASSUME NEW S \in SUBSET Ids, S # {}, WaitClosed(S)', local \notin S
        PROVE  FALSE
    <3>1. WaitClosed(S)
      BY <2>3, <2>4 DEF WaitClosed, WaitsFor
    <3> QED
      BY <2>1, <2>4, <3>1 DEF WGInv, NoWaitCycle
  <2> QED
    BY <2>2, <2>4 DEF NoWaitCycle, WalkOnEveryCycle
<1> QED
  BY <1>1, <1>2

(* check_dead_lock moves along an edge, so it stays inside every closed    *)
(* set; where it gives up there is none.                                   *)
LEMMA CheckStepKeeps ==
  ASSUME WGInv, CheckStep PROVE NoWaitCycle' /\ WalkOnEveryCycle'
<1> DEFINE cursor == handler.cursor
           next == WaitsFor(cursor)
<1>1. /\ handler \in Handlers /\ handler.pc = "check"
      /\ cursor \in Ids /\ handler.local \in Ids
  BY DEF WGInv, WGTypeOK, CheckStep, At, Idle, Handlers
<1>2. \A S \in SUBSET Ids : WaitClosed(S)' <=> WaitClosed(S)
  BY DEF CheckStep, WaitClosed, WaitsFor
<1>3. ASSUME NEW S \in SUBSET Ids, S # {}, WaitClosed(S)
      PROVE  cursor \in S /\ susContext[cursor] # NoContext /\ next \in S
  BY <1>1, <1>3 DEF WGInv, WalkOnEveryCycle, WaitClosed
<1>4. CASE handler' = Idle /\ (susContext[cursor] = NoContext \/ next = NoId)
  <2>1. \A S \in SUBSET Ids : WaitClosed(S) => S = {}
    BY <1>3, <1>4 DEF Ids, NoId
  <2> QED
    BY <1>2, <1>4, <2>1 DEF NoWaitCycle, WalkOnEveryCycle, Idle
<1>5. CASE handler' = [handler EXCEPT !.pc = "indicate", !.cursor = handler.local]
           /\ next = handler.local
  <2>1. handler'.pc = "indicate" /\ handler'.cursor = next
    BY <1>1, <1>5 DEF Handlers
  <2> QED
    BY <1>2, <1>3, <2>1 DEF NoWaitCycle, WalkOnEveryCycle
<1>6. CASE handler' = [handler EXCEPT !.cursor = next]
  <2>1. handler'.pc = "check" /\ handler'.cursor = next
    BY <1>1, <1>6 DEF Handlers
  <2> QED
    BY <1>2, <1>3, <2>1 DEF NoWaitCycle, WalkOnEveryCycle
<1>7. \/ handler' = Idle /\ (susContext[cursor] = NoContext \/ next = NoId)
      \/ handler' = [handler EXCEPT !.pc = "indicate", !.cursor = handler.local]
         /\ next = handler.local
      \/ handler' = [handler EXCEPT !.cursor = next]
  BY DEF CheckStep
<1> QED
  BY <1>4, <1>5, <1>6, <1>7

(* Clearing the context under the cursor leaves no closed set at all.      *)
LEMMA ForgetWaitBreaksCycles ==
  ASSUME WGInv, handler.pc = "indicate", ForgetWait(handler.cursor)
  PROVE  \A S \in SUBSET Ids : WaitClosed(S)' => S = {}
<1>1. handler.cursor \in Ids /\ susContext[handler.cursor] # NoContext
  BY DEF WGInv, WGTypeOK
<1>2. PICK cursor \in Ids : cursor = handler.cursor
  BY <1>1
<1>3. /\ susContext'[cursor].suspened_for[1] = NoId
      /\ \A k \in Ids : k # cursor => susContext'[k] = susContext[k]
  BY <1>1, <1>2, ForgetWaitEffect DEF WGInv, WGTypeOK
<1> SUFFICES ASSUME NEW S \in SUBSET Ids, WaitClosed(S)', S # {} PROVE FALSE
  OBVIOUS
<1>4. cursor \notin S
  <2>1. NoId \notin S
    BY DEF Ids, NoId
  <2> QED
    BY <1>3, <2>1 DEF WaitClosed, WaitsFor
<1>5. WaitClosed(S)
  BY <1>3, <1>4 DEF WaitClosed, WaitsFor
<1> QED
  BY <1>2, <1>4, <1>5 DEF WGInv, WalkOnEveryCycle

(* indicate_deadlock clears an edge of every cycle, or has not started to  *)
(* and moves along the first one.                                          *)
LEMMA IndicateStepKeeps ==
  ASSUME WGInv, IndicateStep PROVE NoWaitCycle' /\ WalkOnEveryCycle'
<1> DEFINE cursor == handler.cursor
           next == WaitsFor(cursor)
<1>1. handler \in Handlers /\ handler.pc = "indicate" /\ cursor \in Ids
  BY DEF WGInv, WGTypeOK, IndicateStep, At, Idle, Handlers
<1>2. CASE ForgetWait(cursor)
  BY <1>1, <1>2, ForgetWaitBreaksCycles DEF NoWaitCycle, WalkOnEveryCycle
<1>3. CASE UNCHANGED susContext /\ IndicateGoesOn(next, {})
  <2>1. \A S \in SUBSET Ids : WaitClosed(S)' <=> WaitClosed(S)
    BY <1>3 DEF WaitClosed, WaitsFor
  <2>2. ASSUME NEW S \in SUBSET Ids, S # {}, WaitClosed(S)
        PROVE  cursor \in S /\ next \in S /\ susContext[next] # NoContext
    BY <1>1, <2>2 DEF WGInv, WalkOnEveryCycle, WaitClosed
  <2>3. CASE handler' = Idle /\ (next \notin Ids \/ susContext'[next] = NoContext)
    <3>1. \A S \in SUBSET Ids : WaitClosed(S) => S = {}
      BY <1>3, <2>2, <2>3
    <3> QED
      BY <2>1, <2>3, <3>1 DEF NoWaitCycle, WalkOnEveryCycle, Idle
  <2>4. CASE handler' = handler /\ next \notin Ids
    BY <1>1, <2>1, <2>2, <2>4 DEF NoWaitCycle, WalkOnEveryCycle
  <2>5. CASE handler' = [handler EXCEPT !.cursor = next]
    <3>1. handler'.pc = "indicate" /\ handler'.cursor = next
      BY <1>1, <2>5 DEF Handlers
    <3> QED
      BY <2>1, <2>2, <3>1 DEF NoWaitCycle, WalkOnEveryCycle
  <2> QED
    BY <1>3, <2>3, <2>4, <2>5 DEF IndicateGoesOn, IndicateReturns
<1> QED
  BY <1>2, <1>3 DEF IndicateStep

LEMMA NextInv == WGInv /\ [WGNext]_wgVars => WGInv'
<1> SUFFICES ASSUME WGInv, [WGNext]_wgVars PROVE NoWaitCycle' /\ WalkOnEveryCycle'
  BY NextTypeOK DEF WGInv
<1>1. ASSUME NEW p \in Proc, EnterDeposit(p) PROVE NoWaitCycle' /\ WalkOnEveryCycle'
  BY <1>1, OtherStepsKeep DEF EnterDeposit, At, Idle
<1>2. ASSUME NEW p \in Proc, SuspendReceiver(p) \/ WakeReceiver(p)
      PROVE  NoWaitCycle' /\ WalkOnEveryCycle'
  BY <1>2, OtherStepsKeep DEF SuspendReceiver, WakeReceiver
<1>3. CASE LeaveDeposit
  BY <1>3, OtherStepsKeep DEF LeaveDeposit, At, Idle
<1>4. CASE OtherBreaks
  BY <1>4, OtherStepsKeep DEF OtherBreaks, Undefined
<1>5. ASSUME NEW local \in Ids \cup {NoId}, NEW n \in 1 .. MAX_DEST,
             NEW dests \in [1 .. n -> Ids], SuspendSender(local, dests)
      PROVE  NoWaitCycle' /\ WalkOnEveryCycle'
  BY <1>5, SuspendSenderKeeps
<1>6. CASE UNCHANGED wgVars
  BY <1>6, OtherStepsKeep DEF wgVars
<1> QED
  BY <1>1, <1>2, <1>3, <1>4, <1>5, <1>6, CheckStepKeeps, IndicateStepKeeps DEF WGNext

-----------------------------------------------------------------------------
(* The results.                                                            *)

(* The context table and the walk keep their types: in particular both     *)
(* walks only ever dereference a context that exists.                      *)
THEOREM WGTypeCorrect == WGSafety => []WGTypeOK
<1>1. WGInit => WGTypeOK
  BY InitTypeOK
<1>2. WGTypeOK /\ [WGNext]_wgVars => WGTypeOK'
  BY NextTypeOK
<1> QED
  BY <1>1, <1>2, PTL DEF WGSafety

(* However many mailboxes and senders there are, no cycle of senders that  *)
(* wait for each other's mailbox is left when a deposit's handler is done. *)
THEOREM WaitCyclesAreBroken == WGSafety => []NoWaitCycle
<1>1. WGInit => WGInv
  BY InitInv
<1>2. WGInv /\ [WGNext]_wgVars => WGInv'
  BY NextInv
<1>3. WGInv => NoWaitCycle
  BY DEF WGInv
<1> QED
  BY <1>1, <1>2, <1>3, PTL DEF WGSafety

(* The walks never run around a cycle that does not contain their cursor.  *)
THEOREM WalksMeetEveryCycle == WGSafety => []WalkOnEveryCycle
<1>1. WGInit => WGInv
  BY InitInv
<1>2. WGInv /\ [WGNext]_wgVars => WGInv'
  BY NextInv
<1>3. WGInv => WalkOnEveryCycle
  BY DEF WGInv
<1> QED
  BY <1>1, <1>2, <1>3, PTL DEF WGSafety

=============================================================================
