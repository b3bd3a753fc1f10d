-------------------------- MODULE AliasTableProofs --------------------------
(***************************************************************************)
(* For any names, commands and size of the overflow table: the table keeps *)
(* its type, holds a name once, and behaves as the map of AliasMap.        *)
(*                                                                         *)
(* HeldOnce is not inductive by itself: a name that moves into an empty    *)
(* place of the main table must not be in the overflow table already.      *)
(* Settled adds that, and AddSets shows what one addition does to a        *)
(* settled table; the hash function may be anything.                       *)
(***************************************************************************)
EXTENDS AliasTable, SequenceTheorems, TLAPS

Settled(t) ==
  /\ t \in Tables
  /\ \A k \in Key : /\ \A i, j \in Overflowed(t, k) : i = j
                    /\ Overflowed(t, k) # {} => Taken(t, k) /\ ~Placed(t, k)

\* What one addition must leave: k stands for v, the others for what they did.
SetTo(t, u, k, v) == \A q \in Key : get(u, q) = IF q = k THEN v ELSE get(t, q)

LEMMA PlaceOfKey == \A k \in Key : get_hash(k) \in Places
  BY DEF Places

\* An entry is never the empty one.
LEMMA EntryIsTaken == \A e \in Entries : e # NoEntry
<1> SUFFICES ASSUME NEW e \in Entries PROVE e # NoEntry
  OBVIOUS
<1>1. "val" \in DOMAIN e
  BY DEF Entries
<1>2. "val" \notin DOMAIN NoEntry
  BY DEF NoEntry
<1> QED
  BY <1>1, <1>2

LEMMA NewEntry == ASSUME NEW k \in Key, NEW v \in Val
                  PROVE  [key |-> k, val |-> v] \in Entries
  BY DEF Entries

\* The search of the overflow table finds the only match.
LEMMA FirstOfOne ==
  ASSUME NEW S, S \subseteq Nat, NEW i \in S, \A a, b \in S : a = b
  PROVE  First(S) = i
<1>1. \A j \in S : i <= j
  OBVIOUS
<1> QED
  BY <1>1 DEF First

\* The name is placed in the main table, new or for the second time.
LEMMA AddInMain ==
  ASSUME NEW t, Settled(t), NEW k \in Key, NEW v \in Val, ~Taken(t, k) \/ Placed(t, k)
  PROVE  Settled(InMain(t, k, v)) /\ SetTo(t, InMain(t, k, v), k, v)
<1> DEFINE h == get_hash(k)
           e == [key |-> k, val |-> v]
           u == InMain(t, k, v)
<1>1. h \in Places /\ e \in Entries /\ e # NoEntry /\ e.key = k /\ e.val = v
  BY PlaceOfKey, NewEntry, EntryIsTaken
<1>2. t \in Tables
  BY DEF Settled
<1>3. u \in Tables /\ u.ov = t.ov /\ u.main = [t.main EXCEPT ![h] = e]
  BY <1>1, <1>2 DEF InMain, Tables
<1>4. u.main[h] = e /\ \A g \in Places : g # h => u.main[g] = t.main[g]
  BY <1>1, <1>2, <1>3 DEF Tables
<1>5. \A q \in Key : Overflowed(u, q) = Overflowed(t, q)
  BY <1>3 DEF Overflowed
<1>6. Overflowed(t, k) = {}
  BY DEF Settled
<1>7. ASSUME NEW q \in Key
      PROVE  IF q = k THEN Taken(u, q) /\ Placed(u, q)
             ELSE IF get_hash(q) = h THEN Taken(u, q) /\ ~Placed(u, q) /\ ~Placed(t, q)
             ELSE Taken(u, q) = Taken(t, q) /\ Placed(u, q) = Placed(t, q)
  <2>1. CASE q = k
    BY <1>1, <1>4, <2>1 DEF Taken, Placed
  <2>2. CASE q # k /\ get_hash(q) = h
    BY <1>1, <1>4, <2>2 DEF Taken, Placed
  <2>3. CASE q # k /\ get_hash(q) # h
    BY <1>4, <2>3, PlaceOfKey DEF Taken, Placed
  <2> QED
    BY <2>1, <2>2, <2>3
<1>8. Settled(u)
  BY <1>3, <1>5, <1>6, <1>7, u \in Tables DEF Settled
<1>9. ASSUME NEW q \in Key
      PROVE  get(u, q) = IF q = k THEN v ELSE get(t, q)
  <2>1. CASE q = k
    BY <1>1, <1>4, <1>7, <2>1 DEF get
  <2>2. CASE q # k /\ get_hash(q) = h
    <3>1. Overflowed(t, q) # {} => Taken(t, q)
      BY DEF Settled
    <3> QED
      BY <1>3, <1>5, <1>7, <2>2, <3>1 DEF get
  <2>3. CASE q # k /\ get_hash(q) # h
    BY <1>3, <1>4, <1>5, <1>7, <2>3, PlaceOfKey DEF get
  <2> QED
    BY <2>1, <2>2, <2>3
<1> QED
  BY <1>8, <1>9 DEF SetTo

\* The name is new and its place is taken: it goes behind the overflow entries.
LEMMA AddBehind ==
  ASSUME NEW t, Settled(t), NEW k \in Key, NEW v \in Val,
         Taken(t, k), ~Placed(t, k), Overflowed(t, k) = {}
  PROVE  /\ Settled(InOverflow(t, k, v)) /\ SetTo(t, InOverflow(t, k, v), k, v)
         /\ Len(InOverflow(t, k, v).ov) = Len(t.ov) + 1
<1> DEFINE e == [key |-> k, val |-> v]
           u == InOverflow(t, k, v)
           n == Len(t.ov) + 1
<1>1. t \in Tables /\ t.ov \in Seq(Entries) /\ e \in Entries /\ e.key = k /\ e.val = v
  BY NewEntry DEF Settled, Tables
<1>2. u \in Tables /\ u.main = t.main /\ u.ov = Append(t.ov, e)
  BY <1>1, AppendProperties DEF InOverflow, Tables
<1>3. /\ DOMAIN t.ov = 1 .. Len(t.ov) /\ DOMAIN u.ov = 1 .. n /\ u.ov[n] = e
      /\ Len(u.ov) = n /\ n \in Nat
      /\ \A i \in DOMAIN t.ov : u.ov[i] = t.ov[i] /\ i # n
  BY <1>1, <1>2, AppendProperties
<1>4. Overflowed(u, k) = {n}
  BY <1>1, <1>3 DEF Overflowed
<1>5. \A q \in Key : q # k => Overflowed(u, q) = Overflowed(t, q)
  BY <1>1, <1>3 DEF Overflowed
<1>6. \A q \in Key : Taken(u, q) = Taken(t, q) /\ Placed(u, q) = Placed(t, q)
  BY <1>2 DEF Taken, Placed
<1>7. Settled(u)
  BY <1>2, <1>4, <1>5, <1>6 DEF Settled
<1>8. get(u, k) = v
  <2>1. First(Overflowed(u, k)) = n
    BY <1>3, <1>4, FirstOfOne
  <2> QED
    BY <1>1, <1>3, <1>4, <1>6, <2>1 DEF get
<1>9. ASSUME NEW q \in Key, q # k
      PROVE  get(u, q) = get(t, q)
  <2>1. CASE Overflowed(t, q) = {}
    BY <1>2, <1>5, <1>6, <1>9, <2>1 DEF get
  <2>2. CASE Overflowed(t, q) # {}
    <3> PICK i \in Overflowed(t, q) : TRUE
      BY <2>2
    <3>1. Overflowed(t, q) \subseteq Nat /\ i \in DOMAIN t.ov
      BY <1>3 DEF Overflowed
    <3>2. First(Overflowed(t, q)) = i
      BY <3>1, FirstOfOne DEF Settled
    <3> QED
      BY <1>2, <1>3, <1>5, <1>6, <1>9, <3>1, <3>2 DEF get
  <2> QED
    BY <2>1, <2>2
<1> QED
  BY <1>3, <1>7, <1>8, <1>9 DEF SetTo

\* The name is in the overflow table: its command is replaced there.
LEMMA AddAgain ==
  ASSUME NEW t, Settled(t), NEW k \in Key, NEW v \in Val,
         Taken(t, k), ~Placed(t, k), Overflowed(t, k) # {}
  PROVE  /\ Settled(InOverflow(t, k, v)) /\ SetTo(t, InOverflow(t, k, v), k, v)
         /\ Len(InOverflow(t, k, v).ov) = Len(t.ov)
<1> DEFINE u == InOverflow(t, k, v)
<1> PICK n \in Overflowed(t, k) : TRUE
  OBVIOUS
<1> DEFINE e == [t.ov[n] EXCEPT !.val = v]
<1>1. t \in Tables /\ t.ov \in Seq(Entries) /\ DOMAIN t.ov = 1 .. Len(t.ov) /\ Len(t.ov) \in Nat
  BY DEF Settled, Tables
<1>2. n \in DOMAIN t.ov /\ t.ov[n] \in Entries /\ t.ov[n].key = k
  BY <1>1 DEF Overflowed
<1>3. First(Overflowed(t, k)) = n
  <2>1. Overflowed(t, k) \subseteq Nat
    BY <1>1 DEF Overflowed
  <2> QED
    BY <2>1, FirstOfOne DEF Settled
<1>4. e \in Entries /\ e.key = k /\ e.val = v
  BY <1>2 DEF Entries
<1>5. u.main = t.main /\ u.ov = [t.ov EXCEPT ![n] = e] /\ u = [t EXCEPT !.ov = [t.ov EXCEPT ![n] = e]]
  BY <1>1, <1>2, <1>3 DEF InOverflow, Tables
<1>6. u.ov \in Seq(Entries) /\ Len(u.ov) = Len(t.ov)
  BY <1>1, <1>2, <1>4, <1>5, ExceptSeq
<1>7. u \in Tables
  BY <1>1, <1>5, <1>6 DEF Tables
<1>8. DOMAIN u.ov = DOMAIN t.ov /\ u.ov[n] = e /\ \A i \in DOMAIN t.ov : i # n => u.ov[i] = t.ov[i]
  BY <1>1, <1>2, <1>5
<1>9. \A q \in Key : Overflowed(u, q) = Overflowed(t, q)
  <2>1. \A i \in DOMAIN t.ov : u.ov[i].key = t.ov[i].key
    BY <1>2, <1>4, <1>8
  <2> QED
    BY <1>8, <2>1 DEF Overflowed
<1>10. \A q \in Key : Taken(u, q) = Taken(t, q) /\ Placed(u, q) = Placed(t, q)
  BY <1>5 DEF Taken, Placed
<1>11. Settled(u)
  BY <1>7, <1>9, <1>10 DEF Settled
<1>12. get(u, k) = v
  BY <1>3, <1>4, <1>8, <1>9, <1>10 DEF get
<1>13. ASSUME NEW q \in Key, q # k
       PROVE  get(u, q) = get(t, q)
  <2>1. CASE Overflowed(t, q) = {}
    BY <1>5, <1>9, <1>10, <2>1 DEF get
  <2>2. CASE Overflowed(t, q) # {}
    <3> PICK i \in Overflowed(t, q) : TRUE
      BY <2>2
    <3>1. Overflowed(t, q) \subseteq Nat /\ i \in DOMAIN t.ov /\ t.ov[i].key = q
      BY <1>1 DEF Overflowed
    <3>2. First(Overflowed(t, q)) = i
      BY <3>1, FirstOfOne DEF Settled
    <3> QED
      BY <1>2, <1>5, <1>8, <1>9, <1>10, <1>13, <3>1, <3>2 DEF get
  <2> QED
    BY <2>1, <2>2
<1> QED
  BY <1>6, <1>11, <1>12, <1>13 DEF SetTo

-----------------------------------------------------------------------------
TableInv == TableOK /\ Settled(ar)

\* The empty table is settled, and is the empty map.
LEMMA InitSettled == TableInit => TableInv /\ Map!MapInit
<1> SUFFICES ASSUME TableInit PROVE TableInv /\ Map!MapInit
  OBVIOUS
<1>1. ar = init /\ overrun = FALSE
  BY DEF TableInit
<1>2. ar \in Tables /\ ar.ov = <<>> /\ Len(ar.ov) = 0
  BY <1>1 DEF init, Tables
<1>3. \A k \in Key : Overflowed(ar, k) = {} /\ ~Taken(ar, k)
  BY <1>1, <1>2, PlaceOfKey DEF Overflowed, Taken, init
<1>4. TableInv
  <2>1. TableOK
    <3>1. overrun \in BOOLEAN
      BY <1>1
    <3>2. Len(ar.ov) <= MAX_OV
      BY <1>2, OverflowAssumption
    <3> QED
      BY <1>2, <3>1, <3>2 DEF TableOK
  <2>2. Settled(ar)
    BY <1>2, <1>3 DEF Settled
  <2> QED
    BY <2>1, <2>2 DEF TableInv
<1>5. [k \in Key |-> get(ar, k)] = [k \in Key |-> NoVal]
  BY <1>3 DEF get
<1> QED
  BY <1>4, <1>5 DEF Map!MapInit

\* One addition keeps the invariant and sets one name of the map.
LEMMA AddSets == ASSUME TableInv, NEW k \in Key, NEW v \in Val, Add(k, v)
                 PROVE  /\ TableInv' /\ (SetTo(ar, ar', k, v) \/ overrun')
                        /\ Map!Set(k, v) \/ UNCHANGED [q \in Key |-> get(ar, q)]
<1>1. CASE Overruns(ar, k)
  <2>1. ar' = ar /\ overrun' = TRUE
    BY <1>1 DEF Add
  <2> QED
    BY <2>1 DEF TableInv, TableOK
<1>2. CASE ~Overruns(ar, k)
  <2>1. ar' = added(ar, k, v) /\ overrun' = overrun
    BY <1>2 DEF Add
  <2>2. Settled(ar) /\ Len(ar.ov) <= MAX_OV /\ overrun \in BOOLEAN /\ Len(ar.ov) \in Nat
    BY DEF TableInv, TableOK, Tables
  <2>3. Settled(ar') /\ SetTo(ar, ar', k, v) /\ Len(ar'.ov) <= MAX_OV
    <3>1. CASE ~Taken(ar, k) \/ Placed(ar, k)
      <4>1. ar' = InMain(ar, k, v)
        BY <2>1, <3>1 DEF added
      <4>2. ar'.ov = ar.ov
        BY <4>1, <2>2 DEF InMain, Settled, Tables
      <4> QED
        BY <2>2, <3>1, <4>1, <4>2, AddInMain
    <3>2. CASE Taken(ar, k) /\ ~Placed(ar, k) /\ Overflowed(ar, k) = {}
      <4>1. ar' = InOverflow(ar, k, v)
        BY <2>1, <3>2 DEF added
      <4>2. Len(ar.ov) + 1 <= MAX_OV
        BY <1>2, <2>2, <3>2, OverflowAssumption DEF Overruns
      <4> QED
        BY <2>2, <3>2, <4>1, <4>2, AddBehind
    <3>3. CASE Taken(ar, k) /\ ~Placed(ar, k) /\ Overflowed(ar, k) # {}
      <4>1. ar' = InOverflow(ar, k, v)
        BY <2>1, <3>3 DEF added
      <4> QED
        BY <2>2, <3>3, <4>1, AddAgain
    <3> QED
      BY <3>1, <3>2, <3>3
  <2>4. TableInv'
    BY <2>1, <2>2, <2>3 DEF TableInv, TableOK, Settled
  <2>5. [q \in Key |-> get(ar', q)] = [[q \in Key |-> get(ar, q)] EXCEPT ![k] = v]
    BY <2>3 DEF SetTo
  <2> QED
    BY <2>3, <2>4, <2>5 DEF Map!Set
<1> QED
  BY <1>1, <1>2

\* Every step of the table: an addition or nothing.
LEMMA TableStep == TableInv /\ [TableNext]_tableVars
                     => TableInv' /\ [Map!MapNext]_[k \in Key |-> get(ar, k)]
<1> SUFFICES ASSUME TableInv, [TableNext]_tableVars
             PROVE  TableInv' /\ [Map!MapNext]_[k \in Key |-> get(ar, k)]
  OBVIOUS
<1>1. CASE TableNext
  <2> PICK k \in Key, v \in Val : Add(k, v)
    BY <1>1 DEF TableNext
  <2> QED
    BY AddSets DEF Map!MapNext
<1>2. CASE UNCHANGED tableVars
  BY <1>2 DEF tableVars, TableInv, TableOK
<1> QED
  BY <1>1, <1>2

\* The table keeps its type: no entry is ever written past MAX_OV unnoticed
\* (add, assoc_ar.c).
THEOREM TableCorrect == TableSpec => []TableOK
<1>1. TableInv => TableOK
  BY DEF TableInv
<1> QED
  BY <1>1, InitSettled, TableStep, PTL DEF TableSpec

\* A name is never held twice, so add and get always meet the same entry.
THEOREM NamesAreHeldOnce == TableSpec => []HeldOnce
<1>1. TableInv => HeldOnce
  BY DEF TableInv, Settled, HeldOnce
<1> QED
  BY <1>1, InitSettled, TableStep, PTL DEF TableSpec

\* The table implements the map: names that share a place never disturb each
\* other (add, get).
THEOREM TableIsAMap == TableSpec => IsAMap
  BY InitSettled, TableStep, PTL DEF TableSpec, IsAMap, Map!MapSpec
=============================================================================
