----------------------------- MODULE AliasTable -----------------------------
(***************************************************************************)
(* The associative array of the shell (assoc_ar.c): a main table indexed   *)
(* by a hash of one byte, and an overflow table of MAX_OV entries that is  *)
(* searched from its start for the names whose place is taken.             *)
(*                                                                         *)
(* A name is a sequence of character codes, since which names share a      *)
(* place is up to get_hash; a command is a value.  Places no name of Key   *)
(* hashes to are left out.  hit_idx counts the additions at a place and is *)
(* only ever compared with -1: main[h] = NoEntry stands for hit_idx[h] = -1.*)
(***************************************************************************)
EXTENDS Integers, SequencesExt

CONSTANTS Key,      \* names of aliases
          Val,      \* what they stand for
          NoVal,    \* get's NULL
          MAX_OV    \* max_ov_tbl_size, 8 in init

ASSUME KeyAssumption == \A k \in Key : k \in Seq(1 .. 127)
ASSUME ValAssumption == NoVal \notin Val
ASSUME OverflowAssumption == MAX_OV \in Nat

VARIABLES ar,        \* the table
          overrun    \* add wrote past the overflow table: nothing holds any more

tableVars == <<ar, overrun>>

MAX_CUR == 256

\* The sum of the characters, its two low bytes added up, in one byte.
get_hash(k) == LET sum == FoldLeft(+, 0, k)
               IN ((sum % 256) + ((sum \div 256) % 256)) % MAX_CUR

Places == {get_hash(k) : k \in Key}
\* It follows from KeyAssumption by induction over the name.
ASSUME PlacesAssumption == Places \subseteq 0 .. MAX_CUR - 1

Entries == [key : Key, val : Val]
NoEntry == [key |-> <<>>]

init == [main |-> [h \in Places |-> NoEntry], ov |-> <<>>]

Tables == [main : [Places -> Entries \cup {NoEntry}], ov : Seq(Entries)]

TableOK == /\ ar \in Tables
           /\ Len(ar.ov) <= MAX_OV
           /\ overrun \in BOOLEAN

\* The overflow entries that hold k.
Overflowed(t, k) == {i \in DOMAIN t.ov : t.ov[i].key = k}
Taken(t, k) == t.main[get_hash(k)] # NoEntry
Placed(t, k) == Taken(t, k) /\ t.main[get_hash(k)].key = k

\* The first match, as the loop finds it.
First(S) == CHOOSE i \in S : \A j \in S : i <= j

\* A slip get avoids: the name found at its place is not compared.
getAnyName(t, k) == IF Taken(t, k) THEN t.main[get_hash(k)].val ELSE NoVal
get(t, k) == IF ~Taken(t, k) THEN NoVal
             ELSE IF Placed(t, k) THEN t.main[get_hash(k)].val
             ELSE IF Overflowed(t, k) = {} THEN NoVal
             ELSE t.ov[First(Overflowed(t, k))].val

\* A new name needs an overflow entry and none is left: the table is written past.
\* A slip Overruns avoids: one entry too many.
OverrunsLate(t, k) == /\ Taken(t, k) /\ ~Placed(t, k) /\ Overflowed(t, k) = {}
                      /\ Len(t.ov) > MAX_OV
Overruns(t, k) == /\ Taken(t, k) /\ ~Placed(t, k) /\ Overflowed(t, k) = {}
                  /\ Len(t.ov) >= MAX_OV

InMain(t, k, v) == [t EXCEPT !.main[get_hash(k)] = [key |-> k, val |-> v]]
\* A slip InOverflow avoids: the overflow table is not searched.
AlwaysAppended(t, k, v) == [t EXCEPT !.ov = Append(@, [key |-> k, val |-> v])]
InOverflow(t, k, v) ==
  IF Overflowed(t, k) = {} THEN [t EXCEPT !.ov = Append(@, [key |-> k, val |-> v])]
  ELSE [t EXCEPT !.ov[First(Overflowed(t, k))].val = v]

\* A slip added avoids: a name that has a command keeps it.
addedOnce(t, k, v) == IF get(t, k) # NoVal THEN t
                      ELSE IF Taken(t, k) THEN InOverflow(t, k, v) ELSE InMain(t, k, v)
added(t, k, v) == IF ~Taken(t, k) \/ Placed(t, k) THEN InMain(t, k, v)
                  ELSE InOverflow(t, k, v)

\* write_alias: one line per place of the main table, in the order of the places.
write_alias(t) ==
  LET used == {h \in Places : t.main[h] # NoEntry}
      ordered == CHOOSE s \in [1 .. Cardinality(used) -> used] :
                   \A i, j \in DOMAIN s : i < j => s[i] < s[j]
  IN  [i \in DOMAIN ordered |-> t.main[ordered[i]]]
-----------------------------------------------------------------------------
TableInit == ar = init /\ overrun = FALSE

Add(k, v) == /\ ~overrun
             /\ IF Overruns(ar, k) THEN overrun' = TRUE /\ UNCHANGED ar
                ELSE ar' = added(ar, k, v) /\ UNCHANGED overrun

TableNext == \E k \in Key, v \in Val : Add(k, v)

TableSpec == TableInit /\ [][TableNext]_tableVars
-----------------------------------------------------------------------------
(* Names that share a place must not disturb each other, whichever came    *)
(* first: until the overflow table is written past, the table behaves as   *)
(* the map of AliasMap (add, get).                                         *)
Map == INSTANCE AliasMap WITH map <- [k \in Key |-> get(ar, k)]
IsAMap == Map!MapSpec

(* A name is held once: were it in the main table and in the overflow      *)
(* table, or twice in the latter, add and get could take different ones.   *)
HeldOnce ==
  \A k \in Key : /\ \A i, j \in Overflowed(ar, k) : i = j
                 /\ Placed(ar, k) => Overflowed(ar, k) = {}
=============================================================================
