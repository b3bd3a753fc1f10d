------------------------------ MODULE FsProofs ------------------------------
(***************************************************************************)
(* For any sound disks, cache, tables and lists of devices: every buffer   *)
(* that a request took is put back, but for the block of the bitmap that   *)
(* the scan leaves behind (FsInv); what is printed for a file are its      *)
(* blocks as they were visited (RunsInv); the counters stay in their types *)
(* (TypeInv); a scan measures every allocated inode (ScanInv); a list has  *)
(* every block of its file (ListInv); and the statistics of a directory    *)
(* are those of everything under it (TreeInv).                             *)
(*                                                                         *)
(* What is held while a tree is walked is owed by the frames: each of      *)
(* their items "put" and "done" will put one block back (Pending).  Items  *)
(* are counted from the end of a frame, where they keep their places.      *)
(***************************************************************************)
EXTENDS FsDevices, Inductions, FiniteSetTheorems, TLAPS

Item == [op : Ops, at : Nat]
FrameOf(d) == [ip : DOMAIN d.inode, left : Int, todo : Seq(Item)]

PutsBack == {"put", "done"}
Owed(todo) == {k \in 1 .. Len(todo) : todo[Len(todo) + 1 - k].op \in PutsBack}
Pending(frames) == {p \in (DOMAIN frames) \X Nat : p[2] \in Owed(frames[p[1]].todo)}

\* What an item points to is there.
ItemSound(d, i, x) ==
  /\ x.op \in {"direct", "zone"} => ZoneSound(d, i, x.at)
  /\ x.op = "single" => SingleSound(d, i, x.at)
  /\ x.op = "double" => DoubleSound(d, i, x.at)
  /\ x.op = "block" /\ req = "frag" => x.at \in DOMAIN d.entries
  /\ x.op = "entry" => x.at \in DOMAIN d.inode \cup {0}

FrameSound(f) == /\ \A t \in DOMAIN f.todo : ItemSound(disk, f.ip, f.todo[t])
                 /\ req = "frag" /\ ~disk.inode[f.ip].dir => f.todo = <<>>

StackOK == /\ stack \in Seq(FrameOf(disk))
           /\ \A n \in DOMAIN stack : FrameSound(stack[n])
           /\ req \in {"blocks", "frag"} \/ (req \in {"idle", "scan"} /\ stack = <<>>)

ScanOK == /\ DOMAIN scan = {"block", "off", "scanned", "total", "max", "min"}
          /\ scan.block \in Nat /\ scan.off \in 0 .. BITS - 1
          /\ req = "scan" => scan.block < bit_blocks

\* Under what is owed lie blocks that scans have left behind.
LeftBehind(n) == \A k \in 1 .. n : held[k] = BitmapBlock(bit_blocks - 1)
HeldOK == /\ held \in Seq(Nat) /\ IsFiniteSet(Pending(stack))
          /\ IF req = "scan"
             THEN /\ held # <<>> /\ LeftBehind(Len(held) - 1)
                  /\ held[Len(held)] = BitmapBlock(scan.block)
             ELSE /\ Len(held) >= Cardinality(Pending(stack))
                  /\ LeftBehind(Len(held) - Cardinality(Pending(stack)))

JobOK == /\ DOMAIN job = {"ip", "todo"}
         /\ job.ip \in DOMAIN disk.inode \/ job = NoJob

FsInv == disk \in Disks /\ JobOK /\ StackOK /\ ScanOK /\ HeldOK

-----------------------------------------------------------------------------
(* Numbers.                                                                *)

LEMMA Sizes == BITS \in Nat \ {0} /\ NDZONES \in Nat \ {0} /\ BLOCK_SIZE \in Nat \ {0}
BY SizesAssumption

LEMMA SoundDisk ==
  ASSUME disk \in Disks
  PROVE  /\ disk.log_zone_size \in Nat /\ disk.ninodes \in Nat
         /\ disk.named \subseteq DOMAIN disk.inode /\ disk.named \subseteq 1 .. disk.ninodes
         /\ \A i \in DOMAIN disk.inode : InodeSound(disk, i)
         /\ \A z \in DOMAIN disk.indir : disk.indir[z] \in Seq(Nat)
         /\ \A b \in DOMAIN disk.entries : disk.entries[b] \in Seq((DOMAIN disk.inode \cap Nat) \cup {0})
<1>1. DiskSound(disk)
  BY DisksAssumption
<1>2. {disk.log_zone_size, disk.ninodes} \subseteq Nat
  BY <1>1 DEF DiskSound
<1> QED
  BY <1>1, <1>2 DEF DiskSound

LEMMA Bitmap ==
  ASSUME disk \in Disks
  PROVE  /\ map_bits \in Nat /\ bit_blocks \in Nat \ {0}
         /\ (bit_blocks - 1) * BITS < map_bits
         /\ \A n \in Nat : BitmapBlock(n) \in Nat
<1>1. map_bits \in Nat \ {0}
  BY SoundDisk DEF map_bits
<1>2. \A m, b \in Nat \ {0} : LET q == (m + b - 1) \div b
                              IN  q \in Nat \ {0} /\ (q - 1) * b < m
  <2> TAKE m, b \in Nat \ {0}
  <2> DEFINE q == (m + b - 1) \div b
             r == (m + b - 1) % b
  <2>1. q \in Int /\ r \in 0 .. b - 1 /\ m + b - 1 = b * q + r
    OBVIOUS
  <2>2. q > 0
    <3> SUFFICES ASSUME q <= 0 PROVE FALSE
      BY <2>1
    <3>1. b * q <= 0
      BY <2>1
    <3> QED
      BY <2>1, <3>1
  <2>3. (q - 1) * b = b * q - b
    BY <2>1
  <2> HIDE DEF q, r
  <2>4. q \in Nat \ {0} /\ (q - 1) * b < m
    BY <2>1, <2>2, <2>3
  <2> QED
    BY <2>4 DEF q
<1> QED
  BY <1>1, <1>2, Sizes DEF bit_blocks, BitmapBlock

LEMMA Blocks2 ==
  ASSUME disk \in Disks, NEW i \in DOMAIN disk.inode
  PROVE  Blocks(i) \in Int
<1>1. InodeSound(disk, i)
  BY SoundDisk
<1>2. disk.inode[i].size \in Nat
  BY <1>1 DEF InodeSound
<1> QED
  BY <1>2, Sizes DEF Blocks, Size

LEMMA Powers ==
  ASSUME disk \in Disks
  PROVE  /\ Scale \in Nat /\ blocksPerZone \in Nat \ {0}
         /\ \A n \in 0 .. blocksPerZone - 1 : 2 ^ (Scale + n) \in Nat
<1>1. Scale \in Nat
  BY SoundDisk DEF Scale
<1>2. {2 ^ Scale} \cup {2 ^ (Scale + k) : k \in 0 .. 2 ^ Scale} \subseteq Nat \ {0}
  BY PowersAssumption DEF Scale
<1>3. 2 ^ Scale \in Nat \ {0}
  BY <1>2
<1>4. \A k \in 0 .. 2 ^ Scale : 2 ^ (Scale + k) \in Nat
  BY <1>2
<1> QED
  BY <1>1, <1>3, <1>4 DEF blocksPerZone

-----------------------------------------------------------------------------
(* Items and what they owe.                                                *)

Quiet(items) == \A t \in DOMAIN items : items[t].op \notin PutsBack

\* A todo whose first item is done, with others in front of the rest.
LEMMA Replaced ==
  ASSUME NEW todo \in Seq(Item), todo # <<>>, NEW items \in Seq(Item)
  PROVE  LET new == items \o Tail(todo)
             m == Len(todo)
         IN  /\ new \in Seq(Item) /\ Len(new) = Len(items) + m - 1 /\ m \in Nat \ {0}
             /\ \A k \in 1 .. m - 1 : new[Len(new) + 1 - k] = todo[m + 1 - k]
             /\ \A k \in m .. Len(new) : /\ Len(new) + 1 - k \in DOMAIN items
                                         /\ new[Len(new) + 1 - k] = items[Len(new) + 1 - k]
<1> DEFINE new == items \o Tail(todo)
           m == Len(todo)
<1>1. m \in Nat \ {0} /\ Tail(todo) \in Seq(Item) /\ Len(Tail(todo)) = m - 1 /\ Len(items) \in Nat
  OBVIOUS
<1>2. \A k \in 1 .. m - 1 : Tail(todo)[k] = todo[k + 1]
  OBVIOUS
<1>3. new \in Seq(Item) /\ Len(new) = Len(items) + m - 1
  BY <1>1
<1>4. \A k \in 1 .. Len(items) : new[k] = items[k]
  OBVIOUS
<1>5. \A k \in 1 .. m - 1 : new[Len(items) + k] = Tail(todo)[k]
  BY <1>1
<1> HIDE DEF new, m
<1>6. ASSUME NEW k \in 1 .. m - 1 PROVE new[Len(new) + 1 - k] = todo[m + 1 - k]
  <2>1. m - k \in 1 .. m - 1 /\ Len(new) + 1 - k = Len(items) + (m - k) /\ (m - k) + 1 = m + 1 - k
    BY <1>1, <1>3
  <2> QED
    BY <1>2, <1>5, <2>1
<1>7. ASSUME NEW k \in m .. Len(new)
      PROVE  Len(new) + 1 - k \in 1 .. Len(items)
  BY <1>1, <1>3
<1>8. DOMAIN items = 1 .. Len(items)
  OBVIOUS
<1>9. \A k \in m .. Len(new) : Len(new) + 1 - k \in DOMAIN items /\ new[Len(new) + 1 - k] = items[Len(new) + 1 - k]
  BY <1>4, <1>7, <1>8
<1> QED
  BY <1>1, <1>3, <1>6, <1>9 DEF new, m

LEMMA OwedSame ==
  ASSUME NEW todo \in Seq(Item), todo # <<>>, NEW items \in Seq(Item),
         Quiet(items), todo[1].op \notin PutsBack
  PROVE  Owed(items \o Tail(todo)) = Owed(todo)
<1> DEFINE new == items \o Tail(todo)
           m == Len(todo)
<1>1. /\ new \in Seq(Item) /\ Len(new) = Len(items) + m - 1 /\ m \in Nat \ {0} /\ Len(items) \in Nat
      /\ \A k \in 1 .. m - 1 : new[Len(new) + 1 - k] = todo[m + 1 - k]
      /\ \A k \in m .. Len(new) : /\ Len(new) + 1 - k \in DOMAIN items
                                  /\ new[Len(new) + 1 - k] = items[Len(new) + 1 - k]
  BY Replaced
<1> HIDE DEF new
<1>2. \A k \in m .. Len(new) : new[Len(new) + 1 - k].op \notin PutsBack
  BY <1>1 DEF Quiet
<1>3. todo[m + 1 - m].op \notin PutsBack
  <2>1. m + 1 - m = 1
    BY <1>1
  <2> QED
    BY <2>1
<1>4. ASSUME NEW k PROVE k \in Owed(new) <=> k \in Owed(todo)
  <2>1. CASE k \in 1 .. m - 1
    <3>1. k \in 1 .. Len(new) /\ k \in 1 .. m
      BY <1>1, <2>1
    <3> QED
      BY <1>1, <2>1, <3>1 DEF Owed
  <2>2. CASE k \notin 1 .. m - 1
    <3>1. k \in 1 .. Len(new) => k \in m .. Len(new)
      BY <1>1, <2>2
    <3>2. k \in 1 .. m => k = m
      BY <1>1, <2>2
    <3> QED
      BY <1>2, <1>3, <3>1, <3>2 DEF Owed
  <2> QED
    BY <2>1, <2>2
<1> QED
  BY <1>4 DEF new

\* The last of the new items puts a block back.
LEMMA OwedMore ==
  ASSUME NEW todo \in Seq(Item), todo # <<>>, NEW items \in Seq(Item), NEW x \in Item,
         Quiet(items), x.op \in PutsBack, todo[1].op \notin PutsBack
  PROVE  /\ Owed((items \o <<x>>) \o Tail(todo)) = Owed(todo) \cup {Len(todo)}
         /\ Len(todo) \notin Owed(todo)
<1> DEFINE more == items \o <<x>>
           new == more \o Tail(todo)
           m == Len(todo)
<1>0. /\ more \in Seq(Item) /\ Len(more) = Len(items) + 1 /\ Len(items) \in Nat /\ DOMAIN more = 1 .. Len(items) + 1
      /\ more[Len(items) + 1] = x /\ \A k \in 1 .. Len(items) : more[k] = items[k]
  OBVIOUS
<1> HIDE DEF more
<1>1. /\ new \in Seq(Item) /\ Len(new) = Len(more) + m - 1 /\ m \in Nat \ {0}
      /\ \A k \in 1 .. m - 1 : new[Len(new) + 1 - k] = todo[m + 1 - k]
      /\ \A k \in m .. Len(new) : /\ Len(new) + 1 - k \in DOMAIN more
                                  /\ new[Len(new) + 1 - k] = more[Len(new) + 1 - k]
  BY <1>0, Replaced
<1> HIDE DEF new
<1>2. \A k \in m + 1 .. Len(new) : new[Len(new) + 1 - k].op \notin PutsBack
  <2> SUFFICES ASSUME NEW k \in m + 1 .. Len(new)
               PROVE  more[Len(new) + 1 - k].op \notin PutsBack
    BY <1>0, <1>1
  <2>1. Len(new) + 1 - k \in 1 .. Len(items)
    BY <1>0, <1>1
  <2>2. DOMAIN items = 1 .. Len(items)
    OBVIOUS
  <2> QED
    BY <1>0, <2>1, <2>2 DEF Quiet
<1>3. todo[m + 1 - m].op \notin PutsBack
  <2>1. m + 1 - m = 1
    BY <1>1
  <2> QED
    BY <2>1
<1>4. m \in 1 .. Len(new) /\ new[Len(new) + 1 - m].op \in PutsBack
  <2>1. m \in m .. Len(new) /\ Len(new) + 1 - m = Len(items) + 1
    BY <1>0, <1>1
  <2>2. new[Len(new) + 1 - m] = more[Len(new) + 1 - m]
    BY <1>1, <2>1
  <2>3. new[Len(new) + 1 - m] = x
    BY <1>0, <2>1, <2>2
  <2>4. m \in 1 .. Len(new)
    BY <1>1, <2>1
  <2> QED
    BY <2>3, <2>4
<1>5. ASSUME NEW k PROVE k \in Owed(new) <=> k \in Owed(todo) \cup {m}
  <2>1. CASE k \in 1 .. m - 1
    <3>1. k \in 1 .. Len(new) /\ k \in 1 .. m /\ k # m
      BY <1>0, <1>1, <2>1
    <3> QED
      BY <1>1, <2>1, <3>1 DEF Owed
  <2>2. CASE k \notin 1 .. m - 1
    <3>1. k \in 1 .. Len(new) => k = m \/ k \in m + 1 .. Len(new)
      BY <1>1, <2>2
    <3>2. k \in 1 .. m => k = m
      BY <1>1, <2>2
    <3> QED
      BY <1>2, <1>3, <1>4, <3>1, <3>2 DEF Owed
  <2> QED
    BY <2>1, <2>2
<1>6. m \notin Owed(todo)
  BY <1>3 DEF Owed
<1> QED
  BY <1>5, <1>6 DEF new, more

\* The item that puts a block back is done.
LEMMA OwedLess ==
  ASSUME NEW todo \in Seq(Item), todo # <<>>, todo[1].op \in PutsBack
  PROVE  Owed(Tail(todo)) = Owed(todo) \ {Len(todo)} /\ Len(todo) \in Owed(todo)
<1> DEFINE new == Tail(todo)
           m == Len(todo)
<1>1. /\ new \in Seq(Item) /\ Len(new) = m - 1 /\ m \in Nat \ {0}
      /\ \A k \in 1 .. m - 1 : new[k] = todo[k + 1]
  OBVIOUS
<1> HIDE DEF new
<1>2. m + 1 - m = 1 /\ m \in 1 .. m
  BY <1>1
<1>3. m \in Owed(todo)
  BY <1>2 DEF Owed
<1>4. ASSUME NEW k PROVE k \in Owed(new) <=> k \in Owed(todo) \ {m}
  <2>1. CASE k \in 1 .. m - 1
    <3>1. m - k \in 1 .. m - 1 /\ Len(new) + 1 - k = m - k /\ m + 1 - k = (m - k) + 1 /\ k # m
          /\ k \in 1 .. Len(new) /\ k \in 1 .. m
      BY <1>1, <2>1
    <3> QED
      BY <1>1, <3>1 DEF Owed
  <2>2. CASE k \notin 1 .. m - 1
    <3>1. k \notin 1 .. Len(new) /\ (k \in 1 .. m => k = m)
      BY <1>1, <2>2
    <3> QED
      BY <3>1 DEF Owed
  <2> QED
    BY <2>1, <2>2
<1> QED
  BY <1>3, <1>4 DEF new

\* The innermost frame goes on to other items.
LEMMA TopChanges ==
  ASSUME NEW d, NEW frames \in Seq(FrameOf(d)), frames # <<>>,
         NEW new \in Seq(Item), NEW l \in Int
  PROVE  LET n == Len(frames)
             after == [frames EXCEPT ![n] = [ip |-> frames[n].ip, left |-> l, todo |-> new]]
         IN  /\ after \in Seq(FrameOf(d))
             /\ Len(after) = n /\ n \in Nat \ {0} /\ n \in DOMAIN frames
             /\ DOMAIN after = DOMAIN frames
             /\ after[n].ip = frames[n].ip /\ after[n].todo = new
             /\ \A k \in DOMAIN frames : k # n => after[k] = frames[k]
             /\ frames[n].ip \in DOMAIN d.inode /\ frames[n].todo \in Seq(Item) /\ frames[n].left \in Int
<1> DEFINE n == Len(frames)
<1>1. n \in Nat \ {0} /\ n \in DOMAIN frames
  OBVIOUS
<1>2. frames[n] \in FrameOf(d)
  <2>1. \A G : frames \in Seq(G) => frames[n] \in G
    BY <1>1
  <2> QED
    BY <2>1
<1>3. [ip |-> frames[n].ip, left |-> l, todo |-> new] \in FrameOf(d)
  BY <1>2 DEF FrameOf
<1> DEFINE r == [ip |-> frames[n].ip, left |-> l, todo |-> new]
           after == [frames EXCEPT ![n] = r]
<1>4. r \in FrameOf(d) /\ r.ip = frames[n].ip /\ r.todo = new
  BY <1>3
<1> HIDE DEF r
<1>5. after \in Seq(FrameOf(d)) /\ Len(after) = n /\ DOMAIN after = DOMAIN frames
  BY <1>1, <1>4
<1>6. after[n] = r /\ \A k \in DOMAIN frames : k # n => after[k] = frames[k]
  BY <1>1
<1> QED
  BY <1>1, <1>2, <1>4, <1>5, <1>6 DEF r, FrameOf

LEMMA PendingSame ==
  ASSUME NEW d, NEW frames \in Seq(FrameOf(d)), frames # <<>>,
         NEW new \in Seq(Item), NEW l \in Int,
         Owed(new) = Owed(frames[Len(frames)].todo)
  PROVE  Pending([frames EXCEPT ![Len(frames)] = [ip |-> frames[Len(frames)].ip, left |-> l, todo |-> new]])
           = Pending(frames)
<1> DEFINE n == Len(frames)
           after == [frames EXCEPT ![n] = [ip |-> frames[n].ip, left |-> l, todo |-> new]]
<1>1. /\ DOMAIN after = DOMAIN frames /\ after[n].todo = new
      /\ \A k \in DOMAIN frames : k # n => after[k] = frames[k]
  BY TopChanges
<1> HIDE DEF after, n
<1>2. \A k \in DOMAIN frames : Owed(after[k].todo) = Owed(frames[k].todo)
  <2> SUFFICES ASSUME NEW k \in DOMAIN frames PROVE Owed(after[k].todo) = Owed(frames[k].todo)
    OBVIOUS
  <2>1. CASE k = n
    BY <1>1, <2>1 DEF n
  <2>2. CASE k # n
    BY <1>1, <2>2
  <2> QED
    BY <2>1, <2>2
<1>3. Pending(after) = Pending(frames)
  <2>1. \A p \in (DOMAIN frames) \X Nat : p[1] \in DOMAIN frames
    OBVIOUS
  <2> QED
    BY <1>1, <1>2, <2>1 DEF Pending
<1> QED
  BY <1>3 DEF after, n

LEMMA PendingMore ==
  ASSUME NEW d, NEW frames \in Seq(FrameOf(d)), frames # <<>>,
         NEW new \in Seq(Item), NEW l \in Int, NEW m \in Nat,
         m \notin Owed(frames[Len(frames)].todo),
         Owed(new) = Owed(frames[Len(frames)].todo) \cup {m}
  PROVE  /\ Pending([frames EXCEPT ![Len(frames)] = [ip |-> frames[Len(frames)].ip, left |-> l, todo |-> new]])
              = Pending(frames) \cup {<<Len(frames), m>>}
         /\ <<Len(frames), m>> \notin Pending(frames)
<1> DEFINE n == Len(frames)
           after == [frames EXCEPT ![n] = [ip |-> frames[n].ip, left |-> l, todo |-> new]]
<1>1. /\ DOMAIN after = DOMAIN frames /\ after[n].todo = new /\ n \in DOMAIN frames
      /\ \A k \in DOMAIN frames : k # n => after[k] = frames[k]
  BY TopChanges
<1>2. Owed(after[n].todo) = Owed(frames[n].todo) \cup {m} /\ m \notin Owed(frames[n].todo)
  BY <1>1
<1> HIDE DEF after, n
<1>3. ASSUME NEW p PROVE p \in Pending(after) <=> p \in Pending(frames) \cup {<<n, m>>}
  <2>1. CASE p \in (DOMAIN frames) \X Nat
    <3>1. p[1] \in DOMAIN frames /\ p[2] \in Nat /\ p = <<p[1], p[2]>>
      BY <2>1
    <3>2. CASE p[1] = n
      BY <1>1, <1>2, <2>1, <3>1, <3>2 DEF Pending
    <3>3. CASE p[1] # n
      BY <1>1, <2>1, <3>1, <3>3 DEF Pending
    <3> QED
      BY <3>2, <3>3
  <2>2. CASE p \notin (DOMAIN frames) \X Nat
    BY <1>1, <2>2 DEF Pending
  <2> QED
    BY <2>1, <2>2
<1>4. <<n, m>> \notin Pending(frames)
  BY <1>2 DEF Pending
<1> QED
  BY <1>3, <1>4 DEF after, n

LEMMA PendingLess ==
  ASSUME NEW d, NEW frames \in Seq(FrameOf(d)), frames # <<>>,
         NEW new \in Seq(Item), NEW l \in Int, NEW m \in Nat,
         m \in Owed(frames[Len(frames)].todo),
         Owed(new) = Owed(frames[Len(frames)].todo) \ {m}
  PROVE  /\ Pending([frames EXCEPT ![Len(frames)] = [ip |-> frames[Len(frames)].ip, left |-> l, todo |-> new]])
              = Pending(frames) \ {<<Len(frames), m>>}
         /\ <<Len(frames), m>> \in Pending(frames)
<1> DEFINE n == Len(frames)
           after == [frames EXCEPT ![n] = [ip |-> frames[n].ip, left |-> l, todo |-> new]]
<1>1. /\ DOMAIN after = DOMAIN frames /\ after[n].todo = new /\ n \in DOMAIN frames
      /\ \A k \in DOMAIN frames : k # n => after[k] = frames[k]
  BY TopChanges
<1>2. Owed(after[n].todo) = Owed(frames[n].todo) \ {m} /\ m \in Owed(frames[n].todo)
  BY <1>1
<1> HIDE DEF after, n
<1>3. ASSUME NEW p PROVE p \in Pending(after) <=> p \in Pending(frames) \ {<<n, m>>}
  <2>1. CASE p \in (DOMAIN frames) \X Nat
    <3>1. p[1] \in DOMAIN frames /\ p[2] \in Nat /\ p = <<p[1], p[2]>>
      BY <2>1
    <3>2. CASE p[1] = n
      BY <1>1, <1>2, <2>1, <3>1, <3>2 DEF Pending
    <3>3. CASE p[1] # n
      BY <1>1, <2>1, <3>1, <3>3 DEF Pending
    <3> QED
      BY <3>2, <3>3
  <2>2. CASE p \notin (DOMAIN frames) \X Nat
    BY <1>1, <2>2 DEF Pending
  <2> QED
    BY <2>1, <2>2
<1>4. <<n, m>> \in Pending(frames)
  BY <1>1, <1>2 DEF Pending
<1> QED
  BY <1>3, <1>4 DEF after, n

\* Another frame on top, or the frame on top gone, that owes nothing.
LEMMA PendingPush ==
  ASSUME NEW d, NEW frames \in Seq(FrameOf(d)),
         NEW f \in FrameOf(d), Quiet(f.todo)
  PROVE  Pending(Append(frames, f)) = Pending(frames)
<1> DEFINE after == Append(frames, f)
           n == Len(frames) + 1
<1>1. /\ DOMAIN after = DOMAIN frames \cup {n} /\ n \notin DOMAIN frames /\ after[n] = f
      /\ \A k \in DOMAIN frames : after[k] = frames[k]
  OBVIOUS
<1>2. Owed(f.todo) = {}
  <2> SUFFICES ASSUME NEW k \in 1 .. Len(f.todo)
               PROVE  f.todo[Len(f.todo) + 1 - k].op \notin PutsBack
    BY DEF Owed
  <2>1. f.todo \in Seq(Item)
    BY DEF FrameOf
  <2>2. Len(f.todo) \in Nat /\ DOMAIN f.todo = 1 .. Len(f.todo)
    BY <2>1
  <2>3. Len(f.todo) + 1 - k \in DOMAIN f.todo
    BY <2>2
  <2> QED
    BY <2>3 DEF Quiet
<1> HIDE DEF after, n
<1>3. ASSUME NEW p PROVE p \in Pending(after) <=> p \in Pending(frames)
  <2>1. CASE p \in (DOMAIN frames \cup {n}) \X Nat
    <3>1. p[1] \in DOMAIN frames \cup {n} /\ p[2] \in Nat /\ p = <<p[1], p[2]>>
      BY <2>1
    <3>2. CASE p[1] = n
      BY <1>1, <1>2, <2>1, <3>1, <3>2 DEF Pending
    <3>3. CASE p[1] # n
      BY <1>1, <2>1, <3>1, <3>3 DEF Pending
    <3> QED
      BY <3>2, <3>3
  <2>2. CASE p \notin (DOMAIN frames \cup {n}) \X Nat
    BY <1>1, <2>2 DEF Pending
  <2> QED
    BY <2>1, <2>2
<1> QED
  BY <1>3 DEF after

LEMMA PendingPop ==
  ASSUME NEW d, NEW frames \in Seq(FrameOf(d)), frames # <<>>,
         frames[Len(frames)].todo = <<>>
  PROVE  Pending(Front(frames)) = Pending(frames)
<1> DEFINE after == Front(frames)
           n == Len(frames)
<1>1. /\ n \in Nat \ {0} /\ DOMAIN frames = 1 .. n
      /\ DOMAIN after = 1 .. n - 1 /\ \A k \in 1 .. n - 1 : after[k] = frames[k]
  BY DEF Front
<1>2. Owed(frames[n].todo) = {}
  BY DEF Owed
<1> HIDE DEF after, n
<1>3. DOMAIN frames = DOMAIN after \cup {n} /\ n \notin DOMAIN after
  BY <1>1
<1>4. ASSUME NEW p PROVE p \in Pending(after) <=> p \in Pending(frames)
  <2>1. CASE p \in (DOMAIN after \cup {n}) \X Nat
    <3>1. p[1] \in DOMAIN after \cup {n} /\ p[2] \in Nat /\ p = <<p[1], p[2]>>
      BY <2>1
    <3>2. CASE p[1] = n
      BY <1>2, <1>3, <2>1, <3>1, <3>2 DEF Pending
    <3>3. CASE p[1] # n
      BY <1>1, <1>3, <2>1, <3>1, <3>3 DEF Pending
    <3> QED
      BY <3>2, <3>3
  <2>2. CASE p \notin (DOMAIN after \cup {n}) \X Nat
    BY <1>3, <2>2 DEF Pending
  <2> QED
    BY <2>1, <2>2
<1> QED
  BY <1>4 DEF after

-----------------------------------------------------------------------------
(* Buffers.                                                                *)

LEMMA FrontIs ==
  ASSUME NEW S, NEW s \in Seq(S), s # <<>>
  PROVE  /\ Front(s) \in Seq(S) /\ Len(Front(s)) = Len(s) - 1 /\ Len(s) \in Nat \ {0}
         /\ \A k \in 1 .. Len(s) - 1 : Front(s)[k] = s[k]
<1>1. Len(s) \in Nat \ {0}
  OBVIOUS
<1>2. \A k \in 1 .. Len(s) - 1 : s[k] \in S
  BY <1>1
<1>3. Front(s) = [k \in 1 .. Len(s) - 1 |-> s[k]]
  BY <1>1 DEF Front
<1>4. Len(s) - 1 \in Nat
  BY <1>1
<1>5. Front(s) \in [1 .. Len(s) - 1 -> S]
  BY <1>2, <1>3
<1> QED
  BY <1>1, <1>3, <1>4, <1>5

LEMMA HeldSame ==
  ASSUME HeldOK, UNCHANGED <<disk, held>>, req \in {"blocks", "frag"}, req' # "scan",
         Pending(stack') = Pending(stack)
  PROVE  HeldOK'
BY DEF HeldOK, LeftBehind, bit_blocks, map_bits, BitmapBlock

LEMMA HeldMore ==
  ASSUME HeldOK, UNCHANGED <<disk, req>>, req \in {"blocks", "frag"},
         NEW b \in Nat, held' = Append(held, b),
         NEW x, x \notin Pending(stack), Pending(stack') = Pending(stack) \cup {x}
  PROVE  HeldOK'
<1> DEFINE n == Cardinality(Pending(stack))
<1>1. /\ held \in Seq(Nat) /\ IsFiniteSet(Pending(stack)) /\ Len(held) >= n
      /\ LeftBehind(Len(held) - n)
  BY DEF HeldOK
<1>2. n \in Nat /\ Cardinality(Pending(stack')) = n + 1 /\ IsFiniteSet(Pending(stack'))
  BY <1>1, FS_CardinalityType, FS_AddElement
<1>3. /\ held' \in Seq(Nat) /\ Len(held') = Len(held) + 1 /\ Len(held) \in Nat
      /\ \A k \in 1 .. Len(held) : held'[k] = held[k]
  BY <1>1
<1>4. bit_blocks' = bit_blocks
  BY DEF bit_blocks, map_bits
<1> HIDE DEF n
<1>5. Len(held') >= n + 1 /\ Len(held') - (n + 1) = Len(held) - n /\ Len(held) - n <= Len(held)
  BY <1>1, <1>2, <1>3
<1>6. \A k \in 1 .. Len(held) - n : held'[k] = BitmapBlock(bit_blocks' - 1)
  BY <1>1, <1>2, <1>3, <1>4 DEF LeftBehind, BitmapBlock
<1> QED
  BY <1>2, <1>3, <1>5, <1>6 DEF HeldOK, LeftBehind, n, BitmapBlock

LEMMA HeldLess ==
  ASSUME HeldOK, UNCHANGED <<disk, req>>, req \in {"blocks", "frag"}, held' = Front(held),
         NEW x, x \in Pending(stack), Pending(stack') = Pending(stack) \ {x}
  PROVE  HeldOK'
<1> DEFINE n == Cardinality(Pending(stack))
<1>1. /\ held \in Seq(Nat) /\ IsFiniteSet(Pending(stack)) /\ Len(held) >= n
      /\ LeftBehind(Len(held) - n)
  BY DEF HeldOK
<1>2. n \in Nat /\ Cardinality(Pending(stack')) = n - 1 /\ IsFiniteSet(Pending(stack'))
  BY <1>1, FS_CardinalityType, FS_RemoveElement
<1>3. n # 0
  BY <1>1, FS_EmptySet
<1>4. Len(held) \in Nat \ {0}
  BY <1>1, <1>2, <1>3
<1>5. /\ held' \in Seq(Nat) /\ Len(held') = Len(held) - 1
      /\ \A k \in 1 .. Len(held) - 1 : held'[k] = held[k]
  <2>1. held # <<>>
    BY <1>1, <1>4
  <2> QED
    BY <1>1, <2>1, FrontIs
<1>6. bit_blocks' = bit_blocks
  BY DEF bit_blocks, map_bits
<1> HIDE DEF n
<1>7. Len(held') >= n - 1 /\ Len(held') - (n - 1) = Len(held) - n /\ Len(held) - n <= Len(held) - 1
  BY <1>1, <1>2, <1>3, <1>4, <1>5
<1>8. \A k \in 1 .. Len(held) - n : held'[k] = BitmapBlock(bit_blocks' - 1)
  BY <1>1, <1>2, <1>3, <1>4, <1>5, <1>6 DEF LeftBehind, BitmapBlock
<1> QED
  BY <1>2, <1>5, <1>7, <1>8 DEF HeldOK, LeftBehind, n, BitmapBlock

-----------------------------------------------------------------------------
(* Walks.                                                                  *)

LEMMA AtItem ==
  ASSUME disk \in Disks, StackOK, NEW op, At(op)
  PROVE  /\ mfs = "up" /\ req \in {"blocks", "frag"} /\ stack # <<>> /\ Len(stack) \in DOMAIN stack
         /\ Top = stack[Len(stack)] /\ Top.ip \in DOMAIN disk.inode /\ Top.left \in Int
         /\ Top.todo \in Seq(Item) /\ Top.todo # <<>> /\ Top.todo[1].op = op
         /\ Here = Top.todo[1].at /\ Here \in Nat
         /\ ItemSound(disk, Top.ip, Top.todo[1])
         /\ req = "frag" => disk.inode[Top.ip].dir
<1>1. mfs = "up" /\ req \in {"blocks", "frag"} /\ stack # <<>> /\ Top.todo # <<>> /\ Head(Top.todo).op = op
  BY DEF At
<1>2. stack \in Seq(FrameOf(disk)) /\ \A n \in DOMAIN stack : FrameSound(stack[n])
  BY DEF StackOK
<1>3. Len(stack) \in DOMAIN stack /\ Top = stack[Len(stack)]
  BY <1>1, <1>2 DEF Top, Last
<1>4. Top \in FrameOf(disk) /\ FrameSound(Top)
  <2>1. \A G : stack \in Seq(G) => stack[Len(stack)] \in G
    BY <1>3
  <2> QED
    BY <1>2, <1>3, <2>1
<1>5. Top.ip \in DOMAIN disk.inode /\ Top.left \in Int /\ Top.todo \in Seq(Item)
  BY <1>4 DEF FrameOf
<1>6. Head(Top.todo) = Top.todo[1] /\ 1 \in DOMAIN Top.todo
  BY <1>1, <1>5
<1>7. Top.todo[1] \in Item
  <2>1. \A G : Top.todo \in Seq(G) => Top.todo[1] \in G
    BY <1>6
  <2> QED
    BY <1>5, <2>1
<1>8. Top.todo[1].at \in Nat
  BY <1>7 DEF Item
<1> QED
  BY <1>1, <1>3, <1>4, <1>5, <1>6, <1>8 DEF Here, FrameSound

\* The stack after a step of the innermost frame.
Advanced(items, l) ==
  [stack EXCEPT ![Len(stack)] = [ip |-> Top.ip, left |-> l, todo |-> items \o Tail(Top.todo)]]

LEMMA FrameFields ==
  ASSUME NEW d, NEW f \in FrameOf(d), NEW x
  PROVE  [f EXCEPT !.todo = x] = [ip |-> f.ip, left |-> f.left, todo |-> x]
BY DEF FrameOf

LEMMA InsteadAdvances ==
  ASSUME disk \in Disks, StackOK, NEW op, At(op), NEW items \in Seq(Item)
  PROVE  /\ [stack EXCEPT ![Len(stack)].todo = items \o Tail(@)] = Advanced(items, Top.left)
         /\ [stack EXCEPT ![Len(stack)].todo = Tail(@), ![Len(stack)].left = @ - 1]
              = Advanced(<<>>, Top.left - 1)
<1> DEFINE n == Len(stack)
<1>1. n \in DOMAIN stack /\ Top = stack[n] /\ Top.todo \in Seq(Item) /\ Top.todo # <<>>
  BY AtItem
<1>2. stack \in Seq(FrameOf(disk))
  BY DEF StackOK
<1>3. Top \in FrameOf(disk)
  <2>1. \A G : stack \in Seq(G) => stack[n] \in G
    BY <1>1
  <2> QED
    BY <1>1, <1>2, <2>1
<1>4. [stack EXCEPT ![n].todo = items \o Tail(@)]
        = [stack EXCEPT ![n] = [stack[n] EXCEPT !.todo = items \o Tail(Top.todo)]]
  BY <1>1, <1>2
<1>5. [Top EXCEPT !.todo = items \o Tail(Top.todo)]
        = [ip |-> Top.ip, left |-> Top.left, todo |-> items \o Tail(Top.todo)]
  BY <1>3, FrameFields
<1>6. [stack EXCEPT ![n].todo = Tail(@), ![n].left = @ - 1]
        = [stack EXCEPT ![n] = [[stack[n] EXCEPT !.todo = Tail(Top.todo)] EXCEPT !.left = Top.left - 1]]
  BY <1>1, <1>2, <1>3 DEF FrameOf
<1>7. <<>> \o Tail(Top.todo) = Tail(Top.todo)
  BY <1>1
<1>8. [[Top EXCEPT !.todo = Tail(Top.todo)] EXCEPT !.left = Top.left - 1]
        = [ip |-> Top.ip, left |-> Top.left - 1, todo |-> <<>> \o Tail(Top.todo)]
  <2> DEFINE rest == Tail(Top.todo)
             l == Top.left - 1
  <2> HIDE DEF rest, l
  <2>1. [[Top EXCEPT !.todo = rest] EXCEPT !.left = l] = [ip |-> Top.ip, left |-> l, todo |-> rest]
    <3>1. [Top EXCEPT !.todo = rest] = [ip |-> Top.ip, left |-> Top.left, todo |-> rest]
      BY <1>3, FrameFields
    <3>2. [[ip |-> Top.ip, left |-> Top.left, todo |-> rest] EXCEPT !.left = l]
            = [ip |-> Top.ip, left |-> l, todo |-> rest]
      OBVIOUS
    <3> QED
      BY <3>1, <3>2
  <2> QED
    BY <1>7, <2>1 DEF rest, l
<1> QED
  BY <1>1, <1>4, <1>5, <1>6, <1>8 DEF Advanced

LEMMA AdvancedSound ==
  ASSUME disk \in Disks, StackOK, NEW op, At(op), NEW items \in Seq(Item), NEW l \in Int,
         \A t \in DOMAIN items : ItemSound(disk, Top.ip, items[t])
  PROVE  /\ Advanced(items, l) \in Seq(FrameOf(disk)) /\ Advanced(items, l) # <<>>
         /\ \A k \in DOMAIN Advanced(items, l) : FrameSound(Advanced(items, l)[k])
<1> DEFINE n == Len(stack)
           new == items \o Tail(Top.todo)
           after == Advanced(items, l)
<1>1. /\ n \in DOMAIN stack /\ Top = stack[n] /\ Top.todo \in Seq(Item) /\ Top.todo # <<>>
      /\ stack # <<>> /\ req \in {"blocks", "frag"} /\ (req = "frag" => disk.inode[Top.ip].dir)
  BY AtItem
<1>2. stack \in Seq(FrameOf(disk))
  BY DEF StackOK
<1>3. new \in Seq(Item)
  BY <1>1
<1>4. after = [stack EXCEPT ![n] = [ip |-> stack[n].ip, left |-> l, todo |-> new]]
  BY <1>1 DEF Advanced
<1>5. /\ after \in Seq(FrameOf(disk))
      /\ DOMAIN after = DOMAIN stack /\ after[n].ip = Top.ip /\ after[n].todo = new
      /\ \A k \in DOMAIN stack : k # n => after[k] = stack[k]
  <2> DEFINE changed == [stack EXCEPT ![Len(stack)] = [ip |-> stack[Len(stack)].ip, left |-> l, todo |-> new]]
  <2>1. /\ changed \in Seq(FrameOf(disk))
        /\ DOMAIN changed = DOMAIN stack
        /\ changed[Len(stack)].ip = stack[Len(stack)].ip /\ changed[Len(stack)].todo = new
        /\ \A k \in DOMAIN stack : k # Len(stack) => changed[k] = stack[k]
    BY <1>1, <1>2, <1>3, TopChanges
  <2>2. after = changed
    BY <1>4
  <2> QED
    BY <1>1, <2>1, <2>2
<1>6. ASSUME NEW t \in DOMAIN new PROVE ItemSound(disk, Top.ip, new[t])
  <2>1. \A k \in DOMAIN Top.todo : ItemSound(disk, Top.ip, Top.todo[k])
    BY <1>1 DEF StackOK, FrameSound
  <2>2. Tail(Top.todo) \in Seq(Item) /\ Len(Tail(Top.todo)) = Len(Top.todo) - 1 /\ Len(Top.todo) \in Nat \ {0}
        /\ \A k \in 1 .. Len(Top.todo) - 1 : Tail(Top.todo)[k] = Top.todo[k + 1]
    BY <1>1
  <2>3. CASE t \in DOMAIN items
    BY <2>3
  <2>4. CASE t \notin DOMAIN items
    <3>1. t - Len(items) \in 1 .. Len(Top.todo) - 1 /\ new[t] = Tail(Top.todo)[t - Len(items)]
      BY <2>2, <2>4
    <3>2. (t - Len(items)) + 1 \in 1 .. Len(Top.todo) /\ DOMAIN Top.todo = 1 .. Len(Top.todo)
      BY <1>1, <2>2, <3>1
    <3>3. new[t] = Top.todo[(t - Len(items)) + 1]
      BY <2>2, <3>1
    <3> QED
      BY <2>1, <3>2, <3>3
  <2> QED
    BY <2>3, <2>4
<1> HIDE DEF n, new, after
<1>7. ASSUME NEW k \in DOMAIN after PROVE FrameSound(after[k])
  <2>1. CASE k = n
    BY <1>1, <1>5, <1>6, <2>1 DEF FrameSound
  <2>2. CASE k # n
    BY <1>5, <2>2 DEF StackOK
  <2> QED
    BY <2>1, <2>2
<1>8. after # <<>>
  <2>1. n \in DOMAIN after /\ DOMAIN <<>> = {}
    BY <1>1, <1>5
  <2> QED
    BY <2>1
<1> QED
  BY <1>5, <1>7, <1>8 DEF after

LEMMA AdvancedOK ==
  ASSUME disk \in Disks, StackOK, NEW op, At(op), NEW items \in Seq(Item), NEW l \in Int,
         \A t \in DOMAIN items : ItemSound(disk, Top.ip, items[t]),
         stack' = Advanced(items, l), UNCHANGED <<disk, req>>
  PROVE  StackOK'
<1>1. stack' \in Seq(FrameOf(disk)) /\ \A k \in DOMAIN stack' : FrameSound(stack'[k])
  BY AdvancedSound
<1>2. req \in {"blocks", "frag"}
  BY AtItem
<1>3. ASSUME NEW k \in DOMAIN stack' PROVE FrameSound(stack[k])'
  <2>1. FrameSound(stack'[k])
    BY <1>1
  <2> QED
    BY <2>1 DEF FrameSound, ItemSound
<1> QED
  BY <1>1, <1>2, <1>3 DEF StackOK

LEMMA ItemsAre ==
  ASSUME NEW op \in Ops, op \notin PutsBack, NEW zones \in Seq(Nat)
  PROVE  /\ Items(op, zones) \in Seq(Item) /\ Quiet(Items(op, zones))
         /\ Len(Items(op, zones)) = Len(zones)
         /\ \A t \in 1 .. Len(zones) : Items(op, zones)[t] = [op |-> op, at |-> zones[t]]
<1>1. DOMAIN zones = 1 .. Len(zones) /\ Len(zones) \in Nat
  OBVIOUS
<1>2. \A t \in 1 .. Len(zones) : zones[t] \in Nat
  BY <1>1
<1>3. Items(op, zones) = [t \in 1 .. Len(zones) |-> [op |-> op, at |-> zones[t]]]
  BY <1>1 DEF Items
<1>4. \A t \in 1 .. Len(zones) : [op |-> op, at |-> zones[t]] \in Item
  BY <1>2 DEF Item
<1>5. Items(op, zones) \in [1 .. Len(zones) -> Item]
  BY <1>3, <1>4
<1>6. Items(op, zones) \in Seq(Item) /\ Len(Items(op, zones)) = Len(zones)
  BY <1>1, <1>5
<1> QED
  BY <1>1, <1>3, <1>6 DEF Quiet

\* The frame of an inode: sound, and it owes nothing.
LEMMA NewFrame ==
  ASSUME disk \in Disks, NEW i \in DOMAIN disk.inode, NEW op \in {"zone", "direct"}
  PROVE  /\ Frame(i, op) \in FrameOf(disk) /\ Frame(i, op).ip = i /\ Quiet(Frame(i, op).todo)
         /\ \A t \in DOMAIN Frame(i, op).todo : /\ ItemSound(disk, i, Frame(i, op).todo[t])
                                                /\ Frame(i, op).todo[t].op # "block"
<1> DEFINE zones == disk.inode[i].zone
           direct == SubSeq(zones, 1, NDZONES)
           s == [op |-> "single", at |-> zones[NDZONES + 1]]
           t2 == [op |-> "double", at |-> zones[NDZONES + 2]]
<1>1. /\ zones \in Seq(Nat) /\ Len(zones) = NDZONES + 2
      /\ \A k \in 1 .. NDZONES : ZoneSound(disk, i, zones[k])
      /\ SingleSound(disk, i, zones[NDZONES + 1]) /\ DoubleSound(disk, i, zones[NDZONES + 2])
  <2>1. InodeSound(disk, i)
    BY SoundDisk
  <2> QED
    BY <2>1 DEF InodeSound
<1>2. \A k \in 1 .. NDZONES + 2 : zones[k] \in Nat
  BY <1>1
<1>3. /\ direct \in Seq(Nat) /\ Len(direct) = NDZONES /\ \A k \in 1 .. NDZONES : direct[k] = zones[k]
  BY <1>1, <1>2, Sizes
<1>4. s \in Item /\ t2 \in Item /\ s.op = "single" /\ t2.op = "double"
      /\ s.at = zones[NDZONES + 1] /\ t2.at = zones[NDZONES + 2]
  <2>1. zones[NDZONES + 1] \in Nat /\ zones[NDZONES + 2] \in Nat
    BY <1>2, Sizes
  <2> QED
    BY <2>1 DEF Item, Ops
<1> DEFINE its == Items(op, direct)
<1>5. /\ its \in Seq(Item) /\ Quiet(its) /\ Len(its) = NDZONES
      /\ \A t \in 1 .. NDZONES : its[t] = [op |-> op, at |-> zones[t]]
  <2>1. op \in Ops /\ op \notin PutsBack
    BY DEF Ops, PutsBack
  <2> HIDE DEF direct
  <2> QED
    BY <1>3, <2>1, ItemsAre
<1> DEFINE all == its \o <<s, t2>>
<1> HIDE DEF its, s, t2
<1>6. /\ all \in Seq(Item) /\ DOMAIN all = 1 .. NDZONES + 2
      /\ \A t \in 1 .. NDZONES : all[t] = its[t]
      /\ all[NDZONES + 1] = s /\ all[NDZONES + 2] = t2
  BY <1>4, <1>5, Sizes
<1>7. Frame(i, op) = [ip |-> i, left |-> Blocks(i), todo |-> all]
  BY DEF Frame, its, s, t2, Zone
<1> HIDE DEF all, zones
<1>8. Frame(i, op) \in FrameOf(disk) /\ Frame(i, op).ip = i /\ Frame(i, op).todo = all
  BY <1>6, <1>7, Blocks2 DEF FrameOf
<1>9. ASSUME NEW t \in DOMAIN all PROVE all[t].op \notin PutsBack /\ ItemSound(disk, i, all[t]) /\ all[t].op # "block"
  <2>1. CASE t \in 1 .. NDZONES
    <3>1. all[t] = [op |-> op, at |-> zones[t]] /\ ZoneSound(disk, i, zones[t])
      BY <1>1, <1>5, <1>6, <2>1
    <3>2. all[t].op = op /\ all[t].at = zones[t]
      BY <3>1
    <3> QED
      BY <3>1, <3>2 DEF ItemSound, PutsBack
  <2>2. CASE t = NDZONES + 1
    BY <1>1, <1>4, <1>6, <2>2 DEF ItemSound, PutsBack
  <2>3. CASE t = NDZONES + 2
    BY <1>1, <1>4, <1>6, <2>3 DEF ItemSound, PutsBack
  <2>4. t \in 1 .. NDZONES \/ t = NDZONES + 1 \/ t = NDZONES + 2
    BY <1>6, Sizes
  <2> QED
    BY <2>1, <2>2, <2>3, <2>4
<1> QED
  BY <1>8, <1>9 DEF Quiet

LEMMA NewFragFrame ==
  ASSUME disk \in Disks, NEW i \in DOMAIN disk.inode
  PROVE  /\ FragFrame(i) \in FrameOf(disk) /\ FragFrame(i).ip = i /\ Quiet(FragFrame(i).todo)
         /\ \A t \in DOMAIN FragFrame(i).todo : /\ ItemSound(disk, i, FragFrame(i).todo[t])
                                                /\ FragFrame(i).todo[t].op # "block"
         /\ ~disk.inode[i].dir => FragFrame(i).todo = <<>>
<1>1. CASE disk.inode[i].dir
  <2>1. FragFrame(i) = Frame(i, "direct")
    BY <1>1 DEF FragFrame
  <2> QED
    BY <1>1, <2>1, NewFrame
<1>2. CASE ~disk.inode[i].dir
  <2>1. FragFrame(i) = [ip |-> i, left |-> Blocks(i), todo |-> <<>>]
    BY <1>2 DEF FragFrame
  <2>2. <<>> \in Seq(Item) /\ DOMAIN <<>> = {}
    OBVIOUS
  <2>3. FragFrame(i) \in FrameOf(disk) /\ FragFrame(i).ip = i /\ FragFrame(i).todo = <<>>
    BY <2>1, <2>2, Blocks2 DEF FrameOf
  <2> QED
    BY <2>2, <2>3 DEF Quiet
<1> QED
  BY <1>1, <1>2

-----------------------------------------------------------------------------
(* Steps of the innermost frame.                                           *)

\* What a step of the frame leaves alone.
Steady == UNCHANGED <<disk, req, scan, mfs, job>>

LEMMA SteadyOK ==
  ASSUME FsInv, mfs = "up", Steady, StackOK', HeldOK'
  PROVE  FsInv'
<1>1. disk' \in Disks /\ JobOK'
  BY DEF FsInv, Steady, JobOK, NoJob
<1>2. ScanOK'
  BY DEF FsInv, Steady, ScanOK, bit_blocks, map_bits
<1> QED
  BY <1>1, <1>2 DEF FsInv

LEMMA WalkQuiet ==
  ASSUME FsInv, NEW op, At(op), op \notin PutsBack, NEW items \in Seq(Item), Quiet(items), NEW l \in Int,
         \A t \in DOMAIN items : ItemSound(disk, Top.ip, items[t]),
         stack' = Advanced(items, l), Steady, held' = held
  PROVE  FsInv'
<1>1. disk \in Disks /\ mfs = "up" /\ StackOK /\ HeldOK
  BY DEF FsInv, At
<1>2. /\ req \in {"blocks", "frag"} /\ stack # <<>> /\ Top = stack[Len(stack)]
      /\ Top.todo \in Seq(Item) /\ Top.todo # <<>> /\ Top.todo[1].op = op
  BY <1>1, AtItem
<1>3. StackOK'
  BY <1>1, AdvancedOK DEF Steady
<1> DEFINE new == items \o Tail(Top.todo)
<1>4. new \in Seq(Item)
  BY <1>2
<1>5. Owed(new) = Owed(stack[Len(stack)].todo)
  BY <1>2, OwedSame
<1>6. stack \in Seq(FrameOf(disk))
  BY <1>1 DEF StackOK
<1>7. stack' = [stack EXCEPT ![Len(stack)] = [ip |-> stack[Len(stack)].ip, left |-> l, todo |-> new]]
  BY <1>2 DEF Advanced
<1> HIDE DEF new
<1>8. Pending(stack') = Pending(stack)
  <2> DEFINE after == [stack EXCEPT ![Len(stack)] = [ip |-> stack[Len(stack)].ip, left |-> l, todo |-> new]]
  <2>1. Pending(after) = Pending(stack)
    BY <1>2, <1>4, <1>5, <1>6, PendingSame
  <2>2. stack' = after
    BY <1>7
  <2> QED
    BY <2>1, <2>2
<1>9. HeldOK'
  BY <1>1, <1>2, <1>8, HeldSame DEF Steady
<1> QED
  BY <1>1, <1>3, <1>9, SteadyOK

LEMMA WalkTakes ==
  ASSUME FsInv, NEW op, At(op), op \notin PutsBack, NEW items \in Seq(Item), Quiet(items), NEW l \in Int,
         NEW x \in Item, x.op \in PutsBack,
         \A t \in DOMAIN items : ItemSound(disk, Top.ip, items[t]),
         NEW b \in Nat, held' = Append(held, b),
         stack' = Advanced(items \o <<x>>, l), Steady
  PROVE  FsInv'
<1>1. disk \in Disks /\ mfs = "up" /\ StackOK /\ HeldOK
  BY DEF FsInv, At
<1>2. /\ req \in {"blocks", "frag"} /\ stack # <<>> /\ Top = stack[Len(stack)]
      /\ Top.todo \in Seq(Item) /\ Top.todo # <<>> /\ Top.todo[1].op = op
  BY <1>1, AtItem
<1> DEFINE more == items \o <<x>>
<1>3. /\ more \in Seq(Item) /\ DOMAIN more = 1 .. Len(items) + 1 /\ more[Len(items) + 1] = x
      /\ DOMAIN items = 1 .. Len(items) /\ Len(items) \in Nat /\ \A t \in DOMAIN items : more[t] = items[t]
  OBVIOUS
<1>4. ItemSound(disk, Top.ip, x)
  BY DEF ItemSound, PutsBack
<1>5. ASSUME NEW t \in DOMAIN more PROVE ItemSound(disk, Top.ip, more[t])
  <2> HIDE DEF more
  <2>1. t \in DOMAIN items \/ t = Len(items) + 1
    BY <1>3
  <2> QED
    BY <1>3, <1>4, <2>1
<1> HIDE DEF more
<1>6. stack' = Advanced(more, l)
  BY DEF more
<1>7. StackOK'
  BY <1>1, <1>3, <1>5, <1>6, AdvancedOK DEF Steady
<1> DEFINE new == more \o Tail(Top.todo)
           m == Len(Top.todo)
<1>8. new \in Seq(Item) /\ m \in Nat
  BY <1>2, <1>3
<1>9. Owed(new) = Owed(stack[Len(stack)].todo) \cup {m} /\ m \notin Owed(stack[Len(stack)].todo)
  BY <1>2, OwedMore DEF more
<1>10. stack \in Seq(FrameOf(disk))
  BY <1>1 DEF StackOK
<1>11. stack' = [stack EXCEPT ![Len(stack)] = [ip |-> stack[Len(stack)].ip, left |-> l, todo |-> new]]
  BY <1>2, <1>6 DEF Advanced
<1> HIDE DEF new, m
<1>12. Pending(stack') = Pending(stack) \cup {<<Len(stack), m>>} /\ <<Len(stack), m>> \notin Pending(stack)
  <2> DEFINE after == [stack EXCEPT ![Len(stack)] = [ip |-> stack[Len(stack)].ip, left |-> l, todo |-> new]]
  <2>1. Pending(after) = Pending(stack) \cup {<<Len(stack), m>>} /\ <<Len(stack), m>> \notin Pending(stack)
    BY <1>2, <1>8, <1>9, <1>10, PendingMore
  <2>2. stack' = after
    BY <1>11
  <2> QED
    BY <2>1, <2>2
<1>13. HeldOK'
  BY <1>1, <1>2, <1>12, HeldMore DEF Steady
<1> QED
  BY <1>1, <1>7, <1>13, SteadyOK

LEMMA WalkPuts ==
  ASSUME FsInv, NEW op \in PutsBack, At(op), NEW l \in Int,
         stack' = Advanced(<<>>, l), Steady, held' = Front(held)
  PROVE  FsInv'
<1>1. disk \in Disks /\ mfs = "up" /\ StackOK /\ HeldOK
  BY DEF FsInv, At
<1>2. /\ req \in {"blocks", "frag"} /\ stack # <<>> /\ Top = stack[Len(stack)]
      /\ Top.todo \in Seq(Item) /\ Top.todo # <<>> /\ Top.todo[1].op = op
  BY <1>1, AtItem
<1>3. <<>> \in Seq(Item) /\ DOMAIN <<>> = {}
  OBVIOUS
<1>4. StackOK'
  BY <1>1, <1>3, AdvancedOK DEF Steady
<1> DEFINE new == Tail(Top.todo)
           m == Len(Top.todo)
<1>5. new \in Seq(Item) /\ <<>> \o new = new /\ m \in Nat
  BY <1>2
<1>6. Owed(new) = Owed(stack[Len(stack)].todo) \ {m} /\ m \in Owed(stack[Len(stack)].todo)
  BY <1>2, OwedLess
<1>7. stack \in Seq(FrameOf(disk))
  BY <1>1 DEF StackOK
<1>8. stack' = [stack EXCEPT ![Len(stack)] = [ip |-> stack[Len(stack)].ip, left |-> l, todo |-> new]]
  BY <1>2, <1>5 DEF Advanced
<1> HIDE DEF new, m
<1>9. Pending(stack') = Pending(stack) \ {<<Len(stack), m>>} /\ <<Len(stack), m>> \in Pending(stack)
  <2> DEFINE after == [stack EXCEPT ![Len(stack)] = [ip |-> stack[Len(stack)].ip, left |-> l, todo |-> new]]
  <2>1. Pending(after) = Pending(stack) \ {<<Len(stack), m>>} /\ <<Len(stack), m>> \in Pending(stack)
    BY <1>2, <1>5, <1>6, <1>7, PendingLess
  <2>2. stack' = after
    BY <1>8
  <2> QED
    BY <2>1, <2>2
<1>10. HeldOK'
  BY <1>1, <1>2, <1>9, HeldLess DEF Steady
<1> QED
  BY <1>1, <1>4, <1>10, SteadyOK

-----------------------------------------------------------------------------
(* The actions of a walk.                                                  *)

LEMMA SkipOK == FsInv /\ Skip /\ UNCHANGED vfsVars => FsInv'
<1> SUFFICES ASSUME FsInv, Skip, UNCHANGED vfsVars PROVE FsInv'
  OBVIOUS
<1>1. PICK op \in {"direct", "zone", "single", "double", "block", "entry"} : At(op)
  BY DEF Skip
<1>2. disk \in Disks /\ StackOK
  BY <1>1 DEF FsInv, At
<1>3. Top.left \in Int
  BY <1>1, <1>2, AtItem
<1>4. <<>> \in Seq(Item) /\ DOMAIN <<>> = {} /\ op \notin PutsBack
  BY DEF PutsBack
<1>5. stack' = Advanced(<<>>, Top.left)
  BY <1>1, <1>2, <1>4, InsteadAdvances DEF Skip, Instead
<1>6. Steady /\ held' = held
  BY DEF Steady, Skip, vfsVars
<1>7. Quiet(<<>>)
  BY DEF Quiet
<1> QED
  BY <1>1, <1>3, <1>4, <1>5, <1>6, <1>7, WalkQuiet

LEMMA PanicsOK == FsInv /\ Panics /\ UNCHANGED vfsVars => FsInv'
<1> SUFFICES ASSUME FsInv, Panics, UNCHANGED vfsVars PROVE FsInv'
  OBVIOUS
<1>1. UNCHANGED <<disk, req, stack, held, scan, job>>
  BY DEF Panics, vfsVars
<1>2. StackOK'
  BY <1>1 DEF FsInv, StackOK, FrameSound, ItemSound
<1>3. ScanOK'
  BY <1>1 DEF FsInv, ScanOK, bit_blocks, map_bits
<1>4. HeldOK'
  BY <1>1 DEF FsInv, HeldOK, LeftBehind, BitmapBlock, bit_blocks, map_bits
<1> QED
  BY <1>1, <1>2, <1>3, <1>4 DEF FsInv, JobOK, NoJob

LEMMA IndirectOK == FsInv /\ Indirect /\ UNCHANGED vfsVars => FsInv'
<1> SUFFICES ASSUME FsInv, Indirect, UNCHANGED vfsVars PROVE FsInv'
  OBVIOUS
<1>1. PICK op \in {"single", "double"} :
        /\ At(op) /\ ~AtEnd /\ Here # NO_ZONE
        /\ IF HasBuffer(Here * blocksPerZone)
           THEN /\ Instead(Entries(op, Here))
                /\ held' = Append(held, Here * blocksPerZone)
                /\ UNCHANGED <<disk, req, listVars, stat, scan, mfs, served>>
           ELSE Panics
  BY DEF Indirect
<1>2. CASE ~HasBuffer(Here * blocksPerZone)
  BY <1>1, <1>2, PanicsOK
<1>3. CASE HasBuffer(Here * blocksPerZone)
  <2>1. disk \in Disks /\ StackOK
    BY <1>1 DEF FsInv, At
  <2>2. /\ Top.left \in Int /\ Here \in Nat /\ Here = Top.todo[1].at /\ Top.todo[1].op = op
        /\ ItemSound(disk, Top.ip, Top.todo[1])
    BY <1>1, <2>1, AtItem
  <2>3. Here # 0
    BY <1>1 DEF NO_ZONE
  <2>4. Here \in DOMAIN disk.indir /\ disk.indir[Here] \in Seq(Nat)
    <3>1. Here \in DOMAIN disk.indir
      BY <2>2, <2>3 DEF ItemSound, SingleSound, DoubleSound
    <3> QED
      BY <2>1, <3>1, SoundDisk
  <2> DEFINE zones == disk.indir[Here]
             kind == IF op = "single" THEN "zone" ELSE "single"
             items == Items(kind, zones)
             x == [op |-> "put", at |-> Here]
  <2>5. kind \in Ops /\ kind \notin PutsBack
    BY DEF Ops, PutsBack
  <2>6. zones \in Seq(Nat) /\ DOMAIN zones = 1 .. Len(zones)
    BY <2>4
  <2>7. \A k \in 1 .. Len(zones) : IF op = "single" THEN ZoneSound(disk, Top.ip, zones[k])
                                                    ELSE SingleSound(disk, Top.ip, zones[k])
    BY <2>2, <2>3, <2>6 DEF ItemSound, SingleSound, DoubleSound
  <2>8. x \in Item /\ x.op \in PutsBack
    BY <2>2 DEF Item, Ops, PutsBack
  <2>9. Entries(op, Here) = items \o <<x>>
    BY DEF Entries
  <2> HIDE DEF x, zones
  <2>10. /\ items \in Seq(Item) /\ Quiet(items) /\ Len(items) = Len(zones)
         /\ \A t \in 1 .. Len(zones) : items[t] = [op |-> kind, at |-> zones[t]]
    <3> HIDE DEF kind
    <3> QED
      BY <2>5, <2>6, ItemsAre
  <2> HIDE DEF items
  <2>11. ASSUME NEW t \in DOMAIN items PROVE ItemSound(disk, Top.ip, items[t])
    <3>1. t \in 1 .. Len(zones)
      BY <2>10
    <3>2. items[t].op = kind /\ items[t].at = zones[t]
      <4> HIDE DEF kind
      <4>1. items[t] = [op |-> kind, at |-> zones[t]]
        BY <2>10, <3>1
      <4> QED
        BY <4>1
    <3>3. CASE op = "single"
      BY <2>7, <3>1, <3>2, <3>3 DEF ItemSound
    <3>4. CASE op = "double"
      BY <2>7, <3>1, <3>2, <3>4 DEF ItemSound
    <3> QED
      BY <3>3, <3>4
  <2>12. items \o <<x>> \in Seq(Item)
    BY <2>8, <2>10
  <2>13. stack' = Advanced(items \o <<x>>, Top.left)
    <3>1. stack' = [stack EXCEPT ![Len(stack)].todo = (items \o <<x>>) \o Tail(@)]
      BY <1>1, <1>3, <2>9 DEF Instead
    <3> QED
      BY <1>1, <2>1, <2>12, <3>1, InsteadAdvances
  <2>14. Here * blocksPerZone \in Nat /\ held' = Append(held, Here * blocksPerZone)
    BY <1>1, <1>3, <2>1, <2>2, Powers
  <2>15. Steady /\ op \notin PutsBack
    BY <1>1, <1>3 DEF Steady, vfsVars, PutsBack
  <2> QED
    BY <1>1, <2>2, <2>8, <2>10, <2>11, <2>13, <2>14, <2>15, WalkTakes
<1> QED
  BY <1>2, <1>3

LEMMA PutIndirectOK == FsInv /\ PutIndirect /\ UNCHANGED vfsVars => FsInv'
<1> SUFFICES ASSUME FsInv, PutIndirect, UNCHANGED vfsVars PROVE FsInv'
  OBVIOUS
<1>1. At("put") /\ disk \in Disks /\ StackOK
  BY DEF FsInv, At, PutIndirect
<1>2. Top.left \in Int /\ <<>> \in Seq(Item) /\ "put" \in PutsBack
  BY <1>1, AtItem DEF PutsBack
<1>3. stack' = Advanced(<<>>, Top.left)
  BY <1>1, <1>2, InsteadAdvances DEF PutIndirect, Instead
<1>4. Steady /\ held' = Front(held)
  BY DEF Steady, PutIndirect, vfsVars
<1> QED
  BY <1>1, <1>2, <1>3, <1>4, WalkPuts

LEMMA DirBlockDoneOK == FsInv /\ DirBlockDone /\ UNCHANGED vfsVars => FsInv'
<1> SUFFICES ASSUME FsInv, DirBlockDone, UNCHANGED vfsVars PROVE FsInv'
  OBVIOUS
<1>1. At("done") /\ disk \in Disks /\ StackOK
  BY DEF FsInv, At, DirBlockDone
<1>2. Top.left - 1 \in Int /\ <<>> \in Seq(Item) /\ "done" \in PutsBack
  BY <1>1, AtItem DEF PutsBack
<1>3. stack' = Advanced(<<>>, Top.left - 1)
  BY <1>1, <1>2, InsteadAdvances DEF DirBlockDone
<1>4. Steady /\ held' = Front(held)
  BY DEF Steady, DirBlockDone, vfsVars
<1> QED
  BY <1>1, <1>2, <1>3, <1>4, WalkPuts

LEMMA ListBlockOK == FsInv /\ ListBlock /\ UNCHANGED vfsVars => FsInv'
<1> SUFFICES ASSUME FsInv, ListBlock, UNCHANGED vfsVars PROVE FsInv'
  OBVIOUS
<1>1. At("block") /\ disk \in Disks /\ StackOK
  BY DEF FsInv, At, ListBlock
<1>2. CASE ~HasBuffer(Here)
  BY <1>2, PanicsOK DEF ListBlock
<1>3. CASE HasBuffer(Here)
  <2>1. Top.left - 1 \in Int /\ <<>> \in Seq(Item) /\ DOMAIN <<>> = {} /\ "block" \notin PutsBack
    BY <1>1, AtItem DEF PutsBack
  <2>2. stack' = Advanced(<<>>, Top.left - 1)
    BY <1>1, <1>3, <2>1, InsteadAdvances DEF ListBlock
  <2>3. Steady /\ held' = held
    BY <1>3 DEF Steady, ListBlock, vfsVars
  <2>4. Quiet(<<>>)
    BY DEF Quiet
  <2> QED
    BY <1>1, <2>1, <2>2, <2>3, <2>4, WalkQuiet
<1> QED
  BY <1>2, <1>3

LEMMA WalkZoneOK == FsInv /\ WalkZone /\ UNCHANGED vfsVars => FsInv'
<1> SUFFICES ASSUME FsInv, WalkZone, UNCHANGED vfsVars PROVE FsInv'
  OBVIOUS
<1>1. At("zone") /\ Here # 0 /\ disk \in Disks /\ StackOK
  BY DEF FsInv, At, WalkZone, NO_ZONE
<1>2. /\ Top.left \in Int /\ Here \in Nat /\ Here = Top.todo[1].at /\ Top.todo[1].op = "zone"
      /\ ItemSound(disk, Top.ip, Top.todo[1]) /\ req \in {"blocks", "frag"}
      /\ req = "frag" => disk.inode[Top.ip].dir
  BY <1>1, AtItem
<1>3. ZoneSound(disk, Top.ip, Here)
  BY <1>2 DEF ItemSound
<1>4. /\ blocksPerZone \in Nat \ {0} /\ 2 ^ Scale = blocksPerZone
      /\ \A n \in 0 .. blocksPerZone - 1 : 2 ^ (Scale + n) \in Nat
  BY <1>1, Powers DEF blocksPerZone
<1>5. ASSUME NEW n \in 0 .. blocksPerZone - 1
      PROVE  Address(Here, n) \in Nat /\ (req = "frag" => Address(Here, n) \in DOMAIN disk.entries)
  <2>1. CASE req = "blocks"
    BY <1>2, <1>4, <2>1 DEF Address
  <2>2. CASE req = "frag"
    <3>1. Address(Here, n) = Here * 2 ^ (Scale + n)
      BY <2>2 DEF Address
    <3>2. Here * 2 ^ (disk.log_zone_size + n) \in DOMAIN disk.entries
      <4>1. \A k \in 0 .. 2 ^ disk.log_zone_size - 1 : Here * 2 ^ (disk.log_zone_size + k) \in DOMAIN disk.entries
        BY <1>1, <1>2, <1>3, <2>2 DEF ZoneSound
      <4> QED
        BY <4>1 DEF blocksPerZone, Scale
    <3>3. Here * 2 ^ (Scale + n) \in Nat
      BY <1>2, <1>4
    <3> QED
      BY <3>1, <3>2, <3>3 DEF Scale
  <2> QED
    BY <1>2, <2>1, <2>2
<1> DEFINE items == [n \in 1 .. blocksPerZone |-> [op |-> "block", at |-> Address(Here, n - 1)]]
<1>6. ASSUME NEW n \in 1 .. blocksPerZone
      PROVE  /\ [op |-> "block", at |-> Address(Here, n - 1)] \in Item
             /\ req = "frag" => Address(Here, n - 1) \in DOMAIN disk.entries
  <2>1. n - 1 \in 0 .. blocksPerZone - 1
    BY <1>4
  <2> QED
    BY <1>5, <2>1 DEF Item, Ops
<1>7. items \in Seq(Item) /\ DOMAIN items = 1 .. blocksPerZone
  BY <1>4, <1>6
<1>8. Quiet(items)
  BY DEF Quiet, PutsBack
<1>9. ASSUME NEW t \in DOMAIN items PROVE ItemSound(disk, Top.ip, items[t])
  <2>1. items[t].op = "block" /\ (req = "frag" => items[t].at \in DOMAIN disk.entries)
    BY <1>6
  <2> HIDE DEF items
  <2> QED
    BY <2>1 DEF ItemSound
<1>10. stack' = [stack EXCEPT ![Len(stack)].todo = items \o Tail(@)]
  BY DEF WalkZone, Instead
<1> HIDE DEF items
<1>11. stack' = Advanced(items, Top.left)
  BY <1>1, <1>7, <1>10, InsteadAdvances
<1>12. Steady /\ held' = held /\ "zone" \notin PutsBack
  BY DEF Steady, WalkZone, vfsVars, PutsBack
<1> QED
  BY <1>1, <1>2, <1>7, <1>8, <1>9, <1>11, <1>12, WalkQuiet

LEMMA MeasureDirOK == FsInv /\ MeasureDir /\ UNCHANGED vfsVars => FsInv'
<1> SUFFICES ASSUME FsInv, MeasureDir, UNCHANGED vfsVars PROVE FsInv'
  OBVIOUS
<1>1. At("direct") /\ disk \in Disks /\ StackOK
  BY DEF FsInv, At, MeasureDir
<1>2. /\ Top.left \in Int /\ Here \in Nat /\ Here = Top.todo[1].at /\ Top.todo[1].op = "direct"
      /\ ItemSound(disk, Top.ip, Top.todo[1])
  BY <1>1, AtItem
<1> DEFINE x == [op |-> "zone", at |-> Here]
           items == <<x>>
<1>3. x \in Item /\ x.op = "zone" /\ x.at = Here
  BY <1>2 DEF Item, Ops
<1>4. stack' = [stack EXCEPT ![Len(stack)].todo = items \o Tail(@)]
  BY DEF MeasureDir, Instead
<1> HIDE DEF x
<1>5. items \in Seq(Item) /\ DOMAIN items = {1} /\ items[1] = x
  BY <1>3
<1> HIDE DEF items
<1>6. Quiet(items)
  BY <1>3, <1>5 DEF Quiet, PutsBack
<1>7. ASSUME NEW t \in DOMAIN items PROVE ItemSound(disk, Top.ip, items[t])
  <2>1. items[t].op = "zone" /\ items[t].at = Here
    BY <1>3, <1>5
  <2> QED
    BY <1>2, <2>1 DEF ItemSound
<1>8. stack' = Advanced(items, Top.left)
  BY <1>1, <1>4, <1>5, InsteadAdvances
<1>9. Steady /\ held' = held /\ "direct" \notin PutsBack
  BY DEF Steady, MeasureDir, vfsVars, PutsBack
<1> QED
  BY <1>1, <1>2, <1>5, <1>6, <1>7, <1>8, <1>9, WalkQuiet

LEMMA DirBlockOK == FsInv /\ DirBlock /\ UNCHANGED vfsVars => FsInv'
<1> SUFFICES ASSUME FsInv, DirBlock, UNCHANGED vfsVars PROVE FsInv'
  OBVIOUS
<1>1. At("block") /\ disk \in Disks /\ StackOK /\ req = "frag"
  BY DEF FsInv, At, DirBlock
<1>2. CASE ~HasBuffer(Here)
  BY <1>2, PanicsOK DEF DirBlock
<1>3. CASE HasBuffer(Here)
  <2>1. /\ Top.left \in Int /\ Here \in Nat /\ Here = Top.todo[1].at /\ Top.todo[1].op = "block"
        /\ ItemSound(disk, Top.ip, Top.todo[1])
    BY <1>1, AtItem
  <2> DEFINE G == (DOMAIN disk.inode \cap Nat) \cup {0}
             slots == disk.entries[Here]
             rest == SubSeq(slots, 3, Len(slots))
             items == Items("entry", rest)
             x == [op |-> "done", at |-> Here]
  <2>2. slots \in Seq(G)
    <3>1. Here \in DOMAIN disk.entries
      BY <1>1, <2>1 DEF ItemSound
    <3> QED
      BY <1>1, <3>1, SoundDisk
  <2>3. rest \in Seq(G)
    <3> HIDE DEF G, slots
    <3>1. Len(slots) \in Nat /\ \A k \in 3 .. Len(slots) : slots[k] \in G
      BY <2>2
    <3> QED
      BY <2>2, <3>1
  <2>4. x \in Item /\ x.op \in PutsBack
    BY <2>1 DEF Item, Ops, PutsBack
  <2>5. stack' = [stack EXCEPT ![Len(stack)].todo = (items \o <<x>>) \o Tail(@)]
    BY <1>3 DEF DirBlock, Instead
  <2> HIDE DEF slots, x
  <2>6. rest \in Seq(Nat) /\ \A t \in 1 .. Len(rest) : rest[t] \in DOMAIN disk.inode \cup {0}
    <3> HIDE DEF rest
    <3>1. \A t \in 1 .. Len(rest) : rest[t] \in G
      <4> HIDE DEF G
      <4> QED
        BY <2>3
    <3>2. Len(rest) \in Nat /\ rest \in [1 .. Len(rest) -> Nat]
      <4>1. DOMAIN rest = 1 .. Len(rest) /\ Len(rest) \in Nat /\ rest = [t \in 1 .. Len(rest) |-> rest[t]]
        <5> HIDE DEF G
        <5> QED
          BY <2>3
      <4>2. \A t \in 1 .. Len(rest) : rest[t] \in Nat
        BY <3>1
      <4> QED
        BY <4>1, <4>2
    <3> QED
      BY <3>1, <3>2
  <2> HIDE DEF rest, G
  <2>7. "entry" \in Ops /\ "entry" \notin PutsBack /\ "block" \notin PutsBack
    BY DEF Ops, PutsBack
  <2>8. /\ items \in Seq(Item) /\ Quiet(items) /\ Len(items) = Len(rest)
        /\ \A t \in 1 .. Len(rest) : items[t] = [op |-> "entry", at |-> rest[t]]
    BY <2>6, <2>7, ItemsAre
  <2> HIDE DEF items
  <2>9. ASSUME NEW t \in DOMAIN items PROVE ItemSound(disk, Top.ip, items[t])
    <3>1. t \in 1 .. Len(rest)
      BY <2>8
    <3>2. items[t] = [op |-> "entry", at |-> rest[t]]
      BY <2>8, <3>1
    <3>3. items[t].op = "entry" /\ items[t].at \in DOMAIN disk.inode \cup {0}
      BY <2>6, <3>1, <3>2
    <3> QED
      BY <3>3 DEF ItemSound
  <2>10. items \o <<x>> \in Seq(Item)
    BY <2>4, <2>8
  <2>11. stack' = Advanced(items \o <<x>>, Top.left)
    BY <1>1, <2>5, <2>10, InsteadAdvances
  <2>12. Steady /\ held' = Append(held, Here)
    BY <1>3 DEF Steady, DirBlock, vfsVars
  <2> QED
    BY <1>1, <2>1, <2>4, <2>7, <2>8, <2>9, <2>11, <2>12, WalkTakes
<1> QED
  BY <1>2, <1>3

LEMMA DescendOK == FsInv /\ Descend /\ UNCHANGED vfsVars => FsInv'
<1> SUFFICES ASSUME FsInv, Descend, UNCHANGED vfsVars PROVE FsInv'
  OBVIOUS
<1>1. At("entry") /\ disk \in Disks /\ StackOK /\ HeldOK /\ mfs = "up"
  BY DEF FsInv, At, Descend
<1>2. CASE ~HasInode(Here)
  BY <1>2, PanicsOK DEF Descend
<1>3. CASE HasInode(Here)
  <2>1. /\ Top.left \in Int /\ Here \in Nat /\ Here = Top.todo[1].at /\ Top.todo[1].op = "entry"
        /\ ItemSound(disk, Top.ip, Top.todo[1]) /\ req \in {"blocks", "frag"}
        /\ stack # <<>> /\ Top = stack[Len(stack)] /\ Top.todo \in Seq(Item) /\ Top.todo # <<>>
    BY <1>1, AtItem
  <2>2. Here \in DOMAIN disk.inode
    BY <2>1 DEF ItemSound, Descend, Followed, ROOT_INODE
  <2> DEFINE mid == Advanced(<<>>, Top.left)
             f == FragFrame(Here)
  <2>3. <<>> \in Seq(Item) /\ DOMAIN <<>> = {} /\ "entry" \notin PutsBack /\ Quiet(<<>>)
    BY DEF PutsBack, Quiet
  <2>4. stack' = Append(mid, f)
    <3>1. stack' = Append([stack EXCEPT ![Len(stack)].todo = Tail(@)], f)
      BY <1>3 DEF Descend
    <3>2. [stack EXCEPT ![Len(stack)].todo = <<>> \o Tail(@)] = mid
      BY <1>1, <2>3, InsteadAdvances
    <3>3. <<>> \o Tail(Top.todo) = Tail(Top.todo)
      BY <2>1
    <3>4. [stack EXCEPT ![Len(stack)].todo = <<>> \o Tail(@)] = [stack EXCEPT ![Len(stack)].todo = Tail(@)]
      BY <2>1, <3>3
    <3> QED
      BY <3>1, <3>2, <3>4
  <2>5. mid \in Seq(FrameOf(disk)) /\ \A k \in DOMAIN mid : FrameSound(mid[k])
    BY <1>1, <2>1, <2>3, AdvancedSound
  <2>6. Pending(mid) = Pending(stack)
    <3> DEFINE new == <<>> \o Tail(Top.todo)
    <3>1. new \in Seq(Item)
      BY <2>1
    <3>2. Owed(new) = Owed(stack[Len(stack)].todo)
      BY <2>1, <2>3, OwedSame
    <3>3. stack \in Seq(FrameOf(disk))
      BY <1>1 DEF StackOK
    <3>4. mid = [stack EXCEPT ![Len(stack)] = [ip |-> stack[Len(stack)].ip, left |-> Top.left, todo |-> new]]
      BY <2>1 DEF Advanced
    <3> HIDE DEF new, mid
    <3>5. Pending([stack EXCEPT ![Len(stack)] = [ip |-> stack[Len(stack)].ip, left |-> Top.left, todo |-> new]])
            = Pending(stack)
      BY <2>1, <3>1, <3>2, <3>3, PendingSame
    <3> QED
      BY <3>4, <3>5
  <2>7. /\ f \in FrameOf(disk) /\ f.ip = Here /\ Quiet(f.todo)
        /\ \A t \in DOMAIN f.todo : ItemSound(disk, Here, f.todo[t])
        /\ ~disk.inode[Here].dir => f.todo = <<>>
    BY <1>1, <2>2, NewFragFrame
  <2> HIDE DEF mid, f
  <2>8. Pending(stack') = Pending(stack)
    BY <2>4, <2>5, <2>6, <2>7, PendingPush
  <2>9. FrameSound(f)
    BY <2>7 DEF FrameSound
  <2>10. Steady /\ held' = held
    BY <1>3 DEF Steady, Descend, vfsVars
  <2>11. StackOK'
    <3>1. stack' \in Seq(FrameOf(disk))
      BY <2>4, <2>5, <2>7
    <3>2. ASSUME NEW k \in DOMAIN stack' PROVE FrameSound(stack'[k])
      <4>1. k \in DOMAIN mid \/ k = Len(mid) + 1
        BY <2>4, <2>5
      <4>2. CASE k \in DOMAIN mid
        <5>1. stack'[k] = mid[k]
          BY <2>4, <2>5, <4>2
        <5> QED
          BY <2>5, <4>2, <5>1
      <4>3. CASE k = Len(mid) + 1
        <5>1. stack'[k] = f
          BY <2>4, <2>5, <4>3
        <5> QED
          BY <2>9, <5>1
      <4> QED
        BY <4>1, <4>2, <4>3
    <3>3. ASSUME NEW k \in DOMAIN stack' PROVE FrameSound(stack[k])'
      <4>1. FrameSound(stack'[k])
        BY <3>2
      <4> QED
        BY <2>10, <4>1 DEF FrameSound, ItemSound, Steady
    <3> QED
      BY <2>1, <2>10, <3>1, <3>3 DEF StackOK, Steady
  <2>12. HeldOK'
    BY <1>1, <2>1, <2>8, <2>10, HeldSame DEF Steady
  <2> QED
    BY <1>1, <2>10, <2>11, <2>12, SteadyOK
<1> QED
  BY <1>2, <1>3

LEMMA AscendOK == FsInv /\ Ascend /\ UNCHANGED vfsVars => FsInv'
<1> SUFFICES ASSUME FsInv, Ascend, UNCHANGED vfsVars PROVE FsInv'
  OBVIOUS
<1>1. disk \in Disks /\ StackOK /\ HeldOK /\ ScanOK /\ JobOK /\ mfs = "up"
      /\ stack # <<>> /\ Top.todo = <<>> /\ stack' = Front(stack)
      /\ UNCHANGED <<disk, held, scan, mfs, job>>
  BY DEF FsInv, Ascend, vfsVars
<1>2. /\ stack \in Seq(FrameOf(disk)) /\ \A n \in DOMAIN stack : FrameSound(stack[n])
      /\ req \in {"blocks", "frag"}
  BY <1>1 DEF StackOK
<1>3. /\ stack' \in Seq(FrameOf(disk)) /\ Len(stack') = Len(stack) - 1 /\ Len(stack) \in Nat \ {0}
      /\ \A k \in 1 .. Len(stack) - 1 : stack'[k] = stack[k]
  BY <1>1, <1>2, FrontIs
<1>4. Top = stack[Len(stack)]
  BY <1>1, <1>2 DEF Top, Last
<1>5. Pending(stack') = Pending(stack)
  BY <1>1, <1>2, <1>4, PendingPop
<1>6. IF Len(stack) = 1 THEN req' = "idle" ELSE req' = req
  BY DEF Ascend
<1>7. HeldOK'
  <2>1. req' # "scan"
    BY <1>2, <1>6
  <2> QED
    BY <1>1, <1>2, <1>5, <2>1, HeldSame
<1>8. StackOK'
  <2>1. CASE Len(stack) = 1
    <3>1. stack' = <<>> /\ req' = "idle"
      BY <1>3, <1>6, <2>1
    <3>2. <<>> \in Seq(FrameOf(disk')) /\ DOMAIN <<>> = {}
      OBVIOUS
    <3> QED
      BY <3>1, <3>2 DEF StackOK
  <2>2. CASE Len(stack) # 1
    <3>1. ASSUME NEW k \in DOMAIN stack' PROVE FrameSound(stack[k])'
      <4>1. k \in 1 .. Len(stack) - 1 /\ k \in DOMAIN stack
        BY <1>2, <1>3
      <4>2. FrameSound(stack[k]) /\ stack'[k] = stack[k]
        BY <1>2, <1>3, <4>1
      <4> QED
        BY <1>1, <1>6, <2>2, <4>2 DEF FrameSound, ItemSound
    <3> QED
      BY <1>1, <1>2, <1>3, <1>6, <2>2, <3>1 DEF StackOK
  <2> QED
    BY <2>1, <2>2
<1>9. ScanOK'
  <2>1. req' # "scan"
    BY <1>2, <1>6
  <2> QED
    BY <1>1, <2>1 DEF ScanOK
<1>10. JobOK'
  BY <1>1 DEF JobOK, NoJob
<1> QED
  BY <1>1, <1>7, <1>8, <1>9, <1>10 DEF FsInv

-----------------------------------------------------------------------------
(* The scan of the bitmap.                                                 *)

LEMMA NothingPending == Pending(<<>>) = {} /\ IsFiniteSet(Pending(<<>>)) /\ Cardinality(Pending(<<>>)) = 0
<1>1. Pending(<<>>) = {}
  <2>1. DOMAIN <<>> = {}
    OBVIOUS
  <2> QED
    BY <2>1 DEF Pending
<1> QED
  BY <1>1, FS_EmptySet

LEMMA ScanFields ==
  ASSUME ScanOK
  PROVE  DOMAIN Scanned = DOMAIN scan /\ Scanned.block = scan.block /\ Scanned.off = scan.off
BY DEF ScanOK, Scanned

LEMMA ScanBitOK == FsInv /\ ScanBit /\ UNCHANGED vfsVars => FsInv'
<1> SUFFICES ASSUME FsInv, ScanBit, UNCHANGED vfsVars PROVE FsInv'
  OBVIOUS
<1>1. disk \in Disks /\ StackOK /\ HeldOK /\ ScanOK /\ JobOK /\ mfs = "up" /\ req = "scan"
      /\ UNCHANGED <<disk, req, stack, held, mfs, job>> /\ scan.off < BITS - 1
      /\ scan' = [Scanned EXCEPT !.off = @ + 1]
  BY DEF FsInv, ScanBit, vfsVars
<1>2. DOMAIN Scanned = DOMAIN scan /\ Scanned.block = scan.block /\ Scanned.off = scan.off
  BY <1>1, ScanFields
<1> DEFINE v == Scanned
<1> HIDE DEF v
<1>3. scan' = [v EXCEPT !.off = @ + 1] /\ DOMAIN v = DOMAIN scan /\ v.block = scan.block /\ v.off = scan.off
  BY <1>1, <1>2 DEF v
<1>4. DOMAIN scan' = DOMAIN scan /\ scan'.block = scan.block /\ scan'.off = scan.off + 1
  BY <1>1, <1>3 DEF ScanOK
<1>5. bit_blocks' = bit_blocks
  BY <1>1 DEF bit_blocks, map_bits
<1>6. ScanOK'
  BY <1>1, <1>4, <1>5, Sizes DEF ScanOK
<1>7. HeldOK'
  BY <1>1, <1>4, <1>5 DEF HeldOK, LeftBehind, BitmapBlock
<1>8. StackOK' /\ JobOK'
  BY <1>1 DEF StackOK, JobOK, NoJob, FrameSound, ItemSound
<1> QED
  BY <1>1, <1>6, <1>7, <1>8 DEF FsInv

LEMMA ScanBlockEndsOK == FsInv /\ ScanBlockEnds /\ UNCHANGED vfsVars => FsInv'
<1> SUFFICES ASSUME FsInv, ScanBlockEnds, UNCHANGED vfsVars PROVE FsInv'
  OBVIOUS
<1>1. disk \in Disks /\ StackOK /\ HeldOK /\ ScanOK /\ JobOK /\ mfs = "up" /\ req = "scan"
      /\ UNCHANGED <<disk, stack, mfs, job>>
      /\ scan' = [Scanned EXCEPT !.off = 0, !.block = @ + 1]
      /\ IF scan.block + 1 < bit_blocks
         THEN held' = Append(Front(held), BitmapBlock(scan.block + 1)) /\ UNCHANGED req
         ELSE held' = Front(held) /\ req' = "idle"
  BY DEF FsInv, ScanBlockEnds, vfsVars
<1> DEFINE v == Scanned
<1>2. DOMAIN v = DOMAIN scan /\ v.block = scan.block /\ v.off = scan.off
      /\ scan' = [v EXCEPT !.off = 0, !.block = @ + 1]
  BY <1>1, ScanFields
<1> HIDE DEF v
<1>3. DOMAIN scan' = DOMAIN scan /\ scan'.block = scan.block + 1 /\ scan'.off = 0
  BY <1>1, <1>2 DEF ScanOK
<1>4. bit_blocks' = bit_blocks
  BY <1>1 DEF bit_blocks, map_bits
<1>5. ScanOK'
  BY <1>1, <1>3, <1>4, Sizes DEF ScanOK
<1>6. stack = <<>> /\ stack' = <<>>
  BY <1>1 DEF StackOK
<1>7. StackOK' /\ JobOK'
  <2>1. <<>> \in Seq(FrameOf(disk')) /\ DOMAIN <<>> = {} /\ req' \in {"idle", "scan"}
    BY <1>1
  <2> QED
    BY <1>1, <1>6, <2>1 DEF StackOK, JobOK, NoJob
<1>8. HeldOK'
  <2> DEFINE rest == Front(held)
  <2>1. /\ held \in Seq(Nat) /\ held # <<>> /\ LeftBehind(Len(held) - 1)
    BY <1>1 DEF HeldOK
  <2>2. /\ rest \in Seq(Nat) /\ Len(rest) = Len(held) - 1 /\ Len(held) \in Nat \ {0}
        /\ \A k \in 1 .. Len(held) - 1 : rest[k] = held[k]
    BY <2>1, FrontIs
  <2> HIDE DEF rest
  <2>3. \A k \in 1 .. Len(rest) : rest[k] = BitmapBlock(bit_blocks - 1)
    BY <2>1, <2>2 DEF LeftBehind
  <2>4. CASE scan.block + 1 < bit_blocks
    <3> DEFINE b == BitmapBlock(scan.block + 1)
    <3>1. held' = Append(rest, b) /\ req' = "scan"
      BY <1>1, <2>4 DEF rest
    <3>2. b \in Nat
      BY <1>1, Bitmap DEF ScanOK
    <3>3. b = BitmapBlock(scan.block)'
      BY <1>3 DEF BitmapBlock
    <3> HIDE DEF b
    <3>4. /\ held' \in Seq(Nat) /\ Len(held') = Len(rest) + 1 /\ held'[Len(rest) + 1] = b /\ held' # <<>>
          /\ \A k \in 1 .. Len(rest) : held'[k] = rest[k]
      BY <2>2, <3>1, <3>2
    <3>5. Len(held') - 1 = Len(rest)
      BY <2>2, <3>4
    <3>6. LeftBehind(Len(held) - 1)'
      BY <1>4, <2>3, <3>4, <3>5 DEF LeftBehind, BitmapBlock
    <3> QED
      BY <1>6, <3>1, <3>3, <3>4, <3>6, NothingPending DEF HeldOK
  <2>5. CASE ~(scan.block + 1 < bit_blocks)
    <3>1. held' = rest /\ req' = "idle"
      BY <1>1, <2>5 DEF rest
    <3>2. LeftBehind(Len(held))'
      BY <1>4, <2>3, <3>1 DEF LeftBehind, BitmapBlock
    <3>3. Len(held') \in Nat /\ Len(held') - 0 = Len(held')
      BY <2>2, <3>1
    <3> QED
      BY <1>6, <2>2, <3>1, <3>2, <3>3, NothingPending DEF HeldOK
  <2> QED
    BY <2>4, <2>5
<1> QED
  BY <1>1, <1>5, <1>7, <1>8 DEF FsInv

\* The scan leaves the last block of the bitmap behind.
LEMMA ScanReportsOK == FsInv /\ ScanReports /\ UNCHANGED vfsVars => FsInv'
<1> SUFFICES ASSUME FsInv, ScanReports, UNCHANGED vfsVars PROVE FsInv'
  OBVIOUS
<1>1. disk \in Disks /\ StackOK /\ HeldOK /\ ScanOK /\ JobOK /\ mfs = "up" /\ req = "scan"
      /\ UNCHANGED <<disk, stack, held, scan, mfs, job>> /\ req' = "idle"
      /\ BitNumber >= map_bits
  BY DEF FsInv, ScanReports, vfsVars
<1>2. scan.block = bit_blocks - 1
  <2> DEFINE b == scan.block
             q == bit_blocks
  <2>1. b \in Nat /\ scan.off \in 0 .. BITS - 1 /\ b < q
    BY <1>1 DEF ScanOK
  <2>2. map_bits \in Nat /\ q \in Nat \ {0} /\ (q - 1) * BITS < map_bits
    BY <1>1, Bitmap
  <2>3. b * BITS + scan.off >= map_bits
    BY <1>1 DEF BitNumber
  <2> HIDE DEF b, q
  <2>4. ASSUME b # q - 1 PROVE FALSE
    <3>1. b + 1 <= q - 1
      BY <2>1, <2>2, <2>4
    <3>2. \A x, y, z \in Nat : x <= y => x * z <= y * z
      OBVIOUS
    <3>3. b + 1 \in Nat /\ q - 1 \in Nat /\ BITS \in Nat
      BY <2>1, <2>2, Sizes
    <3>4. (b + 1) * BITS <= (q - 1) * BITS
      BY <3>1, <3>2, <3>3
    <3>5. (b + 1) * BITS = b * BITS + BITS
      BY <2>1, Sizes
    <3>6. b * BITS \in Nat /\ (q - 1) * BITS \in Nat
      BY <2>1, <3>3
    <3> QED
      BY <2>1, <2>2, <2>3, <3>4, <3>5, <3>6, Sizes
  <2> QED
    BY <2>4 DEF b, q
<1>3. stack = <<>> /\ stack' = <<>>
  BY <1>1 DEF StackOK
<1>4. StackOK' /\ JobOK'
  <2>1. <<>> \in Seq(FrameOf(disk')) /\ DOMAIN <<>> = {} /\ req' \in {"idle", "scan"}
    BY <1>1
  <2> QED
    BY <1>1, <1>3, <2>1 DEF StackOK, JobOK, NoJob
<1>5. ScanOK'
  BY <1>1 DEF ScanOK
<1>6. HeldOK'
  <2>1. /\ held \in Seq(Nat) /\ held # <<>> /\ LeftBehind(Len(held) - 1)
        /\ held[Len(held)] = BitmapBlock(bit_blocks - 1)
    BY <1>1, <1>2 DEF HeldOK
  <2>2. Len(held) \in Nat \ {0}
    BY <2>1
  <2>3. ASSUME NEW k \in 1 .. Len(held) PROVE held[k] = BitmapBlock(bit_blocks - 1)
    <3>1. k = Len(held) \/ k \in 1 .. Len(held) - 1
      BY <2>2
    <3> QED
      BY <2>1, <3>1 DEF LeftBehind
  <2>4. LeftBehind(Len(held))'
    BY <1>1, <2>3 DEF LeftBehind, BitmapBlock, bit_blocks, map_bits
  <2>5. Len(held') - 0 = Len(held') /\ Len(held') >= 0 /\ held' \in Seq(Nat)
    BY <1>1, <2>1, <2>2
  <2> QED
    BY <1>1, <1>3, <2>4, <2>5, NothingPending DEF HeldOK
<1> QED
  BY <1>1, <1>4, <1>5, <1>6 DEF FsInv

-----------------------------------------------------------------------------
(* The calls of VFS.                                                       *)

\* A request starts a walk.
LEMMA WalkStarts ==
  ASSUME FsInv, mfs = "up", req = "idle", JobOK', NEW f \in FrameOf(disk), Quiet(f.todo),
         \A t \in DOMAIN f.todo : ItemSound(disk, f.ip, f.todo[t]) /\ f.todo[t].op # "block",
         req' \in {"blocks", "frag"}, req' = "frag" /\ ~disk.inode[f.ip].dir => f.todo = <<>>,
         stack' = <<f>>, UNCHANGED <<disk, held, scan, mfs>>
  PROVE  FsInv'
<1>1. disk \in Disks /\ StackOK /\ HeldOK /\ ScanOK
  BY DEF FsInv
<1>2. stack = <<>>
  BY <1>1 DEF StackOK
<1>3. <<f>> \in Seq(FrameOf(disk)) /\ DOMAIN <<f>> = {1} /\ <<f>>[1] = f
  OBVIOUS
<1>4. Pending(stack') = Pending(<<>>)
  <2>1. <<>> \in Seq(FrameOf(disk)) /\ <<f>> = Append(<<>>, f)
    OBVIOUS
  <2> QED
    BY <2>1, PendingPush
<1>5. FrameSound(f)'
  BY DEF FrameSound, ItemSound
<1>6. ASSUME NEW k \in DOMAIN stack' PROVE FrameSound(stack[k])'
  <2>1. stack'[k] = f
    BY <1>3
  <2> QED
    BY <1>5, <2>1 DEF FrameSound, ItemSound
<1>7. StackOK'
  BY <1>3, <1>6 DEF StackOK
<1>8. HeldOK'
  BY <1>1, <1>2, <1>4, NothingPending DEF HeldOK, LeftBehind, BitmapBlock, bit_blocks, map_bits
<1>9. ScanOK'
  BY <1>1 DEF ScanOK
<1> QED
  BY <1>1, <1>7, <1>8, <1>9 DEF FsInv

LEMMA SendOK == FsInv /\ Send => FsInv'
<1> SUFFICES ASSUME FsInv, Send PROVE FsInv'
  OBVIOUS
<1>1. disk \in Disks /\ StackOK /\ HeldOK /\ ScanOK /\ JobOK /\ mfs = "up" /\ req = "idle"
      /\ job.todo # <<>> /\ job' = [job EXCEPT !.todo = Tail(@)]
  BY DEF FsInv, Send
<1>2. job.ip \in DOMAIN disk.inode
  BY <1>1 DEF JobOK, NoJob
<1>3. disk' = disk
  BY DEF Send, fs_get_inode_blocks, fs_get_int_frag, fs_getfrag
<1>4. JobOK'
  <2>1. DOMAIN job' = DOMAIN job /\ job'.ip = job.ip
    BY <1>1 DEF JobOK
  <2> QED
    BY <1>1, <1>2, <1>3, <2>1 DEF JobOK
<1>5. CASE fs_get_inode_blocks(job.ip)
  <2> DEFINE f == Frame(job.ip, "zone")
  <2>1. /\ f \in FrameOf(disk) /\ f.ip = job.ip /\ Quiet(f.todo)
        /\ \A t \in DOMAIN f.todo : ItemSound(disk, job.ip, f.todo[t]) /\ f.todo[t].op # "block"
    BY <1>1, <1>2, NewFrame
  <2>2. req' = "blocks" /\ stack' = <<f>> /\ UNCHANGED <<disk, held, scan, mfs>>
    BY <1>5 DEF fs_get_inode_blocks
  <2> HIDE DEF f
  <2> QED
    BY <1>1, <1>4, <2>1, <2>2, WalkStarts
<1>6. CASE fs_get_int_frag(job.ip)
  <2> DEFINE f == FragFrame(job.ip)
  <2>1. /\ f \in FrameOf(disk) /\ f.ip = job.ip /\ Quiet(f.todo)
        /\ \A t \in DOMAIN f.todo : ItemSound(disk, job.ip, f.todo[t]) /\ f.todo[t].op # "block"
        /\ ~disk.inode[job.ip].dir => f.todo = <<>>
    BY <1>1, <1>2, NewFragFrame
  <2>2. req' = "frag" /\ stack' = <<f>> /\ UNCHANGED <<disk, held, scan, mfs>>
    BY <1>6 DEF fs_get_int_frag
  <2> HIDE DEF f
  <2> QED
    BY <1>1, <1>4, <2>1, <2>2, WalkStarts
<1>7. CASE fs_getfrag
  <2> DEFINE b == BitmapBlock(0)
  <2>1. req' = "scan" /\ scan' = NoScan /\ held' = Append(held, b) /\ UNCHANGED <<disk, stack, mfs>>
    BY <1>7 DEF fs_getfrag
  <2>2. bit_blocks \in Nat \ {0} /\ b \in Nat /\ bit_blocks' = bit_blocks
    BY <1>1, <1>3, Bitmap DEF bit_blocks, map_bits
  <2>3. stack = <<>> /\ stack' = <<>>
    BY <1>1, <2>1 DEF StackOK
  <2>4. /\ DOMAIN scan' = {"block", "off", "scanned", "total", "max", "min"}
        /\ scan'.block = 0 /\ scan'.off = 0
    BY <2>1 DEF NoScan
  <2>5. ScanOK'
    BY <2>2, <2>4, Sizes DEF ScanOK
  <2>6. b = BitmapBlock(scan.block)'
    BY <2>4 DEF BitmapBlock
  <2>7. held \in Seq(Nat) /\ \A k \in 1 .. Len(held) : held[k] = BitmapBlock(bit_blocks - 1)
    <3>1. held \in Seq(Nat) /\ LeftBehind(Len(held) - 0)
      BY <1>1, <2>3, NothingPending DEF HeldOK
    <3>2. Len(held) - 0 = Len(held)
      BY <3>1
    <3> QED
      BY <3>1, <3>2 DEF LeftBehind
  <2> HIDE DEF b
  <2>8. /\ held' \in Seq(Nat) /\ held' # <<>> /\ Len(held') = Len(held) + 1 /\ Len(held) \in Nat
        /\ held'[Len(held')] = b /\ \A k \in 1 .. Len(held) : held'[k] = held[k]
    BY <2>1, <2>2, <2>7
  <2>9. Len(held') - 1 = Len(held)
    BY <2>8
  <2>10. LeftBehind(Len(held) - 1)'
    BY <2>2, <2>7, <2>8, <2>9 DEF LeftBehind, BitmapBlock
  <2>11. HeldOK'
    BY <2>1, <2>3, <2>6, <2>8, <2>10, NothingPending DEF HeldOK
  <2>12. StackOK'
    <3>1. <<>> \in Seq(FrameOf(disk')) /\ DOMAIN <<>> = {}
      OBVIOUS
    <3> QED
      BY <2>1, <2>3, <3>1 DEF StackOK
  <2> QED
    BY <1>1, <1>3, <1>4, <2>5, <2>11, <2>12 DEF FsInv
<1> QED
  BY <1>5, <1>6, <1>7 DEF Send

LEMMA MfsStepOK == FsInv /\ MfsGoesOn => FsInv'
<1> SUFFICES ASSUME FsInv, MfsStep, UNCHANGED vfsVars PROVE FsInv'
  BY DEF MfsGoesOn
<1> QED
  BY SkipOK, IndirectOK, PutIndirectOK, WalkZoneOK, ListBlockOK, MeasureDirOK, DirBlockOK, DescendOK,
     DirBlockDoneOK, AscendOK, ScanBitOK, ScanBlockEndsOK, ScanReportsOK DEF MfsStep

\* What leaves MFS alone.
LEMMA OutsideOK ==
  ASSUME FsInv, UNCHANGED mfsVars, JobOK'
  PROVE  FsInv'
<1>1. UNCHANGED <<disk, req, stack, held, scan, mfs>>
  BY DEF mfsVars
<1>2. disk' \in Disks
  BY <1>1 DEF FsInv
<1>3. StackOK => StackOK'
  BY <1>1 DEF StackOK, FrameSound, ItemSound
<1>4. ScanOK => ScanOK'
  BY <1>1 DEF ScanOK, bit_blocks, map_bits
<1>5. HeldOK => HeldOK'
  BY <1>1 DEF HeldOK, LeftBehind, BitmapBlock, bit_blocks, map_bits
<1> QED
  BY <1>1, <1>2, <1>3, <1>4, <1>5 DEF FsInv

LEMMA FileinfoOK ==
  ASSUME FsInv, NEW i \in disk.named, NEW mode, do_fileinfo(i, mode)
  PROVE  FsInv'
<1>1. disk' = disk /\ disk \in Disks /\ UNCHANGED mfsVars /\ job' = [ip |-> i, todo |-> Wanted(mode)]
  BY DEF do_fileinfo, mfsVars, FsInv
<1>2. i \in DOMAIN disk.inode
  BY <1>1, SoundDisk
<1>3. JobOK'
  BY <1>1, <1>2 DEF JobOK
<1> QED
  BY <1>1, <1>3, OutsideOK

LEMMA FraginfoOK ==
  ASSUME FsInv, NEW i \in disk.named, do_fraginfo(i)
  PROVE  FsInv'
<1>1. disk' = disk /\ disk \in Disks /\ UNCHANGED mfsVars /\ job' = [ip |-> i, todo |-> <<"scan">>]
  BY DEF do_fraginfo, mfsVars, FsInv
<1>2. i \in DOMAIN disk.inode
  BY <1>1, SoundDisk
<1>3. JobOK'
  BY <1>1, <1>2 DEF JobOK
<1> QED
  BY <1>1, <1>3, OutsideOK

LEMMA SameJobOK == FsInv /\ UNCHANGED <<mfsVars, job>> => FsInv'
<1> SUFFICES ASSUME FsInv, UNCHANGED <<mfsVars, job>> PROVE FsInv'
  OBVIOUS
<1>1. JobOK'
  BY DEF FsInv, JobOK, NoJob, mfsVars
<1> QED
  BY <1>1, OutsideOK

LEMMA ReturnOK == FsInv /\ Return => FsInv'
<1> SUFFICES ASSUME FsInv, Return PROVE FsInv'
  OBVIOUS
<1>1. JobOK' /\ UNCHANGED mfsVars
  BY DEF Return, JobOK, NoJob
<1> QED
  BY <1>1, OutsideOK

LEMMA CallOK == FsInv /\ Call => FsInv'
<1> SUFFICES ASSUME FsInv, Call PROVE FsInv'
  OBVIOUS
<1>1. PICK i \in disk.named : \/ \E mode : do_fileinfo(i, mode)
                             \/ do_fraginfo(i)
  BY DEF Call
<1>2. CASE \E mode : do_fileinfo(i, mode)
  BY <1>2, FileinfoOK
<1>3. CASE do_fraginfo(i)
  BY <1>3, FraginfoOK
<1> QED
  BY <1>1, <1>2, <1>3

LEMMA DescriptorsOK == FsInv /\ Descriptors => FsInv'
<1> SUFFICES ASSUME FsInv, Descriptors PROVE FsInv'
  OBVIOUS
<1>1. UNCHANGED <<mfsVars, job>>
  BY DEF Descriptors, Open, Close
<1> QED
  BY <1>1, SameJobOK

-----------------------------------------------------------------------------
(* The invariant, and what follows from it.                                *)

LEMMA FsInit == ToolInit => FsInv
<1> SUFFICES ASSUME ToolInit PROVE FsInv
  OBVIOUS
<1>1. /\ disk \in Disks /\ req = "idle" /\ stack = <<>> /\ held = <<>> /\ scan = NoScan /\ job = NoJob
  BY DEF ToolInit, Init, MfsInit
<1>2. JobOK
  BY <1>1 DEF JobOK, NoJob
<1>3. <<>> \in Seq(FrameOf(disk)) /\ <<>> \in Seq(Nat) /\ DOMAIN <<>> = {} /\ Len(<<>>) = 0
  OBVIOUS
<1>4. StackOK
  BY <1>1, <1>3 DEF StackOK
<1>5. ScanOK
  BY <1>1, Sizes DEF ScanOK, NoScan
<1>6. HeldOK
  BY <1>1, <1>3, NothingPending DEF HeldOK, LeftBehind
<1> QED
  BY <1>1, <1>2, <1>4, <1>5, <1>6 DEF FsInv

LEMMA FsStep == FsInv /\ [ToolNext]_toolVars => FsInv'
<1> SUFFICES ASSUME FsInv, [ToolNext]_toolVars PROVE FsInv'
  OBVIOUS
<1>1. CASE UNCHANGED toolVars
  <2>1. UNCHANGED <<mfsVars, job>>
    BY <1>1 DEF toolVars, vars, vfsVars
  <2> QED
    BY <2>1, SameJobOK
<1>2. CASE fileinfo_tool
  BY <1>2, FileinfoOK DEF fileinfo_tool
<1>3. CASE fraginfo_tool
  <2>1. \E i \in disk.named : do_fraginfo(i) \/ do_fileinfo(i, {"frag"})
    BY <1>3 DEF fraginfo_tool
  <2> QED
    BY <2>1, FileinfoOK, FraginfoOK
<1>4. CASE ListDevices \/ SkipLine \/ EndOfList
  <2>1. UNCHANGED <<mfsVars, job>>
    BY <1>4 DEF ListDevices, SkipLine, EndOfList, vars, vfsVars
  <2> QED
    BY <2>1, SameJobOK
<1>5. CASE MeasureDevice
  <2>1. CASE Line = ThisDev
    <3>1. \E i \in disk.named : do_fileinfo(i, {"frag"})
      BY <1>5, <2>1 DEF MeasureDevice
    <3> QED
      BY <3>1, FileinfoOK
  <2>2. CASE Line # ThisDev
    <3>1. UNCHANGED <<mfsVars, job>>
      BY <1>5, <2>2 DEF MeasureDevice, vars, vfsVars
    <3> QED
      BY <3>1, SameJobOK
  <2> QED
    BY <2>1, <2>2
<1>6. CASE Answer
  BY <1>6, ReturnOK DEF Answer
<1>7. CASE Call
  BY <1>7, CallOK
<1>8. CASE Descriptors
  BY <1>8, DescriptorsOK
<1>9. CASE Send
  BY <1>9, SendOK
<1>10. CASE MfsGoesOn
  BY <1>10, MfsStepOK
<1> QED
  BY <1>1, <1>2, <1>3, <1>4, <1>5, <1>6, <1>7, <1>8, <1>9, <1>10 DEF ToolNext

LEMMA FsReturned == FsInv => BuffersReturned
<1> SUFFICES ASSUME FsInv, req = "idle", mfs = "up"
             PROVE  ToSet(held) \subseteq {BitmapBlock(bit_blocks - 1)}
  BY DEF BuffersReturned
<1>1. StackOK /\ HeldOK
  BY DEF FsInv
<1>2. stack = <<>>
  BY <1>1 DEF StackOK
<1>3. held \in Seq(Nat) /\ LeftBehind(Len(held) - 0)
  BY <1>1, <1>2, NothingPending DEF HeldOK
<1>4. Len(held) - 0 = Len(held) /\ DOMAIN held = 1 .. Len(held)
  BY <1>3
<1>5. \A k \in DOMAIN held : held[k] = BitmapBlock(bit_blocks - 1)
  BY <1>3, <1>4 DEF LeftBehind
<1> QED
  BY <1>5 DEF ToSet

(* Between requests MFS holds no block but the last of the bitmap, which   *)
(* FraginFS leaves behind: whatever the disks, the cache and the tables,   *)
(* after any sequence of calls, each get_block of the walks has met its    *)
(* put_block (get_frag_for_dir_*, get_dir_*, FraginFS).                    *)
THEOREM BuffersAreReturned == ToolSpec => []BuffersReturned
<1>1. FsInv /\ [ToolNext]_toolVars => FsInv'
  BY FsStep
<1> QED
  BY FsInit, <1>1, FsReturned, PTL DEF ToolSpec

-----------------------------------------------------------------------------
(* The list of the blocks of a file.                                       *)

\* The blocks of a run, and of the runs printed, one sequence each.
BlocksIn(r) == [k \in 1 .. r.last - r.first + 1 |-> r.first + k - 1]
Expanded == [n \in DOMAIN runs |-> BlocksIn(runs[n])]
Run == [first : Int, last : Int]

\* run is the sentinels until the first block was visited.
RunOK == /\ run = NoRun \/ (run \in Run /\ 0 <= run.first /\ run.first <= run.last)
         /\ runs \in Seq(Run) /\ visited \in Seq(Nat)
RunsInv == RunOK /\ RunsAreVisits

LEMMA BlocksInRun ==
  ASSUME NEW r \in Run
  PROVE  BlocksIn(r) \in Seq(Int)
<1>1. r.first \in Int /\ r.last \in Int
  BY DEF Run
<1> DEFINE n == IF r.last - r.first + 1 > 0 THEN r.last - r.first + 1 ELSE 0
<1>2. n \in Nat /\ 1 .. r.last - r.first + 1 = 1 .. n
  BY <1>1
<1>3. BlocksIn(r) \in [1 .. n -> Int]
  BY <1>1, <1>2 DEF BlocksIn
<1> QED
  BY <1>2, <1>3

LEMMA RunBlocks ==
  /\ NoRun \in Run /\ BlocksIn(NoRun) = <<>>
  /\ \A b \in Nat : [first |-> b, last |-> b] \in Run /\ BlocksIn([first |-> b, last |-> b]) = <<b>>
<1>1. NoRun.first = -1 /\ NoRun.last = -2 /\ NoRun \in Run
  BY DEF NoRun, Run
<1>2. BlocksIn(NoRun) = <<>>
  <2>1. BlocksIn(NoRun) = [k \in 1 .. 0 |-> NoRun.first + k - 1]
    BY <1>1 DEF BlocksIn
  <2> QED
    BY <2>1
<1>3. ASSUME NEW b \in Nat
      PROVE  [first |-> b, last |-> b] \in Run /\ BlocksIn([first |-> b, last |-> b]) = <<b>>
  <2>1. BlocksIn([first |-> b, last |-> b]) = [k \in 1 .. 1 |-> b + k - 1]
    BY DEF BlocksIn
  <2>2. \A k \in 1 .. 1 : b + k - 1 = b
    OBVIOUS
  <2>3. [k \in 1 .. 1 |-> b + k - 1] = <<b>>
    BY <2>2
  <2> QED
    BY <2>1, <2>3 DEF Run
<1> QED
  BY <1>1, <1>2, <1>3

LEMMA RunGrows ==
  ASSUME NEW r \in Run, r.first <= r.last
  PROVE  LET more == [first |-> r.first, last |-> r.last + 1]
         IN  more \in Run /\ BlocksIn(more) = Append(BlocksIn(r), r.last + 1)
<1>1. r.first \in Int /\ r.last \in Int
  BY DEF Run
<1> DEFINE more == [first |-> r.first, last |-> r.last + 1]
           n == r.last - r.first + 1
<1>2. n \in Nat /\ more.last - more.first + 1 = n + 1
  BY <1>1
<1>3. BlocksIn(r) \in Seq(Int) /\ Len(BlocksIn(r)) = n /\ \A k \in 1 .. n : BlocksIn(r)[k] = r.first + k - 1
  <2>1. BlocksIn(r) = [k \in 1 .. n |-> r.first + k - 1]
    BY DEF BlocksIn
  <2>2. BlocksIn(r) \in Seq(Int)
    BY BlocksInRun
  <2>3. DOMAIN BlocksIn(r) = 1 .. n /\ \A k \in 1 .. n : BlocksIn(r)[k] = r.first + k - 1
    <3> HIDE DEF n
    <3> QED BY <2>1
  <2> HIDE DEF n
  <2>4. Len(BlocksIn(r)) = n
    BY <1>2, <2>2, <2>3
  <2> QED
    BY <2>2, <2>3, <2>4
<1>4. BlocksIn(more) = [k \in 1 .. n + 1 |-> r.first + k - 1]
  BY <1>2 DEF BlocksIn
<1>5. r.first + (n + 1) - 1 = r.last + 1
  BY <1>1
<1> DEFINE a == Append(BlocksIn(r), r.last + 1)
<1>6. a \in Seq(Int) /\ Len(a) = n + 1 /\ a[n + 1] = r.last + 1 /\ \A k \in 1 .. n : a[k] = BlocksIn(r)[k]
  BY <1>1, <1>3
<1>7. \A k \in 1 .. n + 1 : a[k] = r.first + k - 1
  <2> HIDE DEF a, n
  <2> QED BY <1>2, <1>3, <1>5, <1>6
<1>8. BlocksIn(more) = a
  <2> HIDE DEF a, n, more
  <2> QED BY <1>2, <1>4, <1>6, <1>7
<1> QED
  BY <1>1, <1>8 DEF Run

LEMMA ExpandedMore ==
  ASSUME NEW rs \in Seq(Run), NEW r \in Run
  PROVE  /\ [n \in DOMAIN rs |-> BlocksIn(rs[n])] \in Seq(Seq(Int))
         /\ [n \in DOMAIN Append(rs, r) |-> BlocksIn(Append(rs, r)[n])]
              = Append([n \in DOMAIN rs |-> BlocksIn(rs[n])], BlocksIn(r))
<1> DEFINE e == [n \in DOMAIN rs |-> BlocksIn(rs[n])]
           more == Append(rs, r)
<1>1. DOMAIN rs = 1 .. Len(rs) /\ Len(rs) \in Nat /\ \A n \in DOMAIN rs : rs[n] \in Run
  OBVIOUS
<1>2. e \in Seq(Seq(Int)) /\ Len(e) = Len(rs)
  <2>1. \A n \in DOMAIN rs : BlocksIn(rs[n]) \in Seq(Int)
    BY <1>1, BlocksInRun
  <2>2. e \in [1 .. Len(rs) -> Seq(Int)]
    BY <1>1, <2>1
  <2> QED
    BY <1>1, <2>2
<1>3. DOMAIN more = 1 .. Len(rs) + 1 /\ more[Len(rs) + 1] = r /\ \A n \in 1 .. Len(rs) : more[n] = rs[n]
  BY <1>1
<1>4. BlocksIn(r) \in Seq(Int)
  BY BlocksInRun
<1> DEFINE a == Append(e, BlocksIn(r))
           m == [n \in DOMAIN more |-> BlocksIn(more[n])]
<1>5. DOMAIN a = 1 .. Len(rs) + 1 /\ a[Len(rs) + 1] = BlocksIn(r) /\ \A n \in 1 .. Len(rs) : a[n] = e[n]
  <2> HIDE DEF e
  <2> QED BY <1>1, <1>2, <1>4
<1>6. \A n \in 1 .. Len(rs) : e[n] = BlocksIn(rs[n])
  BY <1>1
<1>7. ASSUME NEW n \in 1 .. Len(rs) + 1 PROVE m[n] = a[n]
  <2>1. m[n] = BlocksIn(more[n])
    BY <1>3
  <2> HIDE DEF m, a, e, more
  <2>2. CASE n = Len(rs) + 1
    BY <1>3, <1>5, <2>1, <2>2
  <2>3. CASE n \in 1 .. Len(rs)
    BY <1>3, <1>5, <1>6, <2>1, <2>3
  <2> QED
    BY <1>1, <2>2, <2>3
<1>8. DOMAIN m = 1 .. Len(rs) + 1 /\ m = [n \in DOMAIN m |-> m[n]]
  BY <1>3
<1>9. a = [n \in DOMAIN a |-> a[n]]
  <2> HIDE DEF e
  <2>1. \A G : e \in Seq(G) /\ BlocksIn(r) \in G => a \in Seq(G)
    OBVIOUS
  <2>2. a \in Seq(Seq(Int))
    BY <1>2, <1>4, <2>1
  <2> HIDE DEF a
  <2>3. \A G : a \in Seq(G) => a = [n \in DOMAIN a |-> a[n]]
    OBVIOUS
  <2> QED
    BY <2>2, <2>3
<1>10. m = a
  <2> HIDE DEF m, a, e, more
  <2> QED BY <1>5, <1>7, <1>8, <1>9
<1> QED
  BY <1>2, <1>10

\* What is listed when the open run counts, and when it does not.
Listed(rs, r, open) == FlattenSeq([n \in DOMAIN rs |-> BlocksIn(rs[n])]) \o (IF open THEN BlocksIn(r) ELSE <<>>)

LEMMA RunsAreListed == RunsAreVisits <=> Listed(runs, run, req = "blocks") = visited
BY DEF RunsAreVisits, Listed, BlocksIn

\* The runs are those of before; what is open is.
LEMMA RunsKept == ASSUME RunsInv, UNCHANGED <<runs, run, visited>>, (req = "blocks") = (req' = "blocks")
                  PROVE  RunsInv'
BY DEF RunsInv, RunOK, RunsAreVisits

LEMMA ListedSteps ==
  ASSUME NEW rs \in Seq(Run), NEW r \in Run
  PROVE  /\ Listed(rs, r, TRUE) \in Seq(Int)
         /\ Listed(Append(rs, r), r, FALSE) = Listed(rs, r, TRUE)
         /\ \A b \in Nat : Listed(Append(rs, r), [first |-> b, last |-> b], TRUE) = Append(Listed(rs, r, TRUE), b)
         /\ \A b \in Nat : BlocksIn(r) = <<>> =>
              Listed(rs, [first |-> b, last |-> b], TRUE) = Append(Listed(rs, r, TRUE), b)
         /\ r.first <= r.last =>
              Listed(rs, [first |-> r.first, last |-> r.last + 1], TRUE) = Append(Listed(rs, r, TRUE), r.last + 1)
<1> DEFINE e == [n \in DOMAIN rs |-> BlocksIn(rs[n])]
           f == FlattenSeq(e)
           more == Append(rs, r)
<1>1. e \in Seq(Seq(Int)) /\ [n \in DOMAIN more |-> BlocksIn(more[n])] = Append(e, BlocksIn(r))
  BY ExpandedMore
<1>2. BlocksIn(r) \in Seq(Int)
  BY BlocksInRun
<1> HIDE DEF e
<1>3. f \in Seq(Int) /\ FlattenSeq(Append(e, BlocksIn(r))) = f \o BlocksIn(r)
  BY <1>1, <1>2, FlattenAppend
<1>4. \A s, open : /\ Listed(rs, s, open) = f \o (IF open THEN BlocksIn(s) ELSE <<>>)
                   /\ Listed(more, s, open) = (f \o BlocksIn(r)) \o (IF open THEN BlocksIn(s) ELSE <<>>)
  BY <1>1, <1>3 DEF Listed, e
<1> HIDE DEF f, more
<1>5. Listed(rs, r, TRUE) = f \o BlocksIn(r) /\ Listed(more, r, FALSE) = (f \o BlocksIn(r)) \o <<>>
  BY <1>4
<1>6. (f \o BlocksIn(r)) \o <<>> = f \o BlocksIn(r) /\ f \o BlocksIn(r) \in Seq(Int)
  BY <1>2, <1>3
<1>7. ASSUME NEW b \in Nat PROVE Listed(more, [first |-> b, last |-> b], TRUE) = Append(Listed(rs, r, TRUE), b)
  <2>1. Listed(more, [first |-> b, last |-> b], TRUE) = (f \o BlocksIn(r)) \o <<b>>
    BY <1>4, RunBlocks
  <2>2. \A q \in Seq(Int) : q \o <<b>> = Append(q, b)
    OBVIOUS
  <2> QED
    BY <1>5, <1>6, <2>1, <2>2
<1>8. ASSUME NEW b \in Nat, BlocksIn(r) = <<>>
      PROVE  Listed(rs, [first |-> b, last |-> b], TRUE) = Append(Listed(rs, r, TRUE), b)
  <2>1. Listed(rs, [first |-> b, last |-> b], TRUE) = f \o <<b>>
    BY <1>4, RunBlocks
  <2>2. f \o <<>> = f /\ f \o <<b>> = Append(f, b)
    BY <1>3
  <2> QED
    BY <1>5, <1>8, <2>1, <2>2
<1>9. ASSUME r.first <= r.last
      PROVE  Listed(rs, [first |-> r.first, last |-> r.last + 1], TRUE) = Append(Listed(rs, r, TRUE), r.last + 1)
  <2> DEFINE x == [first |-> r.first, last |-> r.last + 1]
             b == r.last + 1
  <2>1. b \in Int
    BY DEF Run
  <2>2. BlocksIn(x) = Append(BlocksIn(r), b)
    BY <1>9, RunGrows
  <2>3. Listed(rs, x, TRUE) = f \o Append(BlocksIn(r), b)
    <3> HIDE DEF x, b
    <3> QED BY <1>4, <2>2
  <2>4. f \o Append(BlocksIn(r), b) = Append(f \o BlocksIn(r), b)
    <3> HIDE DEF x, b
    <3> QED BY <1>2, <1>3, <2>1
  <2> QED
    BY <1>5, <2>3, <2>4
<1> QED
  BY <1>5, <1>6, <1>7, <1>8, <1>9 DEF more

LEMMA ListBlockRuns ==
  ASSUME disk \in Disks, StackOK, RunsInv, ListBlock
  PROVE  RunsInv'
<1> DEFINE b == Here
<1>1. At("block") /\ req = "blocks"
  BY DEF ListBlock
<1>2. b \in Nat
  BY <1>1, AtItem
<1> HIDE DEF b
<1>3. CASE ~HasBuffer(Here)
  BY <1>3, RunsKept DEF ListBlock, Panics, listVars
<1>4. CASE HasBuffer(Here)
  <2>1. /\ runs' = runs \o Printed(b) /\ visited' = Append(visited, b) /\ req' = "blocks"
        /\ run' = [first |-> IF run.last = b - 1 THEN run.first ELSE b, last |-> b]
    BY <1>1, <1>4 DEF ListBlock, b
  <2>2. /\ run \in Run /\ runs \in Seq(Run) /\ visited \in Seq(Nat) /\ Listed(runs, run, TRUE) = visited
        /\ run = NoRun \/ (0 <= run.first /\ run.first <= run.last)
    BY <1>1, RunBlocks, RunsAreListed DEF RunsInv, RunOK
  <2>3. run.first \in Int /\ run.last \in Int
    BY <2>2 DEF Run
  <2>4. visited' \in Seq(Nat)
    BY <1>2, <2>1, <2>2
  <2>5. CASE run = NoRun
    <3>1. run.first = -1 /\ run.last = -2 /\ run.last # b - 1
      BY <1>2, <2>5 DEF NoRun
    <3>2. run' = [first |-> b, last |-> b] /\ runs' = runs \o <<>>
      BY <2>1, <3>1 DEF Printed
    <3>3. runs' = runs
      BY <2>2, <3>2
    <3>4. BlocksIn(run) = <<>>
      BY <2>5, RunBlocks
    <3>5. Listed(runs, [first |-> b, last |-> b], TRUE) = Append(Listed(runs, run, TRUE), b)
      BY <1>2, <2>2, <3>4, ListedSteps
    <3>6. Listed(runs', run', req' = "blocks") = visited'
      BY <2>1, <2>2, <3>2, <3>3, <3>5
    <3>7. RunOK'
      BY <1>2, <2>2, <2>4, <3>2, <3>3 DEF RunOK, Run
    <3> QED
      BY <3>6, <3>7 DEF RunsInv, RunsAreVisits, Listed, BlocksIn
  <2>6. CASE run # NoRun /\ run.last = b - 1
    <3>1. run' = [first |-> run.first, last |-> run.last + 1] /\ b = run.last + 1 /\ runs' = runs \o <<>>
      BY <1>2, <2>1, <2>3, <2>6 DEF Printed
    <3>2. runs' = runs
      BY <2>2, <3>1
    <3>3. Listed(runs, [first |-> run.first, last |-> run.last + 1], TRUE) = Append(Listed(runs, run, TRUE), b)
      BY <2>2, <2>6, <3>1, ListedSteps
    <3>4. Listed(runs', run', req' = "blocks") = visited'
      BY <2>1, <2>2, <3>1, <3>2, <3>3
    <3>5. RunOK'
      BY <1>2, <2>2, <2>3, <2>4, <2>6, <3>1, <3>2 DEF RunOK, Run
    <3> QED
      BY <3>4, <3>5 DEF RunsInv, RunsAreVisits, Listed, BlocksIn
  <2>7. CASE run # NoRun /\ run.last # b - 1
    <3>1. run' = [first |-> b, last |-> b] /\ runs' = runs \o <<run>>
      BY <2>1, <2>2, <2>3, <2>7 DEF Printed
    <3>2. runs' = Append(runs, run) /\ runs' \in Seq(Run)
      BY <2>2, <3>1
    <3>3. Listed(Append(runs, run), [first |-> b, last |-> b], TRUE) = Append(Listed(runs, run, TRUE), b)
      BY <1>2, <2>2, ListedSteps
    <3>4. Listed(runs', run', req' = "blocks") = visited'
      BY <2>1, <2>2, <3>1, <3>2, <3>3
    <3>5. RunOK'
      BY <1>2, <2>4, <3>1, <3>2 DEF RunOK, Run
    <3> QED
      BY <3>4, <3>5 DEF RunsInv, RunsAreVisits, Listed, BlocksIn
  <2> QED
    BY <2>5, <2>6, <2>7
<1> QED
  BY <1>3, <1>4

LEMMA AscendRuns ==
  ASSUME RunsInv, Ascend
  PROVE  RunsInv'
<1>1. CASE Len(stack) = 1 /\ req = "blocks"
  <2>1. req' = "idle" /\ runs' = Append(runs, run) /\ UNCHANGED <<run, visited>>
    BY <1>1 DEF Ascend
  <2>2. run \in Run /\ runs \in Seq(Run) /\ Listed(runs, run, TRUE) = visited
    BY <1>1, RunBlocks, RunsAreListed DEF RunsInv, RunOK
  <2>3. Listed(Append(runs, run), run, FALSE) = Listed(runs, run, TRUE)
    BY <2>2, ListedSteps
  <2>4. Listed(runs', run', req' = "blocks") = visited'
    BY <2>1, <2>2, <2>3
  <2>5. Append(runs, run) \in Seq(Run)
    BY <2>2
  <2>6. RunOK'
    BY <2>1, <2>5 DEF RunsInv, RunOK
  <2> QED
    BY <2>4, <2>6 DEF RunsInv, RunsAreVisits, Listed, BlocksIn
<1>2. CASE ~(Len(stack) = 1 /\ req = "blocks")
  BY <1>2, RunsKept DEF Ascend
<1> QED
  BY <1>1, <1>2

LEMMA BlocksStartRuns ==
  ASSUME NEW i, fs_get_inode_blocks(i)
  PROVE  RunsInv'
<1>1. req' = "blocks" /\ runs' = <<>> /\ run' = NoRun /\ visited' = <<>>
  BY DEF fs_get_inode_blocks
<1>2. Listed(<<>>, NoRun, TRUE) = <<>>
  <2>1. DOMAIN <<>> = {} /\ [n \in {} |-> BlocksIn(<<>>[n])] = <<>> /\ <<>> \o <<>> = <<>> /\ Len(<<>>) = 0
    OBVIOUS
  <2>2. FlattenSeq([n \in DOMAIN <<>> |-> BlocksIn(<<>>[n])]) = <<>>
    BY <2>1 DEF FlattenSeq
  <2> QED
    BY <2>1, <2>2, RunBlocks DEF Listed
<1>3. RunOK'
  BY <1>1 DEF RunOK
<1> QED
  BY <1>1, <1>2, <1>3 DEF RunsInv, RunsAreVisits, Listed, BlocksIn

\* MFS changes when it is sent a request and when it goes on with one.
LEMMA MfsMoves == [ToolNext]_toolVars => UNCHANGED mfsVars \/ Send \/ MfsGoesOn
BY DEF ToolNext, toolVars, vars, fileinfo_tool, fraginfo_tool, do_fileinfo, do_fraginfo, ListDevices, SkipLine,
       MeasureDevice, EndOfList, Answer, Return, Call, Descriptors, Open, Close

LEMMA RunsStep == FsInv /\ RunsInv /\ [ToolNext]_toolVars => RunsInv'
<1> SUFFICES ASSUME FsInv, RunsInv, [ToolNext]_toolVars PROVE RunsInv'
  OBVIOUS
<1> USE DEF mfsVars, listVars
<1>1. CASE UNCHANGED mfsVars
  BY <1>1, RunsKept
<1>2. CASE Send
  <2>1. req = "idle"
    BY <1>2 DEF Send
  <2>2. CASE fs_get_inode_blocks(job.ip)
    BY <2>2, BlocksStartRuns
  <2>3. CASE fs_get_int_frag(job.ip)
    BY <2>1, <2>3, RunsKept DEF fs_get_int_frag
  <2>4. CASE fs_getfrag
    BY <2>1, <2>4, RunsKept DEF fs_getfrag
  <2> QED
    BY <1>2, <2>2, <2>3, <2>4 DEF Send
<1>3. CASE ListBlock
  BY <1>3, ListBlockRuns DEF FsInv
<1>4. CASE Ascend
  BY <1>4, AscendRuns
<1>5. CASE Skip \/ PutIndirect \/ WalkZone
  BY <1>5, RunsKept DEF Skip, PutIndirect, WalkZone
<1>6. CASE Indirect
  BY <1>6, RunsKept DEF Indirect, Panics
<1>7. CASE MeasureDir \/ DirBlock \/ Descend \/ DirBlockDone
  BY <1>7, RunsKept DEF MeasureDir, DirBlock, Descend, DirBlockDone, Panics
<1>8. CASE ScanBit \/ ScanBlockEnds \/ ScanReports
  <2>1. UNCHANGED <<runs, run, visited>> /\ req = "scan" /\ req' \in {"scan", "idle"}
    BY <1>8 DEF ScanBit, ScanBlockEnds, ScanReports
  <2> QED
    BY <2>1, RunsKept
<1>9. CASE MfsGoesOn
  BY <1>3, <1>4, <1>5, <1>6, <1>7, <1>8, <1>9 DEF MfsGoesOn, MfsStep
<1> QED
  BY <1>1, <1>2, <1>9, MfsMoves

LEMMA RunsInit == ToolInit => RunsInv
<1> SUFFICES ASSUME ToolInit PROVE RunsInv
  OBVIOUS
<1>1. req = "idle" /\ runs = <<>> /\ run = NoRun /\ visited = <<>>
  BY DEF ToolInit, Init, MfsInit
<1>2. Listed(<<>>, NoRun, FALSE) = <<>>
  <2>1. DOMAIN <<>> = {} /\ [n \in {} |-> BlocksIn(<<>>[n])] = <<>> /\ <<>> \o <<>> = <<>> /\ Len(<<>>) = 0
    OBVIOUS
  <2>2. FlattenSeq([n \in DOMAIN <<>> |-> BlocksIn(<<>>[n])]) = <<>>
    BY <2>1 DEF FlattenSeq
  <2> QED
    BY <2>1, <2>2 DEF Listed
<1>3. Listed(runs, run, req = "blocks") = visited
  BY <1>1, <1>2
<1>4. RunOK
  BY <1>1 DEF RunOK
<1> QED
  BY <1>3, <1>4, RunsAreListed DEF RunsInv

(* The runs printed for a file are its blocks as they were visited, at any *)
(* time of any request, whatever the disk: no block is lost or repeated    *)
(* where one run ends and the next begins (get_dir_zone,                   *)
(* fs_get_inode_blocks).                                                   *)
THEOREM RunsAreTheVisits == ToolSpec => []RunsAreVisits
<1>1. ToolInit => FsInv /\ RunsInv
  BY FsInit, RunsInit
<1>2. (FsInv /\ RunsInv) /\ [ToolNext]_toolVars => (FsInv /\ RunsInv)'
  BY FsStep, RunsStep
<1>3. RunsInv => RunsAreVisits
  BY DEF RunsInv
<1> QED
  BY <1>1, <1>2, <1>3, PTL DEF ToolSpec

-----------------------------------------------------------------------------
(* The types: what is left of a frame.                                     *)

\* While the entries of a block of a directory are looked at, its count stands for the
\* block, and goes down when they are done; nothing else is before that.
Claimed(f, t) == f.left > 0 /\ \A u \in 1 .. t - 1 : f.todo[u].op = "entry"
LeftOK(f) == /\ f.left \in 0 .. Blocks(f.ip)
             /\ \A t \in DOMAIN f.todo : f.todo[t].op = "done" => Claimed(f, t)
LeftInv == \A n \in DOMAIN stack : LeftOK(stack[n])

LEMMA BlocksNat ==
  ASSUME disk \in Disks, NEW i \in DOMAIN disk.inode
  PROVE  Blocks(i) \in Nat
<1>1. InodeSound(disk, i)
  BY SoundDisk
<1>2. disk.inode[i].size \in Nat
  BY <1>1 DEF InodeSound
<1>3. \A x \in Nat, b \in Nat \ {0} : (x + b - 1) \div b \in Nat
  OBVIOUS
<1> QED
  BY <1>2, <1>3, Sizes DEF Blocks, Size

LEMMA LeftAdvances ==
  ASSUME disk \in Disks, StackOK, LeftInv, NEW op, At(op), NEW items \in Seq(Item), NEW l \in Int,
         LeftOK([ip |-> Top.ip, left |-> l, todo |-> items \o Tail(Top.todo)])
  PROVE  \A k \in DOMAIN Advanced(items, l) : LeftOK(Advanced(items, l)[k])
<1> DEFINE f == [ip |-> Top.ip, left |-> l, todo |-> items \o Tail(Top.todo)]
           after == [stack EXCEPT ![Len(stack)] = f]
<1>1. Advanced(items, l) = after
  BY DEF Advanced
<1>2. Len(stack) \in DOMAIN stack
  BY AtItem
<1> HIDE DEF f
<1>3. ASSUME NEW k \in DOMAIN after PROVE LeftOK(after[k])
  <2>1. CASE k = Len(stack)
    <3>1. after[k] = f
      BY <1>2, <2>1
    <3> QED
      BY <3>1 DEF f
  <2>2. CASE k # Len(stack)
    <3>1. after[k] = stack[k] /\ k \in DOMAIN stack
      BY <2>2
    <3> QED
      BY <3>1 DEF LeftInv
  <2> QED
    BY <2>1, <2>2
<1> QED
  BY <1>1, <1>3

\* A frame whose first item is not an entry has no block behind it that is counted later.
LEMMA NothingClaimed ==
  ASSUME disk \in Disks, StackOK, LeftInv, NEW op, At(op), op # "entry"
  PROVE  /\ Top.left \in 0 .. Blocks(Top.ip) /\ Blocks(Top.ip) \in Nat
         /\ \A t \in DOMAIN Tail(Top.todo) : Tail(Top.todo)[t].op # "done"
<1>1. /\ Top = stack[Len(stack)] /\ Len(stack) \in DOMAIN stack /\ Top.ip \in DOMAIN disk.inode
      /\ Top.todo \in Seq(Item) /\ Top.todo # <<>> /\ Top.todo[1].op = op
  BY AtItem
<1>2. LeftOK(Top)
  BY <1>1 DEF LeftInv
<1>3. ASSUME NEW t \in DOMAIN Tail(Top.todo), Tail(Top.todo)[t].op = "done" PROVE FALSE
  <2>1. t \in Nat /\ t >= 1 /\ t + 1 \in DOMAIN Top.todo /\ Tail(Top.todo)[t] = Top.todo[t + 1]
    BY <1>1
  <2>2. Claimed(Top, t + 1)
    BY <1>2, <1>3, <2>1 DEF LeftOK
  <2>3. 1 \in 1 .. (t + 1) - 1
    BY <2>1
  <2> QED
    BY <1>1, <2>2, <2>3 DEF Claimed
<1> QED
  BY <1>1, <1>2, <1>3, BlocksNat DEF LeftOK

\* Another item than an entry is done, and what comes instead of it claims nothing.
LEMMA LeftMoves ==
  ASSUME disk \in Disks, StackOK, LeftInv, NEW op, At(op), op # "entry", NEW items \in Seq(Item),
         \A t \in DOMAIN items : items[t].op # "done", NEW l \in 0 .. Blocks(Top.ip)
  PROVE  \A k \in DOMAIN Advanced(items, l) : LeftOK(Advanced(items, l)[k])
<1> DEFINE rest == Tail(Top.todo)
           f == [ip |-> Top.ip, left |-> l, todo |-> items \o rest]
<1>1. Top.todo \in Seq(Item) /\ Top.todo # <<>> /\ Blocks(Top.ip) \in Nat
  BY AtItem, NothingClaimed
<1>2. rest \in Seq(Item) /\ \A t \in DOMAIN rest : rest[t].op # "done"
  BY <1>1, NothingClaimed
<1> HIDE DEF rest
<1>3. ASSUME NEW t \in DOMAIN (items \o rest) PROVE (items \o rest)[t].op # "done"
  <2>1. CASE t \in DOMAIN items
    BY <1>2, <2>1
  <2>2. CASE t \notin DOMAIN items
    <3>1. t - Len(items) \in DOMAIN rest /\ (items \o rest)[t] = rest[t - Len(items)]
      BY <1>2, <2>2
    <3> QED
      BY <1>2, <3>1
  <2> QED
    BY <2>1, <2>2
<1>4. LeftOK(f)
  BY <1>3 DEF LeftOK
<1>5. l \in Int
  BY <1>1
<1> QED
  BY <1>4, <1>5, LeftAdvances DEF rest

\* An entry is done: the block it is in is still claimed.
LEMMA LeftEntry ==
  ASSUME disk \in Disks, StackOK, LeftInv, At("entry")
  PROVE  \A k \in DOMAIN Advanced(<<>>, Top.left) : LeftOK(Advanced(<<>>, Top.left)[k])
<1>1. /\ Top = stack[Len(stack)] /\ Len(stack) \in DOMAIN stack /\ Top.left \in Int
      /\ Top.todo \in Seq(Item) /\ Top.todo # <<>>
  BY AtItem
<1>2. LeftOK(Top)
  BY <1>1 DEF LeftInv
<1> DEFINE rest == Tail(Top.todo)
           f == [ip |-> Top.ip, left |-> Top.left, todo |-> <<>> \o rest]
<1>3. f.ip = Top.ip /\ f.left = Top.left /\ f.todo = rest /\ <<>> \in Seq(Item)
  BY <1>1
<1>4. /\ Len(Top.todo) \in Nat \ {0} /\ DOMAIN rest = 1 .. Len(Top.todo) - 1 /\ DOMAIN Top.todo = 1 .. Len(Top.todo)
      /\ \A t \in 1 .. Len(Top.todo) - 1 : rest[t] = Top.todo[t + 1]
  BY <1>1
<1> HIDE DEF f, rest
<1>5. ASSUME NEW t \in DOMAIN f.todo, f.todo[t].op = "done" PROVE Claimed(f, t)
  <2>1. t \in Nat /\ t + 1 \in DOMAIN Top.todo /\ Top.todo[t + 1].op = "done"
    BY <1>3, <1>4, <1>5
  <2>2. Claimed(Top, t + 1)
    BY <1>2, <2>1 DEF LeftOK
  <2>3. ASSUME NEW u \in 1 .. t - 1 PROVE f.todo[u].op = "entry"
    <3>1. u \in 1 .. Len(Top.todo) - 1 /\ u + 1 \in 1 .. (t + 1) - 1
      BY <1>3, <1>4, <2>1
    <3>2. Top.todo[u + 1].op = "entry"
      BY <2>2, <3>1 DEF Claimed
    <3> QED
      BY <1>3, <1>4, <3>1, <3>2
  <2> QED
    BY <1>3, <2>2, <2>3 DEF Claimed
<1>6. LeftOK(f)
  BY <1>2, <1>3, <1>5 DEF LeftOK
<1> QED
  BY <1>1, <1>3, <1>6, LeftAdvances DEF f, rest

LEMMA LeftThen ==
  ASSUME UNCHANGED disk, \A k \in DOMAIN stack' : LeftOK(stack'[k])
  PROVE  LeftInv'
<1> SUFFICES ASSUME NEW k \in DOMAIN stack' PROVE LeftOK(stack[k])'
  BY DEF LeftInv
<1>1. LeftOK(stack'[k])
  OBVIOUS
<1> QED
  BY <1>1 DEF LeftOK, Claimed, Blocks, Size

LEMMA LeftKept == ASSUME LeftInv, UNCHANGED <<disk, stack>> PROVE LeftInv'
BY LeftThen DEF LeftInv

\* The frame of a request, or of an entry.
LEMMA LeftFrames ==
  ASSUME disk \in Disks, NEW i \in DOMAIN disk.inode
  PROVE  LeftOK(Frame(i, "zone")) /\ LeftOK(FragFrame(i))
<1>1. ASSUME NEW f \in {Frame(i, "zone"), Frame(i, "direct"), FragFrame(i)} PROVE LeftOK(f)
  <2>1. f.ip = i /\ Quiet(f.todo)
    BY <1>1, NewFrame, NewFragFrame
  <2>2. f.left = Blocks(i)
    BY <1>1 DEF Frame, FragFrame
  <2> QED
    BY <2>1, <2>2, BlocksNat DEF LeftOK, Quiet, PutsBack
<1> QED
  BY <1>1

LEMMA LeftSend == FsInv /\ LeftInv /\ Send => LeftInv'
<1> SUFFICES ASSUME FsInv, Send PROVE LeftInv'
  OBVIOUS
<1>1. disk \in Disks /\ job.todo # <<>> /\ job.ip \in DOMAIN disk.inode
  BY DEF FsInv, Send, JobOK, NoJob
<1>2. LeftOK(Frame(job.ip, "zone")) /\ LeftOK(FragFrame(job.ip))
  BY <1>1, LeftFrames
<1>3. ASSUME NEW f, LeftOK(f), stack' = <<f>>, UNCHANGED disk PROVE LeftInv'
  <2>1. \A k \in DOMAIN stack' : stack'[k] = f
    BY <1>3
  <2> QED
    BY <1>3, <2>1, LeftThen
<1>4. CASE fs_get_inode_blocks(job.ip)
  BY <1>2, <1>3, <1>4 DEF fs_get_inode_blocks
<1>5. CASE fs_get_int_frag(job.ip)
  BY <1>2, <1>3, <1>5 DEF fs_get_int_frag
<1>6. CASE fs_getfrag
  <2>1. DOMAIN stack = {} /\ stack' = stack /\ disk' = disk
    BY <1>6 DEF fs_getfrag, FsInv, StackOK, Send
  <2> QED
    BY <2>1, LeftThen
<1> QED
  BY <1>4, <1>5, <1>6 DEF Send

LEMMA LeftSkip == FsInv /\ LeftInv /\ Skip => LeftInv'
<1> SUFFICES ASSUME FsInv, LeftInv, Skip PROVE LeftInv'
  OBVIOUS
<1>1. PICK op \in {"direct", "zone", "single", "double", "block", "entry"} : At(op)
  BY DEF Skip
<1>2. disk \in Disks /\ StackOK /\ UNCHANGED disk /\ <<>> \in Seq(Item) /\ DOMAIN <<>> = {}
  BY DEF FsInv, Skip
<1>3. stack' = Advanced(<<>>, Top.left)
  BY <1>1, <1>2, InsteadAdvances DEF Skip, Instead
<1>4. CASE op = "entry"
  BY <1>1, <1>2, <1>3, <1>4, LeftEntry, LeftThen
<1>5. CASE op # "entry"
  <2>1. Top.left \in 0 .. Blocks(Top.ip)
    BY <1>1, <1>2, <1>5, NothingClaimed
  <2> QED
    BY <1>1, <1>2, <1>3, <1>5, <2>1, LeftMoves, LeftThen
<1> QED
  BY <1>4, <1>5

LEMMA LeftIndirect == FsInv /\ LeftInv /\ Indirect => LeftInv'
<1> SUFFICES ASSUME FsInv, LeftInv, Indirect PROVE LeftInv'
  OBVIOUS
<1>1. PICK op \in {"single", "double"} :
        /\ At(op) /\ Here # NO_ZONE
        /\ IF HasBuffer(Here * blocksPerZone) THEN Instead(Entries(op, Here)) /\ UNCHANGED disk ELSE Panics
  BY DEF Indirect
<1>2. CASE ~HasBuffer(Here * blocksPerZone)
  BY <1>1, <1>2, LeftKept DEF Panics
<1>3. CASE HasBuffer(Here * blocksPerZone)
  <2>1. disk \in Disks /\ StackOK /\ UNCHANGED disk
    BY <1>1, <1>3 DEF FsInv
  <2>2. Here \in Nat /\ Here = Top.todo[1].at /\ Top.todo[1].op = op /\ ItemSound(disk, Top.ip, Top.todo[1])
    BY <1>1, <2>1, AtItem
  <2>3. disk.indir[Here] \in Seq(Nat)
    <3>1. Here \in DOMAIN disk.indir
      BY <1>1, <2>2 DEF ItemSound, SingleSound, DoubleSound, NO_ZONE
    <3> QED
      BY <2>1, <3>1, SoundDisk
  <2> DEFINE zones == disk.indir[Here]
             kind == IF op = "single" THEN "zone" ELSE "single"
             items == Items(kind, zones)
             x == [op |-> "put", at |-> Here]
  <2>4. kind \in Ops /\ kind \notin PutsBack /\ x \in Item /\ x.op = "put"
    BY <2>2 DEF Ops, PutsBack, Item
  <2>5. Entries(op, Here) = items \o <<x>>
    BY DEF Entries
  <2> HIDE DEF x, zones
  <2>6. zones \in Seq(Nat)
    BY <2>3 DEF zones
  <2>7. items \in Seq(Item) /\ Quiet(items)
    <3> HIDE DEF kind
    <3> QED BY <2>4, <2>6, ItemsAre
  <2> HIDE DEF items
  <2>8. items \o <<x>> \in Seq(Item) /\ \A t \in DOMAIN (items \o <<x>>) : (items \o <<x>>)[t].op # "done"
    <3>1. DOMAIN (items \o <<x>>) = DOMAIN items \cup {Len(items) + 1} /\ (items \o <<x>>)[Len(items) + 1] = x
          /\ \A t \in DOMAIN items : (items \o <<x>>)[t] = items[t]
      BY <2>4, <2>7
    <3> QED
      BY <2>4, <2>7, <3>1 DEF Quiet, PutsBack
  <2>9. stack' = Advanced(items \o <<x>>, Top.left)
    <3>1. stack' = [stack EXCEPT ![Len(stack)].todo = (items \o <<x>>) \o Tail(@)]
      BY <1>1, <1>3, <2>5 DEF Instead
    <3> QED
      BY <1>1, <2>1, <2>8, <3>1, InsteadAdvances
  <2>10. Top.left \in 0 .. Blocks(Top.ip)
    BY <1>1, <2>1, NothingClaimed
  <2> QED
    BY <1>1, <2>1, <2>8, <2>9, <2>10, LeftMoves, LeftThen
<1> QED
  BY <1>2, <1>3

LEMMA LeftPutOrZone == FsInv /\ LeftInv /\ (PutIndirect \/ WalkZone \/ MeasureDir) => LeftInv'
<1> SUFFICES ASSUME FsInv, LeftInv, PutIndirect \/ WalkZone \/ MeasureDir PROVE LeftInv'
  OBVIOUS
<1>1. disk \in Disks /\ StackOK /\ UNCHANGED disk
  BY DEF FsInv, PutIndirect, WalkZone, MeasureDir
<1>2. ASSUME NEW op, At(op), op # "entry", NEW items \in Seq(Item),
             \A t \in DOMAIN items : items[t].op # "done", Instead(items)
      PROVE  LeftInv'
  <2>1. stack' = Advanced(items, Top.left) /\ Top.left \in 0 .. Blocks(Top.ip)
    BY <1>1, <1>2, InsteadAdvances, NothingClaimed DEF Instead
  <2> QED
    BY <1>1, <1>2, <2>1, LeftMoves, LeftThen
<1>3. CASE PutIndirect
  <2>1. <<>> \in Seq(Item) /\ DOMAIN <<>> = {}
    OBVIOUS
  <2> QED
    BY <1>2, <1>3, <2>1 DEF PutIndirect
<1>4. CASE MeasureDir
  <2> DEFINE x == [op |-> "zone", at |-> Here]
  <2>1. x \in Item /\ x.op = "zone"
    BY <1>1, <1>4, AtItem DEF MeasureDir, Item, Ops
  <2> HIDE DEF x
  <2>2. <<x>> \in Seq(Item) /\ \A t \in DOMAIN <<x>> : <<x>>[t].op # "done"
    BY <2>1
  <2> QED
    BY <1>2, <1>4, <2>2 DEF MeasureDir, x
<1>5. CASE WalkZone
  <2> DEFINE items == [n \in 1 .. blocksPerZone |-> [op |-> "block", at |-> Address(Here, n - 1)]]
  <2>1. Here \in Nat /\ At("zone")
    BY <1>1, <1>5, AtItem DEF WalkZone
  <2>2. /\ blocksPerZone \in Nat \ {0} /\ 2 ^ Scale = blocksPerZone
        /\ \A n \in 0 .. blocksPerZone - 1 : 2 ^ (Scale + n) \in Nat
    BY <1>1, Powers DEF blocksPerZone
  <2>3. ASSUME NEW n \in 1 .. blocksPerZone PROVE [op |-> "block", at |-> Address(Here, n - 1)] \in Item
    <3>1. n - 1 \in 0 .. blocksPerZone - 1
      BY <2>2
    <3>2. 2 ^ (Scale + (n - 1)) \in Nat
      BY <2>2, <3>1
    <3>3. Address(Here, n - 1) \in Nat
      BY <2>1, <2>2, <3>1, <3>2 DEF Address
    <3> QED
      BY <3>3 DEF Item, Ops
  <2>4. items \in Seq(Item)
    BY <2>2, <2>3
  <2>5. \A t \in DOMAIN items : items[t].op # "done"
    OBVIOUS
  <2> HIDE DEF items
  <2> QED
    BY <1>2, <1>5, <2>1, <2>4, <2>5 DEF WalkZone, items
<1> QED
  BY <1>3, <1>4, <1>5

LEMMA LeftBlockDone == FsInv /\ LeftInv /\ (ListBlock \/ DirBlockDone) => LeftInv'
<1> SUFFICES ASSUME FsInv, LeftInv, ListBlock \/ DirBlockDone PROVE LeftInv'
  OBVIOUS
<1>1. disk \in Disks /\ StackOK
  BY DEF FsInv
<1>2. <<>> \in Seq(Item) /\ DOMAIN <<>> = {}
  OBVIOUS
<1>3. ASSUME NEW op, At(op), op # "entry", Top.left # 0, UNCHANGED disk,
             stack' = [stack EXCEPT ![Len(stack)].todo = Tail(@), ![Len(stack)].left = @ - 1]
      PROVE  LeftInv'
  <2>1. stack' = Advanced(<<>>, Top.left - 1)
    BY <1>1, <1>2, <1>3, InsteadAdvances
  <2>2. Top.left - 1 \in 0 .. Blocks(Top.ip)
    <3>1. Top.left \in 0 .. Blocks(Top.ip) /\ Blocks(Top.ip) \in Nat
      BY <1>1, <1>3, NothingClaimed
    <3> QED
      BY <1>3, <3>1
  <2> QED
    BY <1>1, <1>2, <1>3, <2>1, <2>2, LeftMoves, LeftThen
<1>4. CASE ListBlock
  <2>1. CASE HasBuffer(Here)
    BY <1>3, <1>4, <2>1 DEF ListBlock
  <2>2. CASE ~HasBuffer(Here)
    BY <1>4, <2>2, LeftKept DEF ListBlock, Panics
  <2> QED
    BY <2>1, <2>2
<1>5. CASE DirBlockDone
  <2>1. At("done")
    BY <1>5 DEF DirBlockDone
  <2>2. /\ Top = stack[Len(stack)] /\ Len(stack) \in DOMAIN stack
        /\ Top.todo \in Seq(Item) /\ Top.todo # <<>> /\ Top.todo[1].op = "done" /\ Top.left \in Int
    BY <1>1, <2>1, AtItem
  <2>3. 1 \in DOMAIN Top.todo
    BY <2>2
  <2>4. Top.left > 0
    BY <2>2, <2>3 DEF LeftInv, LeftOK, Claimed
  <2> QED
    BY <1>3, <1>5, <2>1, <2>2, <2>4 DEF DirBlockDone
<1> QED
  BY <1>4, <1>5

LEMMA LeftDirBlock == FsInv /\ LeftInv /\ DirBlock => LeftInv'
<1> SUFFICES ASSUME FsInv, LeftInv, DirBlock PROVE LeftInv'
  OBVIOUS
<1>1. At("block") /\ disk \in Disks /\ StackOK /\ req = "frag" /\ Top.left # 0
  BY DEF FsInv, DirBlock
<1>2. CASE ~HasBuffer(Here)
  BY <1>2, LeftKept DEF DirBlock, Panics
<1>3. CASE HasBuffer(Here)
  <2>1. /\ Here \in Nat /\ Here = Top.todo[1].at /\ Top.todo[1].op = "block"
        /\ ItemSound(disk, Top.ip, Top.todo[1]) /\ Top.todo \in Seq(Item) /\ Top.todo # <<>>
    BY <1>1, AtItem
  <2> DEFINE slots == disk.entries[Here]
             named == SubSeq(slots, 3, Len(slots))
             items == Items("entry", named)
             x == [op |-> "done", at |-> Here]
             rest == Tail(Top.todo)
             new == (items \o <<x>>) \o rest
             f == [ip |-> Top.ip, left |-> Top.left, todo |-> new]
  <2>2. slots \in Seq(Nat)
    <3>1. Here \in DOMAIN disk.entries
      BY <1>1, <2>1 DEF ItemSound
    <3> DEFINE G == (DOMAIN disk.inode \cap Nat) \cup {0}
    <3>2. slots \in Seq(G) /\ G \subseteq Nat
      BY <1>1, <3>1, SoundDisk
    <3> HIDE DEF slots, G
    <3>3. /\ Len(slots) \in Nat /\ slots = [k \in 1 .. Len(slots) |-> slots[k]]
          /\ \A k \in 1 .. Len(slots) : slots[k] \in G
      BY <3>2
    <3>4. slots \in [1 .. Len(slots) -> Nat]
      BY <3>2, <3>3
    <3> QED
      BY <3>3, <3>4
  <2>3. named \in Seq(Nat)
    <3> HIDE DEF slots
    <3>1. Len(slots) \in Nat /\ \A k \in 3 .. Len(slots) : slots[k] \in Nat
      BY <2>2
    <3> QED
      BY <2>2, <3>1
  <2>4. x \in Item /\ x.op = "done"
    BY <2>1 DEF Item, Ops
  <2>5. stack' = [stack EXCEPT ![Len(stack)].todo = (items \o <<x>>) \o Tail(@)] /\ UNCHANGED disk
    BY <1>3 DEF DirBlock, Instead
  <2> HIDE DEF slots, x, named
  <2>6. /\ items \in Seq(Item) /\ Len(items) \in Nat /\ DOMAIN items = 1 .. Len(items)
        /\ \A t \in DOMAIN items : items[t].op = "entry"
    <3>1. "entry" \in Ops /\ "entry" \notin PutsBack
      BY DEF Ops, PutsBack
    <3>2. /\ items \in Seq(Item) /\ Len(items) = Len(named)
          /\ \A t \in 1 .. Len(named) : items[t] = [op |-> "entry", at |-> named[t]]
      BY <2>3, <3>1, ItemsAre
    <3> HIDE DEF items
    <3>3. ASSUME NEW t \in 1 .. Len(named) PROVE items[t].op = "entry"
      <4>1. items[t] = [op |-> "entry", at |-> named[t]]
        BY <3>2
      <4> QED
        BY <4>1
    <3>4. Len(items) \in Nat /\ DOMAIN items = 1 .. Len(items)
      BY <3>2
    <3> QED
      BY <3>2, <3>3, <3>4
  <2> HIDE DEF items
  <2>7. rest \in Seq(Item) /\ (\A t \in DOMAIN rest : rest[t].op # "done")
        /\ Top.left \in 0 .. Blocks(Top.ip) /\ Blocks(Top.ip) \in Nat
    BY <1>1, <2>1, NothingClaimed
  <2> HIDE DEF rest
  <2>8. items \o <<x>> \in Seq(Item) /\ new \in Seq(Item) /\ DOMAIN new = 1 .. Len(items) + 1 + Len(rest)
        /\ (\A t \in 1 .. Len(items) : new[t] = items[t]) /\ new[Len(items) + 1] = x
        /\ \A t \in Len(items) + 2 .. Len(items) + 1 + Len(rest) :
             t - (Len(items) + 1) \in DOMAIN rest /\ new[t] = rest[t - (Len(items) + 1)]
    <3> DEFINE more == items \o <<x>>
    <3>1. more \in Seq(Item) /\ Len(more) = Len(items) + 1 /\ more[Len(items) + 1] = x
          /\ \A t \in 1 .. Len(items) : more[t] = items[t]
      BY <2>4, <2>6
    <3> HIDE DEF more
    <3>2. Len(rest) \in Nat /\ DOMAIN rest = 1 .. Len(rest)
      BY <2>7
    <3>3. \A G : \A p, q \in Seq(G) : /\ p \o q \in Seq(G) /\ Len(p \o q) = Len(p) + Len(q)
                                      /\ DOMAIN (p \o q) = 1 .. Len(p) + Len(q)
                                      /\ \A t \in 1 .. Len(p) : (p \o q)[t] = p[t]
      OBVIOUS
    <3>6. more \o rest \in Seq(Item) /\ DOMAIN (more \o rest) = 1 .. Len(items) + 1 + Len(rest)
          /\ \A t \in 1 .. Len(items) + 1 : (more \o rest)[t] = more[t]
      BY <2>7, <3>1, <3>3
    <3>4. \A t \in Len(items) + 2 .. Len(items) + 1 + Len(rest) :
             t - (Len(items) + 1) \in DOMAIN rest /\ (more \o rest)[t] = rest[t - (Len(items) + 1)]
      BY <2>6, <2>7, <3>1, <3>2
    <3>5. Len(items) + 1 \in 1 .. Len(items) + 1 /\ \A t \in 1 .. Len(items) : t \in 1 .. Len(items) + 1
      BY <2>6
    <3> QED
      BY <3>1, <3>4, <3>5, <3>6 DEF more
  <2> HIDE DEF new
  <2>9. ASSUME NEW t \in DOMAIN new, new[t].op = "done" PROVE t = Len(items) + 1
    <3>1. t \in 1 .. Len(items) \/ t = Len(items) + 1 \/ t \in Len(items) + 2 .. Len(items) + 1 + Len(rest)
      BY <2>6, <2>8
    <3>2. CASE t \in 1 .. Len(items)
      BY <2>6, <2>8, <2>9, <3>2
    <3>3. CASE t \in Len(items) + 2 .. Len(items) + 1 + Len(rest)
      BY <2>7, <2>8, <2>9, <3>3
    <3> QED
      BY <3>1, <3>2, <3>3
  <2>10. Top.left > 0
    BY <1>1, <2>7
  <2>11. ASSUME NEW t \in DOMAIN new, new[t].op = "done" PROVE Claimed(f, t)
    <3>1. t = Len(items) + 1
      BY <2>9, <2>11
    <3>2. \A u \in 1 .. t - 1 : u \in 1 .. Len(items)
      BY <2>6, <3>1
    <3> QED
      BY <2>6, <2>8, <2>10, <3>2 DEF Claimed
  <2>12. LeftOK(f)
    BY <2>7, <2>11 DEF LeftOK
  <2>13. stack' = Advanced(items \o <<x>>, Top.left)
    BY <1>1, <2>5, <2>8, InsteadAdvances
  <2>14. \A k \in DOMAIN Advanced(items \o <<x>>, Top.left) : LeftOK(Advanced(items \o <<x>>, Top.left)[k])
    <3>1. Top.left \in Int
      BY <2>7
    <3>2. LeftOK([ip |-> Top.ip, left |-> Top.left, todo |-> (items \o <<x>>) \o Tail(Top.todo)])
      BY <2>12 DEF new, rest
    <3> QED
      BY <1>1, <2>8, <3>1, <3>2, LeftAdvances
  <2> QED
    BY <2>5, <2>13, <2>14, LeftThen
<1> QED
  BY <1>2, <1>3

LEMMA LeftDescend == FsInv /\ LeftInv /\ Descend => LeftInv'
<1> SUFFICES ASSUME FsInv, LeftInv, Descend PROVE LeftInv'
  OBVIOUS
<1>1. At("entry") /\ disk \in Disks /\ StackOK
  BY DEF FsInv, Descend
<1>2. CASE ~HasInode(Here)
  BY <1>2, LeftKept DEF Descend, Panics
<1>3. CASE HasInode(Here)
  <2>1. /\ Here = Top.todo[1].at /\ Top.todo[1].op = "entry" /\ ItemSound(disk, Top.ip, Top.todo[1])
        /\ Top.left \in Int /\ Here \in Nat /\ Top.todo \in Seq(Item) /\ Top.todo # <<>>
    BY <1>1, AtItem
  <2>2. Here \in DOMAIN disk.inode
    BY <2>1 DEF ItemSound, Descend, Followed, ROOT_INODE
  <2> DEFINE mid == Advanced(<<>>, Top.left)
             f == FragFrame(Here)
  <2>3. <<>> \in Seq(Item) /\ DOMAIN <<>> = {}
    OBVIOUS
  <2>4. stack' = Append(mid, f) /\ UNCHANGED disk
    <3>1. stack' = Append([stack EXCEPT ![Len(stack)].todo = Tail(@)], f) /\ UNCHANGED disk
      BY <1>3 DEF Descend
    <3>2. [stack EXCEPT ![Len(stack)].todo = <<>> \o Tail(@)] = mid
      BY <1>1, <2>3, InsteadAdvances
    <3>3. <<>> \o Tail(Top.todo) = Tail(Top.todo)
      BY <2>1
    <3>4. [stack EXCEPT ![Len(stack)].todo = <<>> \o Tail(@)] = [stack EXCEPT ![Len(stack)].todo = Tail(@)]
      <4>1. Top = stack[Len(stack)]
        BY <1>1, AtItem
      <4> QED BY <3>3, <4>1
    <3> QED
      BY <3>1, <3>2, <3>4
  <2>5. mid \in Seq(FrameOf(disk))
    BY <1>1, <2>1, <2>3, AdvancedSound
  <2>6. (\A k \in DOMAIN mid : LeftOK(mid[k])) /\ LeftOK(f)
    BY <1>1, <2>2, LeftEntry, LeftFrames
  <2> HIDE DEF mid, f
  <2>7. \A k \in DOMAIN stack' : stack'[k] = f \/ (k \in DOMAIN mid /\ stack'[k] = mid[k])
    BY <2>4, <2>5
  <2> QED
    BY <2>4, <2>6, <2>7, LeftThen
<1> QED
  BY <1>2, <1>3

LEMMA LeftAscend == FsInv /\ LeftInv /\ Ascend => LeftInv'
<1> SUFFICES ASSUME FsInv, LeftInv, Ascend PROVE LeftInv'
  OBVIOUS
<1>1. stack \in Seq(FrameOf(disk)) /\ stack # <<>> /\ stack' = Front(stack) /\ UNCHANGED disk
  BY DEF FsInv, StackOK, Ascend
<1>2. \A k \in DOMAIN stack' : k \in DOMAIN stack /\ stack'[k] = stack[k]
  BY <1>1, FrontIs
<1> QED
  BY <1>1, <1>2, LeftThen DEF LeftInv

LEMMA LeftStep == FsInv /\ LeftInv /\ [ToolNext]_toolVars => LeftInv'
<1> SUFFICES ASSUME FsInv, LeftInv, [ToolNext]_toolVars PROVE LeftInv'
  OBVIOUS
<1>1. CASE UNCHANGED mfsVars
  BY <1>1, LeftKept DEF mfsVars
<1>2. CASE MfsGoesOn
  <2>1. CASE ScanBit \/ ScanBlockEnds \/ ScanReports
    BY <2>1, LeftKept DEF ScanBit, ScanBlockEnds, ScanReports
  <2> QED
    BY <1>2, <2>1, LeftSkip, LeftIndirect, LeftPutOrZone, LeftBlockDone, LeftDirBlock, LeftDescend, LeftAscend
    DEF MfsGoesOn, MfsStep
<1> QED
  BY <1>1, <1>2, LeftSend, MfsMoves

-----------------------------------------------------------------------------
(* The types: the statistics.                                              *)

StatOK(s) == /\ DOMAIN s = {"entries", "dirs", "total", "blocks", "min", "max", "bin"}
             /\ s.min \in 0 .. BLOCK_SIZE /\ s.max \in 0 .. BLOCK_SIZE - 1

LEMMA FragVals ==
  ASSUME disk \in Disks, NEW i \in DOMAIN disk.inode
  PROVE  FragVal(i) \in 0 .. BLOCK_SIZE - 1
<1>1. InodeSound(disk, i)
  BY SoundDisk
<1>2. disk.inode[i].size \in Nat
  BY <1>1 DEF InodeSound
<1>3. \A x \in Nat, b \in Nat \ {0} : x % b \in 0 .. b - 1
  OBVIOUS
<1> DEFINE r == disk.inode[i].size % BLOCK_SIZE
<1>4. r \in 0 .. BLOCK_SIZE - 1
  BY <1>2, <1>3, Sizes
<1>5. FragVal(i) = IF r = 0 THEN 0 ELSE BLOCK_SIZE - r
  BY DEF FragVal, Size
<1> HIDE DEF r
<1> QED
  BY <1>4, <1>5, Sizes

LEMMA CountedOK ==
  ASSUME NEW s, StatOK(s), NEW v \in 0 .. BLOCK_SIZE - 1
  PROVE  StatOK(Counted(s, v))
<1>1. Counted(s, v) = [s EXCEPT !.entries = s.entries + 1, !.total = s.total + v, !.min = Lesser(v, s.min),
                                !.max = Greater(v, s.max), !.bin = [s.bin EXCEPT ![Bin(v)] = s.bin[Bin(v)] + 1]]
  BY DEF Counted, StatOK
<1>2. /\ DOMAIN Counted(s, v) = DOMAIN s
      /\ Counted(s, v).min = Lesser(v, s.min) /\ Counted(s, v).max = Greater(v, s.max)
  BY <1>1 DEF StatOK
<1> QED
  BY <1>2, Sizes DEF StatOK, Lesser, Greater

LEMMA MeasuredOK ==
  ASSUME disk \in Disks, NEW i \in DOMAIN disk.inode, NEW s, StatOK(s)
  PROVE  StatOK(Measured(s, i))
<1> DEFINE used == [s EXCEPT !.blocks = @ + Blocks(i)]
           dir == [used EXCEPT !.dirs = @ + 1]
<1>1. StatOK(used) /\ StatOK(dir)
  BY DEF StatOK
<1>2. StatOK(Counted(used, FragVal(i)))
  <2> HIDE DEF used
  <2> QED BY <1>1, CountedOK, FragVals
<1> QED
  BY <1>1, <1>2 DEF Measured

LEMMA NoStatOK == StatOK(NoStat)
BY Sizes DEF StatOK, NoStat

LEMMA StatStep == FsInv /\ StatOK(stat) /\ [ToolNext]_toolVars => StatOK(stat)'
<1> SUFFICES ASSUME FsInv, StatOK(stat), [ToolNext]_toolVars PROVE StatOK(stat)'
  OBVIOUS
<1>1. CASE UNCHANGED stat
  BY <1>1 DEF StatOK
<1>2. ASSUME NEW s, StatOK(s), stat' = s PROVE StatOK(stat)'
  BY <1>2 DEF StatOK
<1>3. CASE Send
  <2>1. disk \in Disks /\ job.ip \in DOMAIN disk.inode
    BY <1>3 DEF FsInv, Send, JobOK, NoJob
  <2>2. StatOK(Measured(NoStat, job.ip))
    BY <2>1, NoStatOK, MeasuredOK
  <2> QED
    BY <1>1, <1>2, <1>3, <2>2 DEF Send, fs_get_inode_blocks, fs_get_int_frag, fs_getfrag
<1>4. CASE MeasureDir
  <2>1. disk \in Disks /\ Top.ip \in DOMAIN disk.inode
    BY <1>4, AtItem DEF MeasureDir, FsInv
  <2>2. StatOK(Counted(stat, FragVal(Top.ip)))
    BY <2>1, FragVals, CountedOK
  <2> QED
    BY <1>2, <1>4, <2>2 DEF MeasureDir
<1>5. CASE Descend
  <2>1. disk \in Disks /\ ItemSound(disk, Top.ip, Top.todo[1]) /\ Top.todo[1].op = "entry" /\ Here = Top.todo[1].at
        /\ Here \in Nat
    BY <1>5, AtItem DEF Descend, FsInv
  <2>2. Here \in DOMAIN disk.inode
    BY <1>5, <2>1 DEF ItemSound, Descend, Followed, ROOT_INODE
  <2>3. StatOK(Measured(stat, Here))
    BY <2>1, <2>2, MeasuredOK
  <2> QED
    BY <1>1, <1>2, <1>5, <2>3 DEF Descend, Panics
<1>6. CASE MfsGoesOn /\ ~MeasureDir /\ ~Descend
  BY <1>1, <1>6 DEF MfsGoesOn, MfsStep, Skip, Indirect, PutIndirect, WalkZone, ListBlock, DirBlock, DirBlockDone,
                    Ascend, ScanBit, ScanBlockEnds, ScanReports, Panics
<1>7. CASE UNCHANGED mfsVars
  BY <1>1, <1>7 DEF mfsVars
<1> QED
  BY <1>3, <1>4, <1>5, <1>6, <1>7, MfsMoves

-----------------------------------------------------------------------------
(* The types: the requests of a call.                                      *)

CountInv == /\ served \in Nat /\ EOF_reached \in BOOLEAN
            /\ mfs \in {"up", "down"} /\ vfs \in {"up", "undefined"}
            /\ job.todo \in Seq(Requests) /\ served + Len(job.todo) <= MaxReq

LEMMA WantedAre == /\ \A mode : Wanted(mode) \in Seq(Requests) /\ Len(Wanted(mode)) \in Nat
                   /\ Len(Wanted({"frag"})) = 1
<1>1. <<"blocks">> \in Seq(Requests) /\ <<"frag">> \in Seq(Requests) /\ <<>> \in Seq(Requests)
  BY DEF Requests
<1>2. \A p, q \in Seq(Requests) : p \o q \in Seq(Requests) /\ Len(p \o q) \in Nat
  OBVIOUS
<1>3. Wanted({"frag"}) = <<>> \o <<"frag">>
  BY DEF Wanted
<1>4. Len(<<>> \o <<"frag">>) = 1
  OBVIOUS
<1> QED
  BY <1>1, <1>2, <1>3, <1>4 DEF Wanted

LEMMA CountFileinfo ==
  ASSUME CountInv, NEW i, NEW mode, do_fileinfo(i, mode), served + Len(Wanted(mode)) <= MaxReq
  PROVE  CountInv'
<1>1. job' = [ip |-> i, todo |-> Wanted(mode)] /\ vfs' \in {vfs, "undefined"} /\ UNCHANGED mfsVars
  BY DEF do_fileinfo
<1> QED
  BY <1>1, WantedAre DEF CountInv, mfsVars, listVars

LEMMA CountFraginfo ==
  ASSUME CountInv, NEW i, do_fraginfo(i), served < MaxReq
  PROVE  CountInv'
<1>1. job' = [ip |-> i, todo |-> <<"scan">>] /\ vfs' = vfs /\ UNCHANGED mfsVars
  BY DEF do_fraginfo
<1>2. <<"scan">> \in Seq(Requests) /\ Len(<<"scan">>) = 1
  BY DEF Requests
<1> QED
  BY <1>1, <1>2, MaxReqAssumption DEF CountInv, mfsVars, listVars

LEMMA CountCall == CountInv /\ Call => CountInv'
<1> SUFFICES ASSUME CountInv, Call PROVE CountInv'
  OBVIOUS
<1> QED
  BY CountFileinfo, CountFraginfo DEF Call

LEMMA FragWanted == served < MaxReq /\ served \in Nat => served + Len(Wanted({"frag"})) <= MaxReq
<1>1. Len(Wanted({"frag"})) = 1
  BY WantedAre
<1>2. MaxReq \in Nat
  BY MaxReqAssumption
<1>3. served < MaxReq /\ served \in Nat => served + 1 <= MaxReq
  BY <1>2
<1> QED
  BY <1>1, <1>3

LEMMA CountStep == FsInv /\ CountInv /\ [ToolNext]_toolVars => CountInv'
<1> SUFFICES ASSUME FsInv, CountInv, [ToolNext]_toolVars PROVE CountInv'
  OBVIOUS
<1>0. served \in Nat
  BY DEF CountInv
<1>1. CASE UNCHANGED <<mfsVars, job, vfs>>
  BY <1>1 DEF CountInv, mfsVars, listVars
<1>2. CASE Call
  BY <1>2, CountCall
<1>3. CASE fileinfo_tool
  BY <1>3, CountFileinfo DEF fileinfo_tool
<1>4. CASE fraginfo_tool
  BY <1>0, <1>4, CountFileinfo, CountFraginfo, FragWanted DEF fraginfo_tool
<1>5. CASE MeasureDevice
  <2>1. CASE Line = ThisDev
    BY <1>0, <1>5, <2>1, CountFileinfo, FragWanted DEF MeasureDevice
  <2>2. CASE Line # ThisDev
    BY <1>1, <1>5, <2>2 DEF MeasureDevice, vars, vfsVars
  <2> QED
    BY <2>1, <2>2
<1>6. CASE Return
  <2>1. job' = NoJob /\ UNCHANGED <<mfsVars, vfs>> /\ job.todo = <<>>
    BY <1>6 DEF Return
  <2>2. job'.todo = <<>>
    BY <2>1 DEF NoJob
  <2> QED
    BY <2>1, <2>2 DEF CountInv, mfsVars, listVars
<1>7. CASE Send
  <2>1. /\ job.todo # <<>> /\ job' = [job EXCEPT !.todo = Tail(@)] /\ served' = served + 1
        /\ UNCHANGED <<mfs, vfs>> /\ EOF_reached' \in BOOLEAN
    BY <1>7 DEF Send, fs_get_inode_blocks, fs_get_int_frag, fs_getfrag, CountInv, listVars
  <2>2. job'.todo = Tail(job.todo)
    BY <2>1 DEF FsInv, JobOK
  <2>3. Tail(job.todo) \in Seq(Requests) /\ Len(Tail(job.todo)) = Len(job.todo) - 1 /\ Len(job.todo) \in Nat
    BY <2>1 DEF CountInv
  <2> QED
    BY <2>1, <2>2, <2>3, MaxReqAssumption DEF CountInv
<1>8. CASE MfsGoesOn
  <2>1. UNCHANGED <<job, vfs, served>>
    BY <1>8 DEF MfsGoesOn, MfsStep, Skip, Indirect, PutIndirect, WalkZone, ListBlock, MeasureDir, DirBlock, Descend,
                DirBlockDone, Ascend, ScanBit, ScanBlockEnds, ScanReports, Panics, vfsVars
  <2>2. mfs' \in {mfs, "down"} /\ EOF_reached' \in BOOLEAN
    BY <1>8 DEF MfsGoesOn, MfsStep, Skip, Indirect, PutIndirect, WalkZone, ListBlock, MeasureDir, DirBlock, Descend,
                DirBlockDone, Ascend, ScanBit, ScanBlockEnds, ScanReports, Panics, CountInv, listVars
  <2> QED
    BY <2>1, <2>2 DEF CountInv
<1>9. CASE Descriptors \/ ListDevices \/ SkipLine \/ EndOfList \/ UNCHANGED toolVars
  BY <1>1, <1>9 DEF Descriptors, Open, Close, ListDevices, SkipLine, EndOfList, toolVars, vars, vfsVars
<1> QED
  BY <1>2, <1>3, <1>4, <1>5, <1>6, <1>7, <1>8, <1>9 DEF ToolNext, Answer

-----------------------------------------------------------------------------
(* The types: descriptors.                                                 *)

FilesInv == /\ filp \in [Proc \X (1 .. OPEN_MAX) -> Inodes \cup {NoFile}]
            /\ job.ip \in Inodes \cup {0}
            /\ openers \in 0 .. Cardinality(DOMAIN filp)

LEMMA OpenedFinite ==
  ASSUME FilesInv, NEW i
  PROVE  Cardinality(Opened(i)) \in 0 .. Cardinality(DOMAIN filp)
<1>1. DOMAIN filp = Proc \X (1 .. OPEN_MAX)
  BY DEF FilesInv
<1>2. IsFiniteSet(Proc) /\ OPEN_MAX \in Nat
  BY TablesAssumption
<1>3. IsFiniteSet(1 .. OPEN_MAX)
  BY <1>2, FS_Interval
<1>4. IsFiniteSet(DOMAIN filp)
  BY <1>1, <1>2, <1>3, FS_Product
<1>5. Opened(i) \subseteq DOMAIN filp
  BY DEF Opened
<1>6. IsFiniteSet(Opened(i)) /\ Cardinality(Opened(i)) <= Cardinality(DOMAIN filp)
  BY <1>4, <1>5, FS_Subset
<1>7. Cardinality(Opened(i)) \in Nat /\ Cardinality(DOMAIN filp) \in Nat
  BY <1>4, <1>6, FS_CardinalityType
<1> QED
  BY <1>6, <1>7

LEMMA FilesKept == ASSUME FilesInv, UNCHANGED <<disk, filp, openers>>, job'.ip \in Inodes \cup {0}
                   PROVE  FilesInv'
BY DEF FilesInv, Inodes

LEMMA FilesFileinfo ==
  ASSUME disk \in Disks, FilesInv, NEW i \in disk.named, NEW mode, do_fileinfo(i, mode)
  PROVE  FilesInv'
<1>1. UNCHANGED <<disk, filp>> /\ job'.ip = i
  BY DEF do_fileinfo, mfsVars
<1>2. i \in Inodes /\ Inodes' = Inodes
  BY <1>1, SoundDisk DEF Inodes
<1>3. openers' \in 0 .. Cardinality(DOMAIN filp)
  <2>1. openers' \in {openers, Cardinality(Opened(i))}
    BY DEF do_fileinfo
  <2> QED
    BY <2>1, OpenedFinite DEF FilesInv
<1> QED
  BY <1>1, <1>2, <1>3 DEF FilesInv

LEMMA FilesFraginfo ==
  ASSUME disk \in Disks, FilesInv, NEW i \in disk.named, do_fraginfo(i)
  PROVE  FilesInv'
<1>1. UNCHANGED <<disk, filp, openers>> /\ job'.ip = i
  BY DEF do_fraginfo, mfsVars
<1>2. i \in Inodes
  BY SoundDisk DEF Inodes
<1> QED
  BY <1>1, <1>2, FilesKept

LEMMA FilesDescriptors == disk \in Disks /\ FilesInv /\ Descriptors => FilesInv'
<1> SUFFICES ASSUME disk \in Disks, FilesInv, NEW d \in DOMAIN filp,
                    Close(d) \/ \E i \in disk.named : Open(d, i)
             PROVE  FilesInv'
  BY DEF Descriptors
<1>1. PICK i \in Inodes \cup {NoFile} : filp' = [filp EXCEPT ![d] = i]
  BY SoundDisk DEF Close, Open, Inodes
<1>2. UNCHANGED <<disk, job, openers>>
  BY DEF Close, Open, mfsVars
<1>3. filp' \in [Proc \X (1 .. OPEN_MAX) -> Inodes \cup {NoFile}] /\ DOMAIN filp' = DOMAIN filp
  BY <1>1 DEF FilesInv
<1>4. Inodes' = Inodes
  BY <1>2 DEF Inodes
<1> QED
  BY <1>2, <1>3, <1>4 DEF FilesInv

LEMMA FilesStep == FsInv /\ FilesInv /\ [ToolNext]_toolVars => FilesInv'
<1> SUFFICES ASSUME FsInv, FilesInv, [ToolNext]_toolVars PROVE FilesInv'
  OBVIOUS
<1>0. disk \in Disks /\ job.ip \in Inodes \cup {0}
  BY DEF FsInv, FilesInv
<1>1. CASE UNCHANGED <<disk, filp, openers, job>>
  BY <1>0, <1>1, FilesKept
<1>2. CASE Call
  BY <1>0, <1>2, FilesFileinfo, FilesFraginfo DEF Call
<1>3. CASE fileinfo_tool \/ fraginfo_tool
  BY <1>0, <1>3, FilesFileinfo, FilesFraginfo DEF fileinfo_tool, fraginfo_tool
<1>4. CASE MeasureDevice
  <2>1. CASE Line = ThisDev
    BY <1>0, <1>4, <2>1, FilesFileinfo DEF MeasureDevice
  <2>2. CASE Line # ThisDev
    BY <1>1, <1>4, <2>2 DEF MeasureDevice, vars, vfsVars, mfsVars
  <2> QED
    BY <2>1, <2>2
<1>5. CASE Return
  <2>1. UNCHANGED <<disk, filp, openers>> /\ job'.ip = 0
    BY <1>5 DEF Return, mfsVars, NoJob
  <2> QED
    BY <2>1, FilesKept
<1>6. CASE Send
  <2>1. UNCHANGED <<disk, filp, openers>> /\ job' = [job EXCEPT !.todo = Tail(@)]
    BY <1>6 DEF Send, fs_get_inode_blocks, fs_get_int_frag, fs_getfrag
  <2>2. job'.ip = job.ip
    BY <2>1 DEF FsInv, JobOK
  <2> QED
    BY <1>0, <2>1, <2>2, FilesKept
<1>7. CASE MfsGoesOn
  <2>1. disk' = disk
    BY <1>7 DEF MfsGoesOn, MfsStep, Skip, Indirect, PutIndirect, WalkZone, ListBlock, MeasureDir, DirBlock, Descend,
                DirBlockDone, Ascend, ScanBit, ScanBlockEnds, ScanReports, Panics
  <2> QED
    BY <1>1, <1>7, <2>1 DEF MfsGoesOn, vfsVars
<1>8. CASE Descriptors
  BY <1>0, <1>8, FilesDescriptors
<1>9. CASE ListDevices \/ SkipLine \/ EndOfList \/ UNCHANGED toolVars
  BY <1>1, <1>9 DEF ListDevices, SkipLine, EndOfList, toolVars, vars, vfsVars, mfsVars
<1> QED
  BY <1>2, <1>3, <1>4, <1>5, <1>6, <1>7, <1>8, <1>9 DEF ToolNext, Answer

-----------------------------------------------------------------------------
(* The list of devices.                                                    *)

\* Of the lines read, every device but 2 was asked, in the order of asked and no other;
\* after a line of last_dev came only such lines and lines of device 2.
AskedOK == /\ \A k \in 1 .. frag.at : frag.list[k] # SkippedDev => frag.list[k] \in ToSet(frag.asked)
           /\ \A n \in DOMAIN frag.asked : /\ frag.asked[n] # SkippedDev
                                           /\ \E k \in 1 .. frag.at : frag.asked[n] = frag.list[k]
           /\ IsInjective(frag.asked)
LastOK == \/ frag.last_dev = NoDev /\ frag.asked = <<>>
          \/ \E m \in 1 .. frag.at : /\ frag.list[m] = frag.last_dev
                                     /\ \A k \in m .. frag.at : frag.list[k] \in {SkippedDev, frag.last_dev}
FragOK == /\ DOMAIN frag = {"pc", "list", "at", "last_dev", "asked"}
          /\ frag.pc \in {"idle", "reading", "calling"}
          /\ \/ frag.list \in DevLists
             \/ frag.pc = "idle" /\ frag.list = <<>>
          /\ frag.at \in 0 .. Len(frag.list) /\ Len(frag.list) \in Nat
          /\ frag.asked \in Seq(STRING)
FragInv == FragOK /\ AskedOK /\ LastOK

LEMMA Lines ==
  ASSUME FragInv, HasLine
  PROVE  /\ frag.list \in DevLists /\ frag.list \in Seq(STRING) /\ frag.at \in Nat
         /\ frag.at + 1 \in 1 .. Len(frag.list) /\ DOMAIN frag.list = 1 .. Len(frag.list)
         /\ Line \in STRING /\ Line # NoDev
         /\ \A k \in 1 .. frag.at + 1 : k \in 1 .. frag.at \/ frag.list[k] = Line
<1>1. frag.list \in DevLists /\ frag.at \in Nat /\ Len(frag.list) \in Nat /\ frag.at < Len(frag.list)
  BY DEF FragInv, FragOK, HasLine
<1>2. frag.list \in Seq(STRING) /\ NoDev \notin ToSet(frag.list)
  BY <1>1, DevListsAssumption
<1>3. frag.at + 1 \in 1 .. Len(frag.list) /\ DOMAIN frag.list = 1 .. Len(frag.list)
  BY <1>1, <1>2
<1>4. Line \in STRING /\ Line \in ToSet(frag.list)
  BY <1>2, <1>3 DEF Line, ToSet
<1>5. \A k \in 1 .. frag.at + 1 : k \in 1 .. frag.at \/ k = frag.at + 1
  BY <1>1
<1> QED
  BY <1>1, <1>2, <1>3, <1>4, <1>5 DEF Line

LEMMA FragKept == ASSUME FragInv, UNCHANGED frag PROVE FragInv'
BY DEF FragInv, FragOK, AskedOK, LastOK

LEMMA NoFragOK == ASSUME frag' = NoFrag PROVE FragInv'
<1>1. /\ DOMAIN frag' = {"pc", "list", "at", "last_dev", "asked"}
      /\ frag'.pc = "idle" /\ frag'.list = <<>> /\ frag'.at = 0 /\ frag'.last_dev = NoDev /\ frag'.asked = <<>>
  BY DEF NoFrag
<1>2. DOMAIN <<>> = {} /\ Len(<<>>) = 0 /\ <<>> \in Seq(STRING) /\ 1 .. 0 = {}
  OBVIOUS
<1> QED
  BY <1>1, <1>2 DEF FragInv, FragOK, AskedOK, LastOK, IsInjective

LEMMA FragLists == FragInv /\ ListDevices => FragInv'
<1> SUFFICES ASSUME FragInv, ListDevices PROVE FragInv'
  OBVIOUS
<1>1. PICK l \in DevLists : frag' = [NoFrag EXCEPT !.pc = "reading", !.list = l]
  BY DEF ListDevices
<1>2. /\ DOMAIN frag' = {"pc", "list", "at", "last_dev", "asked"}
      /\ frag'.pc = "reading" /\ frag'.list = l /\ frag'.at = 0 /\ frag'.last_dev = NoDev /\ frag'.asked = <<>>
  BY <1>1 DEF NoFrag
<1>3. l \in Seq(STRING)
  BY DevListsAssumption
<1>4. Len(l) \in Nat /\ 0 \in 0 .. Len(l)
  BY <1>3
<1>5. DOMAIN <<>> = {} /\ <<>> \in Seq(STRING) /\ 1 .. 0 = {}
  OBVIOUS
<1> QED
  BY <1>2, <1>4, <1>5 DEF FragInv, FragOK, AskedOK, LastOK, IsInjective

LEMMA FragSkips == FragInv /\ SkipLine => FragInv'
<1> SUFFICES ASSUME FragInv, SkipLine PROVE FragInv'
  OBVIOUS
<1>1. HasLine /\ Line \in {frag.last_dev, SkippedDev} /\ frag' = [frag EXCEPT !.at = @ + 1]
  BY DEF SkipLine
<1>2. /\ DOMAIN frag' = DOMAIN frag /\ frag'.at = frag.at + 1 /\ frag'.pc = frag.pc /\ frag'.list = frag.list
      /\ frag'.last_dev = frag.last_dev /\ frag'.asked = frag.asked
  BY <1>1 DEF FragInv, FragOK
<1>3. /\ frag.at \in Nat /\ frag.at + 1 \in 1 .. Len(frag.list) /\ Line # NoDev
      /\ \A k \in 1 .. frag.at + 1 : k \in 1 .. frag.at \/ frag.list[k] = Line
  BY <1>1, Lines
<1>4. FragOK'
  BY <1>2, <1>3 DEF FragInv, FragOK
<1>5. Line # SkippedDev => Line \in ToSet(frag.asked)
  <2> SUFFICES ASSUME Line # SkippedDev PROVE Line \in ToSet(frag.asked)
    OBVIOUS
  <2>1. Line = frag.last_dev
    BY <1>1
  <2>2. PICK m \in 1 .. frag.at : frag.list[m] = frag.last_dev
    BY <1>3, <2>1 DEF FragInv, LastOK
  <2> QED
    BY <2>1, <2>2 DEF FragInv, AskedOK
<1>6. \A k \in 1 .. frag.at : k \in 1 .. frag.at + 1
  BY <1>3
<1>7. AskedOK'
  BY <1>2, <1>3, <1>5, <1>6 DEF FragInv, AskedOK
<1>8. LastOK'
  <2>1. CASE frag.last_dev = NoDev /\ frag.asked = <<>>
    BY <1>2, <2>1 DEF LastOK
  <2>2. CASE ~(frag.last_dev = NoDev /\ frag.asked = <<>>)
    <3>1. PICK m \in 1 .. frag.at : /\ frag.list[m] = frag.last_dev
                                    /\ \A k \in m .. frag.at : frag.list[k] \in {SkippedDev, frag.last_dev}
      BY <2>2 DEF FragInv, LastOK
    <3>2. \A k \in m .. frag.at + 1 : k \in m .. frag.at \/ (k \in 1 .. frag.at + 1 /\ k \notin 1 .. frag.at)
      BY <1>3
    <3>3. \A k \in m .. frag.at + 1 : frag.list[k] \in {SkippedDev, frag.last_dev}
      BY <1>1, <1>3, <3>1, <3>2
    <3> QED
      BY <1>2, <1>6, <3>1, <3>3 DEF LastOK
  <2> QED
    BY <2>1, <2>2
<1> QED
  BY <1>4, <1>7, <1>8 DEF FragInv

\* sort has put together the lines of a device, so that a device that is not the last
\* one has not been asked.
LEMMA NotAsked ==
  ASSUME FragInv, HasLine, Line \notin {frag.last_dev, SkippedDev}
  PROVE  Line \notin ToSet(frag.asked)
<1> SUFFICES ASSUME NEW n \in DOMAIN frag.asked, frag.asked[n] = Line PROVE FALSE
  BY DEF ToSet
<1>1. PICK k \in 1 .. frag.at : Line = frag.list[k]
  BY DEF FragInv, AskedOK
<1>2. PICK m \in 1 .. frag.at : /\ frag.list[m] = frag.last_dev
                                /\ \A j \in m .. frag.at : frag.list[j] \in {SkippedDev, frag.last_dev}
  <2>1. frag.asked # <<>>
    <3>1. DOMAIN <<>> = {}
      OBVIOUS
    <3> QED
      BY <3>1
  <2> QED
    BY <2>1 DEF FragInv, LastOK
<1>3. /\ frag.list \in DevLists /\ frag.at \in Nat /\ frag.at + 1 \in 1 .. Len(frag.list)
      /\ DOMAIN frag.list = 1 .. Len(frag.list)
  BY Lines
<1>4. Sorted(frag.list)
  BY <1>3, DevListsAssumption
<1>5. CASE k <= m
  <2>1. k \in DOMAIN frag.list /\ frag.at + 1 \in DOMAIN frag.list /\ m \in k .. frag.at + 1
    BY <1>3, <1>5
  <2>2. frag.list[k] = frag.list[frag.at + 1] => frag.list[m] = frag.list[k]
    BY <1>4, <2>1 DEF Sorted
  <2> QED
    BY <1>1, <1>2, <2>2 DEF Line
<1>6. CASE k > m
  <2>1. k \in m .. frag.at
    BY <1>3, <1>6
  <2> QED
    BY <1>1, <1>2, <2>1
<1> QED
  BY <1>3, <1>5, <1>6

LEMMA FragMeasures == FragInv /\ MeasureDevice => FragInv'
<1> SUFFICES ASSUME FragInv, MeasureDevice PROVE FragInv'
  OBVIOUS
<1> DEFINE pc == IF Line = ThisDev THEN "calling" ELSE "reading"
           a == frag.asked
           b == Append(a, Line)
<1>1. /\ HasLine /\ Line \notin {frag.last_dev, SkippedDev}
      /\ frag' = [frag EXCEPT !.at = @ + 1, !.asked = Append(@, Line), !.last_dev = Line, !.pc = pc]
  BY DEF MeasureDevice
<1>2. /\ DOMAIN frag' = DOMAIN frag /\ frag'.at = frag.at + 1 /\ frag'.pc = pc /\ frag'.list = frag.list
      /\ frag'.last_dev = Line /\ frag'.asked = b
  BY <1>1 DEF FragInv, FragOK
<1>3. /\ frag.list \in DevLists /\ frag.at \in Nat /\ frag.at + 1 \in 1 .. Len(frag.list) /\ Line \in STRING
      /\ \A k \in 1 .. frag.at + 1 : k \in 1 .. frag.at \/ frag.list[k] = Line
  BY <1>1, Lines
<1>4. Line \notin ToSet(a)
  BY <1>1, NotAsked
<1>5. a \in Seq(STRING)
  BY DEF FragInv, FragOK
<1>6. /\ b \in Seq(STRING) /\ DOMAIN a = 1 .. Len(a) /\ Len(a) \in Nat /\ DOMAIN b = 1 .. Len(a) + 1
      /\ b[Len(a) + 1] = Line /\ \A n \in 1 .. Len(a) : b[n] = a[n]
  BY <1>3, <1>5
<1>7. FragOK'
  BY <1>2, <1>3, <1>6 DEF FragInv, FragOK
<1> HIDE DEF b
<1>8. ToSet(b) = ToSet(a) \cup {Line}
  <2>1. \A n \in 1 .. Len(a) + 1 : n \in 1 .. Len(a) \/ n = Len(a) + 1
    BY <1>6
  <2>2. Len(a) + 1 \in 1 .. Len(a) + 1 /\ \A n \in 1 .. Len(a) : n \in 1 .. Len(a) + 1
    BY <1>6
  <2> QED
    BY <1>6, <2>1, <2>2 DEF ToSet
<1>9. IsInjective(b)
  <2>1. IsInjective(a)
    BY DEF FragInv, AskedOK
  <2>2. ASSUME NEW p \in DOMAIN b, NEW q \in DOMAIN b, b[p] = b[q] PROVE p = q
    <3>1. (p \in DOMAIN a \/ p = Len(a) + 1) /\ (q \in DOMAIN a \/ q = Len(a) + 1)
      BY <1>6
    <3>2. CASE p \in DOMAIN a /\ q \in DOMAIN a
      BY <1>6, <2>1, <2>2, <3>2 DEF IsInjective
    <3>3. CASE p \in DOMAIN a /\ q = Len(a) + 1
      BY <1>4, <1>6, <2>2, <3>3 DEF ToSet
    <3>4. CASE p = Len(a) + 1 /\ q \in DOMAIN a
      BY <1>4, <1>6, <2>2, <3>4 DEF ToSet
    <3> QED
      BY <3>1, <3>2, <3>3, <3>4
  <2> QED
    BY <2>2 DEF IsInjective
<1>10. \A n \in DOMAIN b : b[n] # SkippedDev /\ \E k \in 1 .. frag.at + 1 : b[n] = frag.list[k]
  <2> TAKE n \in DOMAIN b
  <2>1. CASE n \in DOMAIN a
    <3>1. a[n] # SkippedDev /\ \E k \in 1 .. frag.at : a[n] = frag.list[k]
      BY <2>1 DEF FragInv, AskedOK
    <3>2. \A k \in 1 .. frag.at : k \in 1 .. frag.at + 1
      BY <1>3
    <3> QED
      BY <1>6, <2>1, <3>1, <3>2
  <2>2. CASE n = Len(a) + 1
    <3>1. frag.at + 1 \in 1 .. frag.at + 1 /\ Line = frag.list[frag.at + 1]
      BY <1>3 DEF Line
    <3> QED
      BY <1>1, <1>6, <2>2, <3>1
  <2> QED
    BY <1>6, <2>1, <2>2
<1>11. AskedOK'
  BY <1>2, <1>3, <1>8, <1>9, <1>10 DEF FragInv, AskedOK
<1>12. LastOK'
  <2>1. frag.at + 1 \in 1 .. frag.at + 1 /\ Line = frag.list[frag.at + 1]
        /\ \A k \in frag.at + 1 .. frag.at + 1 : k = frag.at + 1
    BY <1>3 DEF Line
  <2> QED
    BY <1>2, <2>1 DEF LastOK
<1> QED
  BY <1>7, <1>11, <1>12 DEF FragInv

LEMMA FragAnswer == FragInv /\ Answer => FragInv'
<1> SUFFICES ASSUME FragInv, Answer PROVE FragInv'
  OBVIOUS
<1>1. CASE frag.pc # "calling"
  BY <1>1, FragKept DEF Answer
<1>2. CASE frag.pc = "calling"
  <2>1. frag' = [frag EXCEPT !.pc = "reading"]
    BY <1>2 DEF Answer
  <2>2. /\ DOMAIN frag' = DOMAIN frag /\ frag'.at = frag.at /\ frag'.pc = "reading" /\ frag'.list = frag.list
        /\ frag'.last_dev = frag.last_dev /\ frag'.asked = frag.asked
    BY <2>1 DEF FragInv, FragOK
  <2> QED
    BY <1>2, <2>2 DEF FragInv, FragOK, AskedOK, LastOK
<1> QED
  BY <1>1, <1>2

LEMMA FragStep == FragInv /\ [ToolNext]_toolVars => FragInv'
<1> SUFFICES ASSUME FragInv, [ToolNext]_toolVars PROVE FragInv'
  OBVIOUS
<1>1. CASE UNCHANGED frag
  BY <1>1, FragKept
<1>2. CASE EndOfList
  BY <1>2, NoFragOK DEF EndOfList
<1> QED
  BY <1>1, <1>2, FragLists, FragSkips, FragMeasures, FragAnswer DEF ToolNext, toolVars, fileinfo_tool, fraginfo_tool

LEMMA FragMeasuredOnce ==
  ASSUME FragInv, [ToolNext]_toolVars, frag.pc = "reading", frag' = NoFrag
  PROVE  ToSet(frag.asked) = ToSet(frag.list) \ {SkippedDev} /\ IsInjective(frag.asked)
<1>1. frag'.pc = "idle" /\ frag'.at = 0
  BY DEF NoFrag
<1>2. frag.at \in Nat /\ DOMAIN frag = {"pc", "list", "at", "last_dev", "asked"} /\ frag.list \in DevLists
  BY DEF FragInv, FragOK
<1>3. ASSUME SkipLine \/ MeasureDevice PROVE FALSE
  <2>1. frag'.at = frag.at + 1
    BY <1>2, <1>3 DEF SkipLine, MeasureDevice
  <2> QED
    BY <1>1, <1>2, <2>1
<1>4. ASSUME frag' = frag PROVE FALSE
  BY <1>1, <1>4
<1>5. EndOfList
  BY <1>3, <1>4 DEF ToolNext, toolVars, fileinfo_tool, fraginfo_tool, ListDevices, Answer, NoFrag
<1>6. frag.at = Len(frag.list)
  BY <1>5 DEF EndOfList
<1>7. frag.list \in Seq(STRING)
  BY <1>2, DevListsAssumption
<1>8. DOMAIN frag.list = 1 .. frag.at
  BY <1>6, <1>7
<1> QED
  BY <1>8 DEF FragInv, AskedOK, ToSet

-----------------------------------------------------------------------------
(* The types, and the devices.                                             *)

TypeInv == RunsInv /\ LeftInv /\ StatOK(stat) /\ CountInv /\ FilesInv /\ FragInv

LEMMA TypeInit == ToolInit => TypeInv
<1> SUFFICES ASSUME ToolInit PROVE TypeInv
  OBVIOUS
<1>1. /\ disk \in Disks /\ stack = <<>> /\ EOF_reached = FALSE /\ stat = NoStat /\ mfs = "up" /\ served = 0
      /\ filp = [d \in Proc \X (1 .. OPEN_MAX) |-> NoFile]
      /\ job = NoJob /\ openers = 0 /\ vfs = "up" /\ frag = NoFrag
  BY DEF ToolInit, Init, MfsInit
<1>2. RunsInv
  BY RunsInit
<1>3. LeftInv /\ StatOK(stat)
  BY <1>1, NoStatOK DEF LeftInv
<1>4. CountInv
  <2>1. job.todo = <<>> /\ job.todo \in Seq(Requests) /\ Len(job.todo) = 0
    BY <1>1 DEF NoJob
  <2>2. MaxReq \in Nat
    BY MaxReqAssumption
  <2>3. served \in Nat /\ served + Len(job.todo) <= MaxReq
    BY <1>1, <2>1, <2>2
  <2> QED
    BY <1>1, <2>1, <2>3 DEF CountInv
<1>5. FilesInv
  <2>1. filp \in [Proc \X (1 .. OPEN_MAX) -> Inodes \cup {NoFile}] /\ job.ip = 0
    BY <1>1 DEF NoJob
  <2>2. DOMAIN filp = Proc \X (1 .. OPEN_MAX) /\ IsFiniteSet(Proc) /\ OPEN_MAX \in Nat
    BY <2>1, TablesAssumption
  <2>3. IsFiniteSet(DOMAIN filp)
    <3>1. IsFiniteSet(1 .. OPEN_MAX)
      BY <2>2, FS_Interval
    <3> QED
      BY <2>2, <3>1, FS_Product
  <2>4. Cardinality(DOMAIN filp) \in Nat
    BY <2>3, FS_CardinalityType
  <2> QED
    BY <1>1, <2>1, <2>4 DEF FilesInv
<1>6. FragInv
  <2>1. /\ DOMAIN frag = {"pc", "list", "at", "last_dev", "asked"}
        /\ frag.pc = "idle" /\ frag.list = <<>> /\ frag.at = 0 /\ frag.last_dev = NoDev /\ frag.asked = <<>>
    BY <1>1 DEF NoFrag
  <2>2. DOMAIN <<>> = {} /\ Len(<<>>) = 0 /\ <<>> \in Seq(STRING) /\ 1 .. 0 = {}
    OBVIOUS
  <2> QED
    BY <2>1, <2>2 DEF FragInv, FragOK, AskedOK, LastOK, IsInjective
<1> QED
  BY <1>2, <1>3, <1>4, <1>5, <1>6 DEF TypeInv

LEMMA Typed == FsInv /\ TypeInv => ToolTypeOK
<1> SUFFICES ASSUME FsInv, TypeInv PROVE ToolTypeOK
  OBVIOUS
<1>1. req \in Requests \cup {"idle"} /\ mfs \in {"up", "down"} /\ served \in 0 .. MaxReq
  <2>1. req \in {"blocks", "frag", "idle", "scan"}
    BY DEF FsInv, StackOK
  <2>2. Len(job.todo) \in Nat /\ served \in Nat /\ served + Len(job.todo) <= MaxReq /\ mfs \in {"up", "down"}
    BY DEF TypeInv, CountInv
  <2> QED
    BY <2>1, <2>2, MaxReqAssumption DEF Requests
<1>2. ASSUME NEW n \in DOMAIN stack
      PROVE  /\ stack[n].ip \in DOMAIN disk.inode /\ stack[n].left \in 0 .. Blocks(stack[n].ip)
             /\ \A t \in DOMAIN stack[n].todo : stack[n].todo[t].op \in Ops
  <2>1. stack[n] \in FrameOf(disk)
    <3>1. \A G : stack \in Seq(G) => stack[n] \in G
      OBVIOUS
    <3> QED
      BY <3>1 DEF FsInv, StackOK
  <2>2. stack[n].ip \in DOMAIN disk.inode /\ stack[n].todo \in Seq(Item)
    BY <2>1 DEF FrameOf
  <2>3. \A t \in DOMAIN stack[n].todo : stack[n].todo[t] \in Item
    <3>1. \A G : stack[n].todo \in Seq(G) => \A t \in DOMAIN stack[n].todo : stack[n].todo[t] \in G
      OBVIOUS
    <3> QED
      BY <2>2, <3>1
  <2>4. stack[n].left \in 0 .. Blocks(stack[n].ip)
    BY DEF TypeInv, LeftInv, LeftOK
  <2> QED
    BY <2>2, <2>3, <2>4 DEF Item
<1>3. held \in Seq(Nat) /\ visited \in Seq(Nat) /\ EOF_reached \in BOOLEAN
  BY DEF FsInv, HeldOK, TypeInv, RunsInv, RunOK, CountInv
<1>4. stat.min \in 0 .. BLOCK_SIZE /\ stat.max \in 0 .. BLOCK_SIZE - 1 /\ scan.off \in 0 .. BITS - 1
  BY DEF FsInv, ScanOK, TypeInv, StatOK
<1>5. MfsTypeOK
  BY <1>1, <1>2, <1>3, <1>4 DEF MfsTypeOK
<1>6. TypeOK
  <2>1. ToSet(job.todo) \subseteq Requests /\ vfs \in {"up", "undefined"}
    BY DEF TypeInv, CountInv, ToSet
  <2> QED
    BY <1>5, <2>1 DEF TypeOK, TypeInv, FilesInv
<1>7. frag.last_dev \in ToSet(frag.list) \cup {NoDev}
  <2>1. CASE frag.last_dev = NoDev
    BY <2>1
  <2>2. CASE frag.last_dev # NoDev
    <3>1. PICK m \in 1 .. frag.at : frag.list[m] = frag.last_dev
      BY <2>2 DEF TypeInv, FragInv, LastOK
    <3>2. m \in 1 .. Len(frag.list)
      BY DEF TypeInv, FragInv, FragOK
    <3>3. frag.list \in Seq(STRING)
      <4>1. <<>> \in Seq(STRING)
        OBVIOUS
      <4> QED
        BY <4>1, DevListsAssumption DEF TypeInv, FragInv, FragOK
    <3>4. m \in DOMAIN frag.list
      BY <3>2, <3>3
    <3> QED
      BY <3>1, <3>4 DEF ToSet
  <2> QED
    BY <2>1, <2>2
<1> QED
  BY <1>6, <1>7 DEF ToolTypeOK, TypeInv, FragInv, FragOK

LEMMA TypeStep == FsInv /\ TypeInv /\ [ToolNext]_toolVars => TypeInv'
BY RunsStep, LeftStep, StatStep, CountStep, FilesStep, FragStep DEF TypeInv

(* The types of MFS, VFS and fraginfo, whatever the disks, the tables and  *)
(* the calls.  What makes them hold is the count of the blocks of an inode *)
(* that are still to come: a block of a directory lowers it only when its  *)
(* entries are done, and it is above zero until then (LeftInv).            *)
THEOREM ToolIsTyped == ToolSpec => []ToolTypeOK
<1>1. ToolInit => FsInv /\ TypeInv
  BY FsInit, TypeInit
<1>2. (FsInv /\ TypeInv) /\ [ToolNext]_toolVars => (FsInv /\ TypeInv)'
  BY FsStep, TypeStep
<1>3. FsInv /\ TypeInv => ToolTypeOK
  BY Typed
<1> QED
  BY <1>1, <1>2, <1>3, PTL DEF ToolSpec

(* fraginfo without a name asks for every device of any sorted list but 2  *)
(* and for none twice, whatever calls come in between (fraginfo.c).        *)
THEOREM DevicesAreMeasuredOnce == ToolSpec => DevicesMeasuredOnce
<1>1. ToolInit => TypeInv
  BY TypeInit
<1>2. ToolInit => FsInv
  BY FsInit
<1>3. (FsInv /\ TypeInv) /\ [ToolNext]_toolVars => (FsInv /\ TypeInv)'
  BY FsStep, TypeStep
<1>4. TypeInv /\ [ToolNext]_toolVars =>
        [frag.pc = "reading" /\ frag' = NoFrag =>
           /\ ToSet(frag.asked) = ToSet(frag.list) \ {SkippedDev}
           /\ IsInjective(frag.asked)]_toolVars
  BY FragMeasuredOnce DEF TypeInv
<1> QED
  BY <1>1, <1>2, <1>3, <1>4, PTL DEF ToolSpec, DevicesMeasuredOnce
-----------------------------------------------------------------------------
(* The scan of the bitmap measures every allocated inode.                  *)

Allocated == disk.imap \ {0}
Fragmented == [i \in Allocated |-> FragInInode(i)]
Before(n) == {i \in Allocated : i < n}

\* t is the sum over the inodes before n, and m the greatest of them and 0.
MeasuredTo(n, t, m) == /\ \A f : Sums(f, Fragmented, Allocated) => t = f[Before(n)]
                       /\ m \in {0} \cup {FragInInode(i) : i \in Before(n)}
                       /\ \A i \in Before(n) : FragInInode(i) <= m

ScanInv == req = "scan" => /\ scan.scanned = BitNumber
                           /\ MeasuredTo(scan.scanned, scan.total, scan.max)

LEMMA AllocatedInodes ==
  ASSUME disk \in Disks
  PROVE  /\ Allocated \subseteq DOMAIN disk.inode /\ Allocated \subseteq Nat /\ IsFiniteSet(Allocated)
         /\ \A i \in Allocated : i # 0 /\ i < map_bits
         /\ \A i \in Allocated : FragInInode(i) \in Nat
         /\ Fragmented \in [Allocated -> Nat]
<1>1. disk.ninodes \in Nat
  BY SoundDisk
<1>2. Allocated \subseteq DOMAIN disk.inode /\ Allocated \subseteq 1 .. disk.ninodes
  BY DisksAssumption DEF DiskSound, Allocated
<1>3. IsFiniteSet(Allocated)
  <2>1. IsFiniteSet(1 .. disk.ninodes)
    BY <1>1, FS_Interval
  <2> QED
    BY <1>2, <2>1, FS_Subset
<1>4. \A i \in Allocated : i \in Nat /\ i # 0 /\ i < map_bits
  BY <1>1, <1>2 DEF map_bits
<1>5. ASSUME NEW i \in Allocated PROVE FragInInode(i) \in Nat
  <2>1. Blocks(i) \in Int /\ blocksPerZone \in Nat \ {0}
    BY <1>2, Blocks2, Powers
  <2> DEFINE b == Blocks(i)
             z == blocksPerZone
  <2>2. FragInInode(i) = IF b % z = 0 THEN 0 ELSE z - (b % z)
    BY DEF FragInInode
  <2> HIDE DEF b, z
  <2>3. b \in Int /\ z \in Nat \ {0}
    BY <2>1 DEF b, z
  <2>4. b % z \in 0 .. z - 1
    BY <2>3
  <2> QED
    BY <2>2, <2>3, <2>4
<1> QED
  BY <1>2, <1>3, <1>4, <1>5 DEF Fragmented

LEMMA NothingMeasured ==
  ASSUME disk \in Disks
  PROVE  MeasuredTo(0, 0, 0)
<1>1. Before(0) = {}
  BY AllocatedInodes DEF Before
<1>2. ASSUME NEW f, Sums(f, Fragmented, Allocated) PROVE f[{}] = 0
  BY <1>2, AllocatedInodes, SumAdds
<1>3. ASSUME NEW f, Sums(f, Fragmented, Allocated) PROVE f[Before(0)] = 0
  <2>1. f[Before(0)] = f[{}]
    BY <1>1
  <2> QED
    BY <1>2, <1>3, <2>1
<1> QED
  BY <1>1, <1>3 DEF MeasuredTo

LEMMA NextMeasured ==
  ASSUME disk \in Disks, NEW n \in Nat, NEW t, NEW m, MeasuredTo(n, t, m),
         NEW v, v = IF n \in Allocated THEN FragInInode(n) ELSE 0
  PROVE  MeasuredTo(n + 1, t + v, Greater(v, m))
<1>1. Allocated \subseteq Nat /\ IsFiniteSet(Allocated) /\ Fragmented \in [Allocated -> Nat]
      /\ \A i \in Allocated : FragInInode(i) \in Nat
  BY AllocatedInodes
<1>2. PICK g \in [SUBSET Allocated -> Nat] : Sums(g, Fragmented, Allocated)
  BY <1>1, SumExists
<1>3. Before(n) \in SUBSET Allocated /\ Before(n) \subseteq Allocated
  BY DEF Before
<1>4. t \in Nat
  <2>1. t = g[Before(n)]
    BY <1>2 DEF MeasuredTo
  <2> HIDE DEF Before
  <2>2. g[Before(n)] \in Nat
    BY <1>2, <1>3
  <2> QED
    BY <2>1, <2>2
<1>5. m \in Nat /\ v \in Nat
  <2>1. v \in Nat
    BY <1>1
  <2>2. m \in {0} \cup {FragInInode(i) : i \in Before(n)}
    BY DEF MeasuredTo
  <2>3. CASE m # 0
    <3>1. PICK i \in Before(n) : m = FragInInode(i)
      BY <2>2, <2>3
    <3> QED
      BY <1>1, <1>3, <2>1, <3>1
  <2> QED
    BY <2>1, <2>3
<1>6. CASE n \in Allocated
  <2>1. Before(n + 1) = Before(n) \cup {n} /\ n \notin Before(n)
    <3>1. \A i \in Allocated : i < n + 1 <=> i < n \/ i = n
      BY <1>1
    <3>2. ~ (n < n)
      OBVIOUS
    <3> QED
      BY <1>6, <3>1, <3>2 DEF Before
  <2>2. v = FragInInode(n) /\ Fragmented[n] = v
    BY <1>6 DEF Fragmented
  <2>3. ASSUME NEW f, Sums(f, Fragmented, Allocated) PROVE t + v = f[Before(n + 1)]
    <3>1. \A T \in SUBSET Allocated, x \in Allocated : x \notin T => f[T \cup {x}] = f[T] + Fragmented[x]
      <4> DEFINE S == Allocated
                 h == Fragmented
      <4>1. IsFiniteSet(S) /\ h \in [S -> Nat] /\ Sums(f, h, S)
        BY <1>1, <2>3
      <4> HIDE DEF S, h
      <4>2. \A T \in SUBSET S, x \in S : x \notin T => f[T \cup {x}] = f[T] + h[x]
        BY <4>1, SumAdds
      <4> QED
        BY <4>2 DEF S, h
    <3>2. f[Before(n) \cup {n}] = f[Before(n)] + Fragmented[n]
      BY <1>3, <1>6, <2>1, <3>1
    <3>3. f[Before(n + 1)] = f[Before(n) \cup {n}]
      BY <2>1
    <3>4. t = f[Before(n)]
      BY <2>3 DEF MeasuredTo
    <3> QED
      BY <2>2, <3>2, <3>3, <3>4
  <2>4. Greater(v, m) \in {0} \cup {FragInInode(i) : i \in Before(n + 1)}
    BY <2>1, <2>2 DEF MeasuredTo, Greater
  <2>5. ASSUME NEW i \in Before(n + 1) PROVE FragInInode(i) <= Greater(v, m)
    <3>1. CASE i = n
      BY <1>5, <2>2, <3>1 DEF Greater
    <3>2. CASE i \in Before(n)
      <4>1. FragInInode(i) <= m /\ FragInInode(i) \in Nat
        BY <1>1, <1>3, <3>2 DEF MeasuredTo
      <4> QED
        BY <1>5, <4>1 DEF Greater
    <3> QED
      BY <2>1, <3>1, <3>2
  <2> QED
    <3> HIDE DEF Before
    <3> QED
      BY <2>3, <2>4, <2>5 DEF MeasuredTo
<1>7. CASE n \notin Allocated
  <2>1. Before(n + 1) = Before(n)
    <3>1. \A i \in Allocated : i < n + 1 <=> i < n
      BY <1>1, <1>7
    <3> QED
      BY <3>1 DEF Before
  <2>2. v = 0 /\ t + v = t /\ Greater(v, m) = m
    BY <1>4, <1>5, <1>7 DEF Greater
  <2> QED
    BY <2>1, <2>2 DEF MeasuredTo
<1> QED
  BY <1>6, <1>7

\* What ScanMeasuresAll calls unused.
Unused(i) == (((Blocks(i) + blocksPerZone - 1) \div blocksPerZone) * blocksPerZone) - Blocks(i)

LEMMA UnusedIsFragmented ==
  ASSUME disk \in Disks, NEW i \in Allocated
  PROVE  FragInInode(i) = Unused(i)
<1>1. Blocks(i) \in Int /\ blocksPerZone \in Nat \ {0}
  BY AllocatedInodes, Blocks2, Powers
<1> DEFINE b == Blocks(i)
           z == blocksPerZone
           q == b \div z
           r == b % z
           u == (b + z - 1) \div z
           s == (b + z - 1) % z
<1>2. FragInInode(i) = (IF r = 0 THEN 0 ELSE z - r) /\ Unused(i) = u * z - b
  BY DEF FragInInode, Unused
<1> HIDE DEF b, z
<1>3. b \in Int /\ z \in Nat \ {0} /\ b + z - 1 \in Int
  BY <1>1 DEF b, z
<1>4. q \in Int /\ r \in 0 .. z - 1 /\ b = z * q + r
  BY <1>3
<1>5. u \in Int /\ s \in 0 .. z - 1 /\ b + z - 1 = z * u + s
  BY <1>3
<1> HIDE DEF q, r, u, s
<1>6. z * (u - q) = r + z - 1 - s /\ u * z = z * u
  BY <1>3, <1>4, <1>5
<1> DEFINE d == u - q
<1>7. d \in Int /\ z * d = r + z - 1 - s /\ u = q + d
  BY <1>4, <1>5, <1>6
<1>8. z * u = z * q + z * d
  BY <1>3, <1>4, <1>7
<1> HIDE DEF d
<1>9. d > -1
  <2>1. d <= -1 => z * d <= -z
    BY <1>3, <1>7
  <2> QED
    BY <1>3, <1>4, <1>5, <1>7, <2>1
<1>10. d < 2
  <2>1. d >= 2 => z * d >= 2 * z
    BY <1>3, <1>7
  <2> QED
    BY <1>3, <1>4, <1>5, <1>7, <2>1
<1>11. d = 0 \/ d = 1
  BY <1>7, <1>9, <1>10
<1>12. CASE d = 0
  <2>1. z * d = 0
    BY <1>3, <1>12
  <2>2. r = 0
    BY <1>3, <1>4, <1>5, <1>7, <2>1
  <2> DEFINE y == z * q
  <2>3. y \in Int
    BY <1>3, <1>4
  <2>4. u * z = y + 0 /\ b = y + 0
    BY <1>4, <1>6, <1>8, <2>1, <2>2
  <2> HIDE DEF y
  <2>5. u * z - b = 0
    BY <2>3, <2>4
  <2> QED
    BY <1>2, <2>2, <2>5
<1>13. CASE d = 1
  <2>1. z * d = z
    BY <1>3, <1>13
  <2>2. r # 0
    BY <1>3, <1>4, <1>5, <1>7, <2>1
  <2> QED
    BY <1>2, <1>3, <1>4, <1>5, <1>6, <1>8, <2>1, <2>2
<1> QED
  BY <1>11, <1>12, <1>13

LEMMA SumOfUnused ==
  ASSUME disk \in Disks
  PROVE  \E f : Sums(f, Fragmented, Allocated) /\ MapThenSumSet(Unused, Allocated) = f[Allocated]
<1> DEFINE S == Allocated
           c == CHOOSE f : f = [T \in SUBSET S |-> IF T = {} THEN 0
                                  ELSE LET x == CHOOSE x \in T : TRUE IN Unused(x) + f[T \ {x}]]
<1>1. MapThenSumSet(Unused, Allocated) = c[S]
  BY DEF MapThenSumSet, MapThenFoldSet
<1>2. IsFiniteSet(S) /\ Fragmented \in [S -> Nat]
  BY AllocatedInodes
<1>3. \A x \in S : Fragmented[x] = Unused(x)
  BY UnusedIsFragmented DEF Fragmented
<1> HIDE DEF S
<1>4. c = [T \in SUBSET S |-> IF T = {} THEN 0
                              ELSE LET x == CHOOSE x \in T : TRUE IN Unused(x) + c[T \ {x}]]
  <2>1. PICK f \in [SUBSET S -> Nat] : Sums(f, Fragmented, S)
    BY <1>2, SumExists
  <2>2. ASSUME NEW T \in SUBSET S
        PROVE  f[T] = IF T = {} THEN 0 ELSE LET x == CHOOSE x \in T : TRUE IN Unused(x) + f[T \ {x}]
    <3>1. f[T] = IF T = {} THEN 0 ELSE LET x == CHOOSE x \in T : TRUE IN Fragmented[x] + f[T \ {x}]
      BY <2>1 DEF Sums
    <3>2. T # {} => (CHOOSE x \in T : TRUE) \in S
      OBVIOUS
    <3> QED
      BY <1>3, <3>1, <3>2
  <2>3. f = [T \in SUBSET S |-> IF T = {} THEN 0
                                ELSE LET x == CHOOSE x \in T : TRUE IN Unused(x) + f[T \ {x}]]
    BY <2>1, <2>2
  <2> QED
    BY <2>3
<1> HIDE DEF c
<1>5. ASSUME NEW T \in SUBSET S
      PROVE  c[T] = IF T = {} THEN 0 ELSE LET x == CHOOSE x \in T : TRUE IN Fragmented[x] + c[T \ {x}]
  <2>1. c[T] = IF T = {} THEN 0 ELSE LET x == CHOOSE x \in T : TRUE IN Unused(x) + c[T \ {x}]
    BY <1>4
  <2>2. T # {} => (CHOOSE x \in T : TRUE) \in S
    OBVIOUS
  <2> QED
    BY <1>3, <2>1, <2>2
<1>6. Sums(c, Fragmented, S)
  BY <1>5 DEF Sums
<1> QED
  BY <1>1, <1>6 DEF S

LEMMA AllMeasured ==
  ASSUME disk \in Disks, NEW n \in Nat, n >= map_bits, NEW t, NEW m, MeasuredTo(n, t, m)
  PROVE  /\ t = MapThenSumSet(Unused, Allocated)
         /\ m = Max({0} \cup {Unused(i) : i \in Allocated})
<1>1. map_bits \in Nat /\ Allocated \subseteq Nat
  BY AllocatedInodes, Bitmap
<1>2. Before(n) = Allocated
  <2>1. \A i \in Allocated : i \in Nat /\ i < map_bits
    BY AllocatedInodes
  <2>2. \A i \in Allocated : i < n
    BY <1>1, <2>1
  <2> QED
    BY <2>2 DEF Before
<1>3. t = MapThenSumSet(Unused, Allocated)
  BY <1>2, SumOfUnused DEF MeasuredTo
<1> DEFINE T == {0} \cup {Unused(i) : i \in Allocated}
<1>4. \A i \in Allocated : Unused(i) = FragInInode(i) /\ Unused(i) \in Nat
  BY AllocatedInodes, UnusedIsFragmented
<1>5. m \in T /\ T \subseteq Nat /\ \A i \in Allocated : Unused(i) <= m
  BY <1>2, <1>4 DEF MeasuredTo
<1>6. m \in Nat /\ T # {} /\ \A y \in T : y <= m
  BY <1>5
<1> HIDE DEF T
<1>7. Max(T) \in T /\ \A y \in T : Max(T) >= y
  BY <1>5, <1>6, MaxIsGreatest
<1>8. m = Max(T)
  <2>1. Max(T) <= m /\ Max(T) >= m /\ Max(T) \in Nat
    BY <1>5, <1>6, <1>7
  <2> HIDE DEF T
  <2> QED
    BY <1>6, <2>1
<1> QED
  BY <1>3, <1>8 DEF T

\* The bitmap's blocks hold all of its bits.
LEMMA BlocksHoldTheMap ==
  ASSUME disk \in Disks, NEW k \in Nat, k >= bit_blocks
  PROVE  k * BITS >= map_bits
<1>1. \A m \in Nat, b \in Nat \ {0} : \A j \in Nat : j >= (m + b - 1) \div b => j * b >= m
  <2> TAKE m \in Nat, b \in Nat \ {0}
  <2> TAKE j \in Nat
  <2> HAVE j >= (m + b - 1) \div b
  <2> DEFINE q == (m + b - 1) \div b
             r == (m + b - 1) % b
  <2>1. q \in Int /\ r \in 0 .. b - 1 /\ m + b - 1 = b * q + r
    OBVIOUS
  <2>2. j >= q
    OBVIOUS
  <2> HIDE DEF q, r
  <2> DEFINE d == j - q
  <2>3. d \in Nat /\ j = q + d
    BY <2>1, <2>2
  <2> HIDE DEF d
  <2>4. j * b = b * q + b * d /\ b * d \in Nat /\ b * q \in Int
    BY <2>1, <2>3
  <2> QED
    BY <2>1, <2>4
<1> QED
  BY <1>1, Bitmap, Sizes DEF bit_blocks

\* One bit: what the scan has measured, and how far it is.
LEMMA OneBit ==
  ASSUME disk \in Disks, ScanOK, scan.scanned = BitNumber, MeasuredTo(scan.scanned, scan.total, scan.max)
  PROVE  /\ BitNumber \in Nat /\ Scanned.scanned = BitNumber + 1
         /\ MeasuredTo(BitNumber + 1, Scanned.total, Scanned.max)
<1> DEFINE n == BitNumber
           v == IF BitNumber \in disk.imap /\ scan.scanned # 0 THEN FragInInode(scan.scanned) ELSE 0
<1>1. n \in Nat
  BY Sizes DEF ScanOK, BitNumber
<1>2. Scanned.scanned = n + 1 /\ Scanned.total = scan.total + v /\ Scanned.max = Greater(v, scan.max)
  BY DEF Scanned, ScanOK
<1>3. v = IF n \in Allocated THEN FragInInode(n) ELSE 0
  BY DEF Allocated
<1>4. MeasuredTo(n, scan.total, scan.max)
  OBVIOUS
<1> HIDE DEF n, v
<1>5. MeasuredTo(n + 1, scan.total + v, Greater(v, scan.max))
  BY <1>1, <1>3, <1>4, NextMeasured
<1> QED
  BY <1>1, <1>2, <1>5 DEF n

\* What is measured depends on the disk only.
LEMMA SameMeasures ==
  ASSUME disk' = disk, NEW n, NEW t, NEW m, MeasuredTo(n, t, m),
         scan'.scanned = n, scan'.total = t, scan'.max = m
  PROVE  MeasuredTo(scan.scanned, scan.total, scan.max)'
<1>1. \A i : FragInInode(i)' = FragInInode(i)
  BY DEF FragInInode, Blocks, Size, blocksPerZone, Scale
<1>2. Allocated' = Allocated
  BY DEF Allocated
<1>3. Fragmented' = Fragmented
  BY <1>1, <1>2 DEF Fragmented
<1>4. \A k : Before(k)' = Before(k)
  BY <1>2 DEF Before
<1>5. Before(scan.scanned)' = Before(n)
  BY <1>2 DEF Before
<1> QED
  BY <1>1, <1>2, <1>3, <1>5 DEF MeasuredTo

LEMMA ScanStarts == FsInv /\ Send => ScanInv'
<1> SUFFICES ASSUME FsInv, Send, req' = "scan"
             PROVE  (scan.scanned = BitNumber)' /\ MeasuredTo(scan.scanned, scan.total, scan.max)'
  BY DEF ScanInv
<1>1. disk \in Disks /\ disk' = disk /\ scan' = NoScan
  BY DEF FsInv, Send, fs_getfrag, fs_get_inode_blocks, fs_get_int_frag
<1>2. scan'.scanned = 0 /\ scan'.total = 0 /\ scan'.max = 0 /\ scan'.block = 0 /\ scan'.off = 0
  BY <1>1 DEF NoScan
<1>3. BitNumber' = 0
  BY <1>2, Sizes DEF BitNumber
<1>4. MeasuredTo(0, 0, 0)
  BY <1>1, NothingMeasured
<1> QED
  BY <1>1, <1>2, <1>3, <1>4, SameMeasures

LEMMA ScanGoesOn == FsInv /\ ScanInv /\ ScanBit => ScanInv'
<1> SUFFICES ASSUME FsInv, ScanInv, ScanBit
             PROVE  (scan.scanned = BitNumber)' /\ MeasuredTo(scan.scanned, scan.total, scan.max)'
  BY DEF ScanInv
<1>1. disk \in Disks /\ ScanOK /\ disk' = disk /\ req = "scan" /\ scan' = [Scanned EXCEPT !.off = @ + 1]
  BY DEF FsInv, ScanBit
<1>2. DOMAIN Scanned = DOMAIN scan /\ Scanned.block = scan.block /\ Scanned.off = scan.off
  BY <1>1, ScanFields
<1>3. BitNumber \in Nat /\ Scanned.scanned = BitNumber + 1 /\ MeasuredTo(BitNumber + 1, Scanned.total, Scanned.max)
  BY <1>1, OneBit DEF ScanInv
<1> DEFINE v == Scanned
<1> HIDE DEF v
<1>4. scan'.block = scan.block /\ scan'.off = scan.off + 1 /\ scan'.scanned = v.scanned
      /\ scan'.total = v.total /\ scan'.max = v.max
  <2>1. scan' = [v EXCEPT !.off = @ + 1] /\ DOMAIN v = DOMAIN scan /\ v.block = scan.block /\ v.off = scan.off
    BY <1>1, <1>2 DEF v
  <2> QED
    BY <1>1, <2>1 DEF ScanOK
<1>5. BitNumber' = BitNumber + 1
  BY <1>1, <1>4, Sizes DEF BitNumber, ScanOK
<1> QED
  BY <1>1, <1>3, <1>4, <1>5, SameMeasures DEF v

LEMMA ScanBlocksGoOn ==
  FsInv /\ ScanInv /\ ScanBlockEnds =>
    ScanInv' /\ (req' = "idle" => scan'.total = MapThenSumSet(Unused, Allocated)
                                  /\ scan'.max = Max({0} \cup {Unused(i) : i \in Allocated}))
<1> SUFFICES ASSUME FsInv, ScanInv, ScanBlockEnds
             PROVE  /\ (scan.scanned = BitNumber)' /\ MeasuredTo(scan.scanned, scan.total, scan.max)'
                    /\ req' = "idle" => scan'.total = MapThenSumSet(Unused, Allocated)
                                        /\ scan'.max = Max({0} \cup {Unused(i) : i \in Allocated})
  BY DEF ScanInv
<1>1. /\ disk \in Disks /\ ScanOK /\ disk' = disk /\ req = "scan" /\ scan.off = BITS - 1
      /\ scan' = [Scanned EXCEPT !.off = 0, !.block = @ + 1]
      /\ req' = "idle" => ~(scan.block + 1 < bit_blocks)
  BY DEF FsInv, ScanBlockEnds
<1>2. DOMAIN Scanned = DOMAIN scan /\ Scanned.block = scan.block /\ Scanned.off = scan.off
  BY <1>1, ScanFields
<1>3. BitNumber \in Nat /\ Scanned.scanned = BitNumber + 1 /\ MeasuredTo(BitNumber + 1, Scanned.total, Scanned.max)
  BY <1>1, OneBit DEF ScanInv
<1> DEFINE v == Scanned
<1> HIDE DEF v
<1>4. scan'.block = scan.block + 1 /\ scan'.off = 0 /\ scan'.scanned = v.scanned
      /\ scan'.total = v.total /\ scan'.max = v.max
  <2>1. /\ scan' = [v EXCEPT !.off = 0, !.block = @ + 1] /\ DOMAIN v = DOMAIN scan
        /\ v.block = scan.block /\ v.off = scan.off
    BY <1>1, <1>2 DEF v
  <2> QED
    BY <1>1, <2>1 DEF ScanOK
<1>5. scan.block \in Nat /\ BITS \in Nat \ {0}
  BY <1>1, Sizes DEF ScanOK
<1>6. (scan.block + 1) * BITS = scan.block * BITS + BITS
  BY <1>5
<1>7. BitNumber' = (scan.block + 1) * BITS /\ (scan.block + 1) * BITS = BitNumber + 1
  BY <1>1, <1>4, <1>5, <1>6 DEF BitNumber
<1>8. (scan.scanned = BitNumber)' /\ MeasuredTo(scan.scanned, scan.total, scan.max)'
  BY <1>1, <1>3, <1>4, <1>7, SameMeasures DEF v
<1>9. ASSUME req' = "idle"
      PROVE  /\ scan'.total = MapThenSumSet(Unused, Allocated)
             /\ scan'.max = Max({0} \cup {Unused(i) : i \in Allocated})
  <2> DEFINE k == scan.block + 1
             n == BitNumber + 1
  <2>1. k \in Nat /\ k >= bit_blocks /\ n \in Nat /\ n = k * BITS
    BY <1>1, <1>3, <1>5, <1>7, <1>9, Bitmap
  <2>2. MeasuredTo(n, scan'.total, scan'.max)
    BY <1>3, <1>4 DEF v
  <2> HIDE DEF k, n
  <2>3. n >= map_bits
    BY <1>1, <2>1, BlocksHoldTheMap
  <2> QED
    BY <1>1, <2>1, <2>2, <2>3, AllMeasured
<1> QED
  BY <1>8, <1>9

LEMMA ScanEnds ==
  FsInv /\ ScanInv /\ ScanReports =>
    ScanInv' /\ scan'.total = MapThenSumSet(Unused, Allocated)
             /\ scan'.max = Max({0} \cup {Unused(i) : i \in Allocated})
<1> SUFFICES ASSUME FsInv, ScanInv, ScanReports
             PROVE  ScanInv' /\ scan'.total = MapThenSumSet(Unused, Allocated)
                             /\ scan'.max = Max({0} \cup {Unused(i) : i \in Allocated})
  OBVIOUS
<1>1. disk \in Disks /\ ScanOK /\ req = "scan" /\ req' = "idle" /\ scan' = scan /\ BitNumber >= map_bits
  BY DEF FsInv, ScanReports
<1>2. MeasuredTo(BitNumber, scan.total, scan.max)
  BY <1>1 DEF ScanInv
<1>3. BitNumber \in Nat
  BY <1>1, Sizes DEF ScanOK, BitNumber
<1>4. ScanInv'
  BY <1>1 DEF ScanInv
<1> QED
  BY <1>1, <1>2, <1>3, <1>4, AllMeasured

LEMMA ScanStep ==
  FsInv /\ ScanInv /\ [ToolNext]_toolVars =>
    ScanInv' /\ (req = "scan" /\ req' = "idle" => scan'.total = MapThenSumSet(Unused, Allocated)
                                                  /\ scan'.max = Max({0} \cup {Unused(i) : i \in Allocated}))
<1> SUFFICES ASSUME FsInv, ScanInv, [ToolNext]_toolVars
             PROVE  ScanInv' /\ (req = "scan" /\ req' = "idle" =>
                                   scan'.total = MapThenSumSet(Unused, Allocated)
                                   /\ scan'.max = Max({0} \cup {Unused(i) : i \in Allocated}))
  OBVIOUS
<1>1. ASSUME UNCHANGED <<disk, req, scan>> PROVE ScanInv' /\ req' = req
  <2>1. BitNumber' = BitNumber
    BY <1>1 DEF BitNumber
  <2> SUFFICES ASSUME req' = "scan" PROVE ScanInv'
    BY <1>1 DEF ScanInv
  <2>2. scan.scanned = BitNumber /\ MeasuredTo(scan.scanned, scan.total, scan.max)
    BY <1>1 DEF ScanInv
  <2>3. MeasuredTo(scan.scanned, scan.total, scan.max)'
    BY <1>1, <2>2, SameMeasures
  <2> QED
    BY <1>1, <2>1, <2>2, <2>3 DEF ScanInv
<1>2. CASE UNCHANGED mfsVars
  BY <1>1, <1>2 DEF mfsVars
<1>3. CASE Send
  BY <1>3, ScanStarts DEF Send
<1>4. CASE ScanBit
  BY <1>4, ScanGoesOn DEF ScanBit
<1>5. CASE ScanBlockEnds
  BY <1>5, ScanBlocksGoOn
<1>6. CASE ScanReports
  BY <1>6, ScanEnds
<1>7. CASE Skip \/ PutIndirect \/ WalkZone \/ Indirect \/ ListBlock \/ MeasureDir \/ DirBlock \/ Descend \/ DirBlockDone
  <2>1. UNCHANGED <<disk, req, scan>>
    BY <1>7 DEF Skip, PutIndirect, WalkZone, Indirect, ListBlock, MeasureDir, DirBlock, Descend, DirBlockDone, Panics
  <2> QED
    BY <1>1, <2>1
<1>8. CASE Ascend
  <2>1. req # "scan"
    BY <1>8 DEF FsInv, StackOK, Ascend
  <2>2. req' \in {req, "idle"}
    BY <1>8 DEF Ascend
  <2> QED
    BY <2>1, <2>2 DEF ScanInv
<1>9. CASE MfsGoesOn
  BY <1>4, <1>5, <1>6, <1>7, <1>8, <1>9 DEF MfsGoesOn, MfsStep
<1> QED
  BY <1>2, <1>3, <1>9, MfsMoves

(* However the scan of the bitmap ends, on any sound disk and whatever the *)
(* sizes of blocks and zones, its total is the sum of what the last zones  *)
(* of all allocated inodes leave unused, and its maximum the greatest of   *)
(* them: the inode that inodesScanned counts is the one whose bit is       *)
(* looked at, through all blocks of the bitmap (FraginFS).                 *)
THEOREM ScanMeasuresTheDisk == ToolSpec => ScanMeasuresAll
<1>1. ToolInit => FsInv /\ ScanInv
  BY FsInit DEF ScanInv, ToolInit, Init, MfsInit
<1>2. (FsInv /\ ScanInv) /\ [ToolNext]_toolVars => (FsInv /\ ScanInv)'
  BY FsStep, ScanStep
<1>3. (FsInv /\ ScanInv) /\ [ToolNext]_toolVars =>
        [req = "scan" /\ req' = "idle" =>
           LET unused(i) == (((Blocks(i) + blocksPerZone - 1) \div blocksPerZone) * blocksPerZone) - Blocks(i)
           IN  /\ scan'.total = MapThenSumSet(unused, disk.imap \ {0})
               /\ scan'.max = Max({0} \cup {unused(i) : i \in disk.imap \ {0}})]_mfsVars
  BY ScanStep DEF Unused, Allocated
<1> QED
  BY <1>1, <1>2, <1>3, PTL DEF ToolSpec, ScanMeasuresAll
-----------------------------------------------------------------------------
(* The blocks of a file are all listed.                                    *)

Room == MaxZones * blocksPerZone

\* The zones an item stands for, and zone j of them.
ZonesOf(op) == CASE op = "zone" -> 1 [] op = "single" -> NINDIRS [] op = "double" -> NINDIRS * NINDIRS
Reached(op, z, j) == CASE op = "zone" -> z
                       [] op = "single" -> Entry(z, j)
                       [] op = "double" -> Entry(Entry(z, j \div NINDIRS), j % NINDIRS)

\* Item x stands for the blocks of file i from p up to q.
Covers(i, x, p, q) ==
  \/ x.op = "block" /\ q = p + 1 /\ x.at = BlockOf(i, p) /\ x.at # NO_ZONE /\ ~Hole(i, p)
  \/ x.op = "put" /\ q = p
  \/ /\ x.op \in {"zone", "single", "double"}
     /\ \E n \in Nat : /\ p = n * blocksPerZone /\ q = (n + ZonesOf(x.op)) * blocksPerZone
                       /\ \A j \in 0 .. ZonesOf(x.op) - 1 : ZoneOf(i, n + j) = Reached(x.op, x.at, j)

\* Items that stand, one after the other, for the blocks from p up to q.
Laid(i, items, p, q) ==
  \E pos \in [1 .. Len(items) + 1 -> Nat] :
    /\ pos[1] = p /\ pos[Len(items) + 1] = q
    /\ \A t \in 1 .. Len(items) : Covers(i, items[t], pos[t], pos[t + 1])

\* What has been listed of file i, of which l blocks are left, when the blocks up to
\* p have been looked at.
ListedTo(i, l, p, v) ==
  /\ v \in Seq(Int) /\ Len(v) <= Blocks(i) /\ l = Blocks(i) - Len(v)
  /\ l = 0 \/ Len(v) <= p
  /\ \A n \in 0 .. Blocks(i) - 1 : (l = 0 \/ n < p) /\ ~Hole(i, n) => BlockOf(i, n) \in ToSet(v)
  /\ NoHoles(i) => /\ l = 0 \/ Len(v) = p
                   /\ \A n \in 1 .. Len(v) : v[n] = BlockOf(i, n - 1)

ListInv == req = "blocks" =>
             /\ Len(stack) = 1 /\ EOF_reached = (stack[1].left = 0)
             /\ \E p \in Nat : /\ Laid(stack[1].ip, stack[1].todo, p, Room)
                               /\ ListedTo(stack[1].ip, stack[1].left, p, visited)

LEMMA DivMod ==
  ASSUME NEW b \in Nat \ {0}, NEW n \in Nat, NEW k \in 0 .. b - 1
  PROVE  (n * b + k) \div b = n /\ (n * b + k) % b = k
<1> DEFINE m == n * b + k
           q == m \div b
           r == m % b
<1>1. m \in Nat
  OBVIOUS
<1>2. q \in Int /\ r \in 0 .. b - 1 /\ m = b * q + r
  <2> HIDE DEF m
  <2> QED BY <1>1
<1>3. m = n * b + k
  OBVIOUS
<1> HIDE DEF q, r, m
<1> DEFINE d == q - n
<1>4. d \in Int /\ q = n + d
  BY <1>2
<1> HIDE DEF d
<1>5. b * q = b * n + b * d /\ n * b = b * n /\ b * n \in Int /\ b * d \in Int
  BY <1>4
<1>6. b * d = k - r
  BY <1>2, <1>3, <1>5
<1>7. d >= 1 => b * d >= b
  BY <1>4
<1>8. d <= -1 => b * d <= -b
  BY <1>4
<1>9. d = 0
  BY <1>2, <1>4, <1>6, <1>7, <1>8
<1>10. b * d = 0
  BY <1>9
<1>11. q = n /\ r = k
  BY <1>2, <1>4, <1>6, <1>9, <1>10
<1> QED
  BY <1>11 DEF q, r, m

LEMMA DivRange ==
  ASSUME NEW b \in Nat \ {0}, NEW n \in Nat, NEW k \in Nat, NEW m \in Nat, n * b <= m, m < k * b
  PROVE  m \div b \in n .. k - 1
<1> DEFINE q == m \div b
           r == m % b
<1>1. q \in Int /\ r \in 0 .. b - 1 /\ m = b * q + r
  OBVIOUS
<1> HIDE DEF q, r
<1>2. q >= n
  <2> SUFFICES ASSUME q <= n - 1 PROVE FALSE
    BY <1>1
  <2>1. b * q <= b * (n - 1)
    BY <1>1
  <2>2. b * (n - 1) = n * b - b /\ n * b \in Nat /\ b * q \in Int
    BY <1>1
  <2> QED
    BY <1>1, <2>1, <2>2
<1>3. q <= k - 1
  <2> SUFFICES ASSUME q >= k PROVE FALSE
    BY <1>1
  <2>1. b * q >= k * b
    BY <1>1
  <2>2. k * b \in Nat /\ b * q \in Int
    BY <1>1
  <2> QED
    BY <1>1, <2>1, <2>2
<1> QED
  BY <1>1, <1>2, <1>3 DEF q

LEMMA LaidOne ==
  ASSUME NEW i, NEW x, NEW p \in Nat, NEW q \in Nat, Covers(i, x, p, q)
  PROVE  Laid(i, <<x>>, p, q)
<1> DEFINE pos == [t \in 1 .. 2 |-> IF t = 1 THEN p ELSE q]
<1>1. Len(<<x>>) = 1 /\ <<x>>[1] = x
  OBVIOUS
<1>2. pos \in [1 .. 1 + 1 -> Nat] /\ pos[1] = p /\ pos[1 + 1] = q
  OBVIOUS
<1> HIDE DEF pos
<1>3. \A t \in 1 .. 1 : Covers(i, <<x>>[t], pos[t], pos[t + 1])
  <2> SUFFICES Covers(i, <<x>>[1], pos[1], pos[1 + 1])
    OBVIOUS
  <2> QED
    BY <1>1, <1>2
<1> QED
  BY <1>1, <1>2, <1>3 DEF Laid

LEMMA LaidNone ==
  ASSUME NEW i, NEW p \in Nat
  PROVE  Laid(i, <<>>, p, p)
<1> DEFINE pos == [t \in 1 .. 1 |-> p]
<1>1. Len(<<>>) = 0
  OBVIOUS
<1>2. pos \in [1 .. 0 + 1 -> Nat] /\ pos[1] = p /\ pos[0 + 1] = p
  OBVIOUS
<1> HIDE DEF pos
<1> QED
  BY <1>1, <1>2 DEF Laid

LEMMA LaidEnd ==
  ASSUME NEW i, NEW p, NEW q, Laid(i, <<>>, p, q)
  PROVE  p = q
<1>1. Len(<<>>) = 0 /\ 0 + 1 = 1
  OBVIOUS
<1> QED
  BY <1>1 DEF Laid

LEMMA LaidJoin ==
  ASSUME NEW i, NEW a \in Seq(Item), NEW b \in Seq(Item), NEW p, NEW q, NEW r,
         Laid(i, a, p, q), Laid(i, b, q, r)
  PROVE  Laid(i, a \o b, p, r)
<1> DEFINE m == Len(a)
           n == Len(b)
           c == a \o b
<1>1. m \in Nat /\ n \in Nat /\ Len(c) = m + n
  OBVIOUS
<1>2. \A t \in 1 .. m : c[t] = a[t]
  OBVIOUS
<1>3. \A t \in 1 .. n : c[m + t] = b[t]
  OBVIOUS
<1>4. PICK f \in [1 .. m + 1 -> Nat] : f[1] = p /\ f[m + 1] = q /\ \A t \in 1 .. m : Covers(i, a[t], f[t], f[t + 1])
  BY DEF Laid
<1>5. PICK g \in [1 .. n + 1 -> Nat] : g[1] = q /\ g[n + 1] = r /\ \A t \in 1 .. n : Covers(i, b[t], g[t], g[t + 1])
  BY DEF Laid
<1> HIDE DEF m, n, c
<1> DEFINE h == [t \in 1 .. m + n + 1 |-> IF t <= m + 1 THEN f[t] ELSE g[t - m]]
<1>6. h \in [1 .. m + n + 1 -> Nat]
  <2>1. ASSUME NEW t \in 1 .. m + n + 1 PROVE (IF t <= m + 1 THEN f[t] ELSE g[t - m]) \in Nat
    <3>1. t <= m + 1 => t \in 1 .. m + 1
      BY <1>1
    <3>2. ~(t <= m + 1) => t - m \in 1 .. n + 1
      BY <1>1
    <3> QED
      BY <1>4, <1>5, <3>1, <3>2
  <2> QED
    BY <2>1
<1>7. \A t \in 1 .. m + 1 : h[t] = f[t]
  BY <1>1
<1>8. \A t \in 1 .. n + 1 : h[m + t] = g[t]
  <2> TAKE t \in 1 .. n + 1
  <2>1. m + t \in 1 .. m + n + 1 /\ (m + t) - m = t
    BY <1>1
  <2>2. m + t <= m + 1 => t = 1
    BY <1>1
  <2>3. h[m + t] = IF m + t <= m + 1 THEN f[m + t] ELSE g[(m + t) - m]
    BY <2>1
  <2> HIDE DEF h
  <2> QED
    BY <1>4, <1>5, <2>1, <2>2, <2>3
<1> HIDE DEF h
<1>9. ASSUME NEW t \in 1 .. m + n PROVE Covers(i, c[t], h[t], h[t + 1])
  <2>1. CASE t \in 1 .. m
    <3>1. t \in 1 .. m + 1 /\ t + 1 \in 1 .. m + 1
      BY <1>1, <2>1
    <3>2. c[t] = a[t] /\ h[t] = f[t] /\ h[t + 1] = f[t + 1]
      BY <1>2, <1>7, <2>1, <3>1
    <3> QED
      BY <1>4, <2>1, <3>2
  <2>2. CASE t \notin 1 .. m
    <3> DEFINE s == t - m
    <3>1. s \in 1 .. n /\ t = m + s /\ t + 1 = m + (s + 1) /\ s \in 1 .. n + 1 /\ s + 1 \in 1 .. n + 1
      BY <1>1, <2>2
    <3> HIDE DEF s
    <3>2. c[t] = b[s] /\ h[t] = g[s] /\ h[t + 1] = g[s + 1]
      BY <1>3, <1>8, <3>1
    <3> QED
      BY <1>5, <3>1, <3>2
  <2> QED
    BY <2>1, <2>2
<1>10. h[1] = p /\ h[m + n + 1] = r
  <2>1. 1 \in 1 .. m + 1 /\ n + 1 \in 1 .. n + 1 /\ m + (n + 1) = m + n + 1
    BY <1>1
  <2>2. h[1] = f[1] /\ h[m + (n + 1)] = g[n + 1]
    BY <1>7, <1>8, <2>1
  <2> QED
    BY <1>4, <1>5, <2>1, <2>2
<1>11. Laid(i, c, p, r)
  BY <1>1, <1>6, <1>9, <1>10 DEF Laid
<1> QED
  BY <1>11 DEF c

LEMMA LaidTail ==
  ASSUME NEW i, NEW a \in Seq(Item), a # <<>>, NEW p, NEW r, Laid(i, a, p, r)
  PROVE  \E q \in Nat : Covers(i, a[1], p, q) /\ Laid(i, Tail(a), q, r)
<1> DEFINE m == Len(a)
           b == Tail(a)
<1>1. m \in Nat \ {0} /\ Len(b) = m - 1 /\ \A t \in 1 .. m - 1 : b[t] = a[t + 1]
  OBVIOUS
<1>2. PICK f \in [1 .. m + 1 -> Nat] : f[1] = p /\ f[m + 1] = r /\ \A t \in 1 .. m : Covers(i, a[t], f[t], f[t + 1])
  BY DEF Laid
<1> HIDE DEF m, b
<1> DEFINE g == [t \in 1 .. m |-> f[t + 1]]
<1>3. g \in [1 .. (m - 1) + 1 -> Nat]
  BY <1>1, <1>2
<1>4. g[1] = f[2] /\ g[(m - 1) + 1] = r
  BY <1>1, <1>2
<1>5. ASSUME NEW t \in 1 .. m - 1 PROVE Covers(i, b[t], g[t], g[t + 1])
  <2>1. t \in 1 .. m /\ t + 1 \in 1 .. m
    BY <1>1
  <2>2. g[t] = f[t + 1] /\ g[t + 1] = f[(t + 1) + 1] /\ b[t] = a[t + 1]
    BY <1>1, <2>1
  <2> HIDE DEF g
  <2> QED
    BY <1>2, <2>1, <2>2
<1> HIDE DEF g
<1>6. Laid(i, b, f[2], r)
  BY <1>1, <1>3, <1>4, <1>5 DEF Laid
<1>7. f[2] \in Nat /\ Covers(i, a[1], p, f[2])
  <2>1. 1 \in 1 .. m /\ 1 + 1 = 2 /\ 2 \in 1 .. m + 1
    BY <1>1
  <2>2. Covers(i, a[1], f[1], f[1 + 1])
    BY <1>2, <2>1
  <2> QED
    BY <1>2, <2>1, <2>2
<1> QED
  BY <1>6, <1>7 DEF b

\* Items that stand for as many blocks each.
LEMMA LaidEven ==
  ASSUME NEW i, NEW a \in Seq(Item), NEW p \in Nat, NEW w \in Nat,
         \A k \in 1 .. Len(a) : Covers(i, a[k], p + (k - 1) * w, p + k * w)
  PROVE  Laid(i, a, p, p + Len(a) * w)
<1> DEFINE m == Len(a)
           pos == [t \in 1 .. m + 1 |-> p + (t - 1) * w]
<1>1. m \in Nat
  OBVIOUS
<1>2. pos \in [1 .. m + 1 -> Nat]
  <2>1. ASSUME NEW t \in 1 .. m + 1 PROVE p + (t - 1) * w \in Nat
    <3>1. t - 1 \in Nat
      BY <1>1
    <3>2. \A u \in Nat : p + u * w \in Nat
      OBVIOUS
    <3> QED
      BY <3>1, <3>2
  <2> QED
    BY <2>1
<1>3. pos[1] = p
  <2>1. 0 * w = 0 /\ 1 - 1 = 0
    OBVIOUS
  <2>2. pos[1] = p + (1 - 1) * w
    BY <1>1
  <2> HIDE DEF pos
  <2> QED
    BY <2>1, <2>2
<1>4. pos[m + 1] = p + m * w
  <2>1. m + 1 \in 1 .. m + 1 /\ (m + 1) - 1 = m
    BY <1>1
  <2>2. pos[m + 1] = p + ((m + 1) - 1) * w
    BY <2>1
  <2> HIDE DEF pos
  <2> QED
    BY <2>1, <2>2
<1>5. ASSUME NEW t \in 1 .. m PROVE Covers(i, a[t], pos[t], pos[t + 1])
  <2>1. t \in 1 .. m + 1 /\ t + 1 \in 1 .. m + 1 /\ (t + 1) - 1 = t
    BY <1>1
  <2>2. pos[t] = p + (t - 1) * w /\ pos[t + 1] = p + ((t + 1) - 1) * w
    BY <2>1
  <2> HIDE DEF pos
  <2> QED
    BY <2>1, <2>2
<1> HIDE DEF pos
<1> QED
  BY <1>2, <1>3, <1>4, <1>5 DEF Laid

LEMMA Fits ==
  ASSUME disk \in Disks, NEW i \in DOMAIN disk.inode
  PROVE  Blocks(i) \in Nat /\ Room \in Nat /\ Blocks(i) <= Room
<1>1. NINDIRS \in Nat /\ NDZONES \in Nat /\ BLOCK_SIZE \in Nat \ {0} /\ blocksPerZone \in Nat
  BY SizesAssumption, Powers
<1>2. MaxZones \in Nat
  BY <1>1 DEF MaxZones
<1>3. Room \in Nat
  BY <1>1, <1>2 DEF Room
<1>4. Size(i) \in Nat /\ Size(i) <= Room * BLOCK_SIZE
  <2>1. InodeSound(disk, i)
    BY SoundDisk
  <2>2. disk.inode[i].size \in Nat /\ disk.inode[i].size <= MaxZones * 2 ^ disk.log_zone_size * BLOCK_SIZE
    BY <2>1 DEF InodeSound
  <2>3. MaxZones * 2 ^ disk.log_zone_size * BLOCK_SIZE = Room * BLOCK_SIZE
    BY DEF Room, blocksPerZone, Scale
  <2> QED
    BY <2>2, <2>3 DEF Size
<1> DEFINE b == BLOCK_SIZE
           q == (Size(i) + b - 1) \div b
           r == (Size(i) + b - 1) % b
<1>5. Blocks(i) = q
  BY DEF Blocks
<1>6. q \in Int /\ r \in 0 .. b - 1 /\ Size(i) + b - 1 = b * q + r
  <2> DEFINE w == Size(i) + b - 1
  <2>1. w \in Int
    BY <1>1, <1>4
  <2> HIDE DEF b, w
  <2>2. b \in Nat \ {0}
    BY <1>1 DEF b
  <2>3. w \div b \in Int /\ w % b \in 0 .. b - 1 /\ w = b * (w \div b) + (w % b)
    BY <2>1, <2>2
  <2> QED
    BY <2>3 DEF w
<1> DEFINE s == Size(i)
           R == Room
<1> HIDE DEF b, q, r, s, R
<1>7. b \in Nat \ {0} /\ s \in Nat /\ R \in Nat /\ s <= R * b /\ s + b - 1 = b * q + r
  BY <1>1, <1>3, <1>4, <1>6 DEF b, s, R
<1>8. q >= 0
  <2> SUFFICES ASSUME q <= -1 PROVE FALSE
    BY <1>6
  <2>1. b * q <= -b
    BY <1>6, <1>7
  <2> QED
    BY <1>6, <1>7, <2>1
<1>9. q <= R
  <2> SUFFICES ASSUME q >= R + 1 PROVE FALSE
    BY <1>6, <1>7
  <2>1. b * q >= b * (R + 1)
    BY <1>6, <1>7
  <2>2. b * (R + 1) = R * b + b /\ R * b \in Nat /\ b * q \in Int
    BY <1>6, <1>7
  <2> QED
    BY <1>6, <1>7, <2>1, <2>2
<1> QED
  BY <1>3, <1>5, <1>6, <1>8, <1>9 DEF R

LEMMA ZoneCounts ==
  /\ NINDIRS \in Nat \ {0} /\ NINDIRS * NINDIRS \in Nat \ {0}
  /\ \A op \in {"zone", "single", "double"} : ZonesOf(op) \in Nat \ {0}
<1>1. NINDIRS \in Nat \ {0}
  BY SizesAssumption
<1>2. NINDIRS * NINDIRS \in Nat \ {0}
  BY <1>1
<1> QED
  BY <1>1, <1>2 DEF ZonesOf

\* A zone that is not there stands for holes.
LEMMA HoleCovers ==
  ASSUME disk \in Disks, NEW i, NEW x, NEW p, NEW q, Covers(i, x, p, q),
         x.op \in {"zone", "single", "double"}, x.at = NO_ZONE
  PROVE  /\ p \in Nat /\ q \in Nat /\ p < q
         /\ \A m \in p .. q - 1 : Hole(i, m)
<1> DEFINE b == blocksPerZone
           k == ZonesOf(x.op)
<1>1. b \in Nat \ {0} /\ k \in Nat \ {0}
  BY Powers, ZoneCounts
<1>2. PICK n \in Nat : /\ p = n * b /\ q = (n + k) * b
                       /\ \A j \in 0 .. k - 1 : ZoneOf(i, n + j) = Reached(x.op, x.at, j)
  BY DEF Covers
<1>3. \A j : Reached(x.op, x.at, j) = NO_ZONE
  BY DEF Reached, Entry
<1>4. \A m : Hole(i, m) <=> ZoneOf(i, m \div b) = NO_ZONE
  BY DEF Hole
<1> HIDE DEF b, k
<1>5. (n + k) * b = n * b + k * b /\ n * b \in Nat /\ k * b \in Nat \ {0}
  BY <1>1
<1>6. ASSUME NEW m \in p .. q - 1 PROVE Hole(i, m)
  <2>1. m \in Nat /\ n * b <= m /\ m < (n + k) * b /\ n + k \in Nat
    BY <1>1, <1>2, <1>5, <1>6
  <2>2. m \div b \in n .. (n + k) - 1
    BY <1>1, <2>1, DivRange
  <2> DEFINE j == (m \div b) - n
  <2>3. j \in 0 .. k - 1 /\ n + j = m \div b
    BY <1>1, <2>2
  <2> HIDE DEF j
  <2>4. ZoneOf(i, n + j) = NO_ZONE
    BY <1>2, <1>3, <2>3
  <2> QED
    BY <1>4, <2>3, <2>4
<1> QED
  BY <1>1, <1>2, <1>5, <1>6

\* A zone is its blocks.
LEMMA LaidZone ==
  ASSUME disk \in Disks, req = "blocks", NEW i, NEW x, NEW p \in Nat, NEW q \in Nat, Covers(i, x, p, q),
         x.op = "zone", x.at \in Nat \ {0}
  PROVE  LET items == [n \in 1 .. blocksPerZone |-> [op |-> "block", at |-> Address(x.at, n - 1)]]
         IN  items \in Seq(Item) /\ Laid(i, items, p, q)
<1> DEFINE b == blocksPerZone
           z == x.at
           items == [n \in 1 .. b |-> [op |-> "block", at |-> Address(z, n - 1)]]
<1>1. b \in Nat \ {0} /\ 2 ^ Scale = b
  BY Powers DEF blocksPerZone
<1>2. PICK n \in Nat : p = n * b /\ q = (n + 1) * b /\ ZoneOf(i, n + 0) = z
  <2>1. ZonesOf(x.op) = 1 /\ Reached(x.op, x.at, 0) = z
    BY DEF ZonesOf, Reached
  <2>2. 0 \in 0 .. 1 - 1
    OBVIOUS
  <2> QED
    BY <2>1, <2>2 DEF Covers
<1>3. \A k : Address(z, k) = z * b + k
  BY <1>1 DEF Address
<1>4. \A m : Hole(i, m) <=> ZoneOf(i, m \div b) = NO_ZONE
  BY DEF Hole
<1>5. \A m : BlockOf(i, m) = ZoneOf(i, m \div b) * b + (m % b)
  BY DEF BlockOf
<1>6. z \in Nat \ {0} /\ z # NO_ZONE
  BY DEF NO_ZONE
<1> HIDE DEF b, z
<1>7. items \in Seq(Item) /\ Len(items) = b
  <2>1. ASSUME NEW k \in 1 .. b PROVE [op |-> "block", at |-> Address(z, k - 1)] \in Item
    <3>1. z * b \in Nat /\ k - 1 \in Nat
      BY <1>1, <1>6
    <3>2. Address(z, k - 1) \in Nat
      BY <1>3, <3>1
    <3> QED
      BY <3>2 DEF Item, Ops
  <2> QED
    BY <1>1, <2>1
<1>8. ASSUME NEW k \in 1 .. b PROVE Covers(i, items[k], p + (k - 1) * 1, p + k * 1)
  <2> DEFINE m == n * b + (k - 1)
  <2>1. p + (k - 1) * 1 = m /\ p + k * 1 = m + 1
    <3>1. n * b \in Nat
      BY <1>1
    <3> QED
      BY <1>1, <1>2, <3>1
  <2>2. k - 1 \in 0 .. b - 1
    BY <1>1
  <2>3. m \div b = n /\ m % b = k - 1
    BY <1>1, <2>2, DivMod
  <2>4. items[k] = [op |-> "block", at |-> z * b + (k - 1)]
    BY <1>3
  <2>5. n + 0 = n
    OBVIOUS
  <2> HIDE DEF m, items
  <2>6. BlockOf(i, m) = z * b + (k - 1) /\ ~Hole(i, m)
    BY <1>2, <1>4, <1>5, <1>6, <2>3, <2>5
  <2>7. z * b + (k - 1) # 0
    <3>1. z * b >= 1 /\ z * b \in Nat
      BY <1>1, <1>6
    <3> QED
      BY <2>2, <3>1
  <2> QED
    BY <2>1, <2>4, <2>6, <2>7 DEF Covers, NO_ZONE
<1> HIDE DEF items
<1>9. Laid(i, items, p, p + Len(items) * 1)
  BY <1>7, <1>8, LaidEven
<1>10. p + Len(items) * 1 = q
  <2>1. (n + 1) * b = n * b + b /\ n * b \in Nat
    BY <1>1
  <2> QED
    BY <1>1, <1>2, <1>7, <2>1
<1> QED
  BY <1>7, <1>9, <1>10 DEF items, b, z

\* An indirect zone is its entries.
LEMMA LaidEntries ==
  ASSUME disk \in Disks, NEW i, NEW x, NEW p \in Nat, NEW q \in Nat, Covers(i, x, p, q),
         x.op \in {"single", "double"}, x.at \in DOMAIN disk.indir, x.at \in Nat \ {0}
  PROVE  Entries(x.op, x.at) \in Seq(Item) /\ Laid(i, Entries(x.op, x.at), p, q)
<1> DEFINE b == blocksPerZone
           z == x.at
           N == NINDIRS
           inner == IF x.op = "single" THEN "zone" ELSE "single"
           items == Items(inner, disk.indir[z])
           w == ZonesOf(inner)
<1>1. b \in Nat \ {0} /\ N \in Nat \ {0}
  BY Powers, ZoneCounts
<1>2. disk.indir[z] \in Seq(Nat) /\ Len(disk.indir[z]) = N
  BY DisksAssumption DEF DiskSound
<1>3. ZonesOf(x.op) = N * w /\ w \in Nat \ {0}
  <2>1. N * 1 = N
    BY <1>1
  <2> QED
    BY <1>1, <2>1 DEF ZonesOf
<1>4. PICK n \in Nat : /\ p = n * b /\ q = (n + N * w) * b
                       /\ \A j \in 0 .. N * w - 1 : ZoneOf(i, n + j) = Reached(x.op, z, j)
  <2>1. \E n \in Nat : /\ p = n * b /\ q = (n + ZonesOf(x.op)) * b
                       /\ \A j \in 0 .. ZonesOf(x.op) - 1 : ZoneOf(i, n + j) = Reached(x.op, z, j)
    BY DEF Covers
  <2> HIDE DEF w
  <2> QED
    BY <1>3, <2>1
<1>5. \A k \in 1 .. N : \A j \in 0 .. w - 1 : Reached(x.op, z, (k - 1) * w + j) = Reached(inner, disk.indir[z][k], j)
  <2> SUFFICES ASSUME NEW k \in 1 .. N, NEW j \in 0 .. w - 1
               PROVE  Reached(x.op, z, (k - 1) * w + j) = Reached(inner, disk.indir[z][k], j)
    OBVIOUS
  <2>0. \A y : Entry(z, y) = disk.indir[z][y + 1]
    BY DEF Entry, NO_ZONE
  <2>1. CASE x.op = "single"
    <3>1. w = 1 /\ j = 0 /\ inner = "zone"
      BY <2>1 DEF ZonesOf
    <3>2. (k - 1) * w + j = k - 1 /\ (k - 1) + 1 = k
      BY <1>1, <3>1
    <3>3. Reached("single", z, k - 1) = disk.indir[z][k]
      BY <2>0, <3>2 DEF Reached
    <3> QED
      BY <2>1, <3>1, <3>2, <3>3 DEF Reached
  <2>2. CASE x.op = "double"
    <3>1. w = N /\ inner = "single"
      BY <2>2 DEF ZonesOf
    <3> DEFINE y == (k - 1) * N + j
    <3>2. y \div N = k - 1 /\ y % N = j /\ (k - 1) + 1 = k
      <4> DEFINE a == k - 1
      <4>1. a \in Nat /\ j \in 0 .. N - 1 /\ a + 1 = k
        BY <1>1, <3>1
      <4> HIDE DEF a, N
      <4>2. (a * N + j) \div N = a /\ (a * N + j) % N = j
        BY <1>1, <4>1, DivMod
      <4> QED
        BY <4>1, <4>2 DEF a
    <3> HIDE DEF y
    <3>3. Reached("double", z, y) = Entry(Entry(z, y \div N), y % N)
      BY DEF Reached
    <3>4. Reached("double", z, y) = Entry(disk.indir[z][k], j)
      BY <2>0, <3>2, <3>3
    <3> QED
      BY <2>2, <3>1, <3>4 DEF Reached, y
  <2> QED
    BY <2>1, <2>2
<1> HIDE DEF w, b, N
<1>6. items \in Seq(Item) /\ Len(items) = N /\ \A k \in 1 .. N : items[k] = [op |-> inner, at |-> disk.indir[z][k]]
  <2>1. DOMAIN disk.indir[z] = 1 .. N /\ \A k \in 1 .. N : disk.indir[z][k] \in Nat
    BY <1>2
  <2>2. items = [k \in 1 .. N |-> [op |-> inner, at |-> disk.indir[z][k]]]
    BY <2>1 DEF Items
  <2>3. \A k \in 1 .. N : [op |-> inner, at |-> disk.indir[z][k]] \in Item
    BY <2>1 DEF Item, Ops
  <2> HIDE DEF items, inner
  <2> QED
    BY <1>1, <2>2, <2>3
<1>7. inner \in {"zone", "single"} /\ ZonesOf(inner) = w
  BY DEF w
<1> HIDE DEF z, inner, items
<1>8. ASSUME NEW k \in 1 .. N PROVE Covers(i, items[k], p + (k - 1) * (w * b), p + k * (w * b))
  <2> DEFINE m == n + (k - 1) * w
  <2>1. k - 1 \in Nat /\ (k - 1) * w \in Nat /\ m \in Nat /\ k * w = (k - 1) * w + w
    BY <1>1, <1>3
  <2>2. p + (k - 1) * (w * b) = m * b
    <3>1. (k - 1) * (w * b) = ((k - 1) * w) * b
      BY <1>1, <1>3, <2>1
    <3>2. \A u, v, y \in Nat : (u + v) * y = u * y + v * y
      OBVIOUS
    <3> QED
      BY <1>1, <1>4, <2>1, <3>1, <3>2
  <2>3. p + k * (w * b) = (m + w) * b
    <3>1. k * (w * b) = (k * w) * b /\ k * w \in Nat
      BY <1>1, <1>3
    <3>2. \A u, v, y \in Nat : (u + v) * y = u * y + v * y
      OBVIOUS
    <3>3. m + w = n + k * w
      BY <1>3, <2>1, <3>1
    <3> QED
      BY <1>1, <1>4, <2>1, <3>1, <3>2, <3>3
  <2>4. ASSUME NEW j \in 0 .. w - 1 PROVE ZoneOf(i, m + j) = Reached(inner, disk.indir[z][k], j)
    <3>1. (k - 1) * w + j \in 0 .. N * w - 1
      <4>1. \A u, v, y \in Nat : u <= v => u * y <= v * y
        OBVIOUS
      <4>2. k \in Nat /\ N \in Nat /\ w \in Nat /\ k <= N
        BY <1>1, <1>3
      <4>3. k * w <= N * w
        BY <4>1, <4>2
      <4>4. N * w \in Nat /\ k * w \in Nat
        BY <4>2
      <4> QED
        BY <1>3, <2>1, <4>3, <4>4
    <3>2. m + j = n + ((k - 1) * w + j)
      BY <1>3, <2>1
    <3> QED
      BY <1>4, <1>5, <3>1, <3>2
  <2>5. items[k].op = inner /\ items[k].at = disk.indir[z][k]
    BY <1>6
  <2> HIDE DEF m
  <2> QED
    BY <1>7, <2>1, <2>2, <2>3, <2>4, <2>5 DEF Covers, b
<1>9. w * b \in Nat
  BY <1>1, <1>3
<1>10. Laid(i, items, p, p + Len(items) * (w * b))
  BY <1>6, <1>8, <1>9, LaidEven
<1>11. p + Len(items) * (w * b) = q
  <2>1. N * (w * b) = (N * w) * b /\ N * w \in Nat
    BY <1>1, <1>3
  <2>2. \A u, v, y \in Nat : (u + v) * y = u * y + v * y
    OBVIOUS
  <2> QED
    BY <1>1, <1>4, <1>6, <2>1, <2>2
<1> DEFINE y == [op |-> "put", at |-> z]
<1>12. y \in Item /\ <<y>> \in Seq(Item)
  BY DEF Item, Ops, z
<1>13. Laid(i, <<y>>, q, q)
  <2>1. Covers(i, y, q, q)
    BY DEF Covers
  <2> HIDE DEF y
  <2> QED BY <2>1, LaidOne
<1>14. Entries(x.op, z) = items \o <<y>>
  BY DEF Entries, items, inner, z
<1> HIDE DEF y
<1>15. Laid(i, items \o <<y>>, p, q)
  BY <1>6, <1>10, <1>11, <1>12, <1>13, LaidJoin
<1> QED
  BY <1>6, <1>12, <1>14, <1>15 DEF z

\* What stands for what depends on the disk only.
LEMMA SameList ==
  ASSUME disk' = disk, NEW i, NEW todo, NEW l, NEW p \in Nat, NEW v,
         Laid(i, todo, p, Room), ListedTo(i, l, p, v),
         Len(stack') = 1, stack'[1].ip = i, stack'[1].todo = todo, stack'[1].left = l,
         EOF_reached' = (l = 0), visited' = v
  PROVE  ListInv'
<1>1. blocksPerZone' = blocksPerZone /\ Room' = Room /\ Blocks(i)' = Blocks(i) /\ \A j : Blocks(j)' = Blocks(j)
  BY DEF blocksPerZone, Scale, Room, Blocks, Size
<1>2. \A z, n : Entry(z, n)' = Entry(z, n)
  BY DEF Entry
<1>3. \A j, n : ZoneOf(j, n)' = ZoneOf(j, n)
  BY <1>2 DEF ZoneOf, Zone
<1>4. \A op, z, n : Reached(op, z, n)' = Reached(op, z, n)
  BY <1>2 DEF Reached
<1>5. \A j, n : BlockOf(j, n)' = BlockOf(j, n) /\ (Hole(j, n)' <=> Hole(j, n))
  BY <1>1, <1>3 DEF BlockOf, Hole
<1>6. \A j : NoHoles(j)' <=> NoHoles(j)
  BY <1>1, <1>5 DEF NoHoles
<1>7. \A j, x, a, b : Covers(j, x, a, b)' <=> Covers(j, x, a, b)
  BY <1>1, <1>3, <1>4, <1>5 DEF Covers
<1>8. \A j, items, a, b : Laid(j, items, a, b)' <=> Laid(j, items, a, b)
  BY <1>7 DEF Laid
<1>9. \A j, m, a, w : ListedTo(j, m, a, w)' <=> ListedTo(j, m, a, w)
  BY <1>1, <1>5, <1>6 DEF ListedTo
<1>10. Laid(stack[1].ip, stack[1].todo, p, Room)'
  BY <1>1, <1>8
<1>11. ListedTo(stack[1].ip, stack[1].left, p, visited)'
  BY <1>9
<1> QED
  BY <1>10, <1>11 DEF ListInv

\* A walk through a file, at an item.
ListState(i, l, x, rest, p, q) ==
  /\ disk \in Disks /\ Len(stack) = 1 /\ Top = stack[1] /\ stack[1].ip = i /\ i \in DOMAIN disk.inode
  /\ stack[1].left = l /\ EOF_reached = (l = 0)
  /\ Head(stack[1].todo) = x /\ Here = x.at /\ x \in Item /\ Tail(stack[1].todo) = rest /\ rest \in Seq(Item)
  /\ stack[1].todo # <<>> /\ x \in {stack[1].todo[t] : t \in DOMAIN stack[1].todo}
  /\ p \in Nat /\ q \in Nat /\ Covers(i, x, p, q) /\ Laid(i, rest, q, Room)
  /\ ListedTo(i, l, p, visited)

LEMMA OnlyFrame ==
  ASSUME FsInv, ListInv, req = "blocks"
  PROVE  /\ disk \in Disks /\ Len(stack) = 1 /\ Top = stack[1] /\ stack # <<>>
         /\ stack \in Seq(FrameOf(disk)) /\ stack[1] \in FrameOf(disk)
         /\ stack[1].ip \in DOMAIN disk.inode /\ stack[1].todo \in Seq(Item)
         /\ EOF_reached = (stack[1].left = 0)
<1>1. disk \in Disks /\ stack \in Seq(FrameOf(disk)) /\ Len(stack) = 1 /\ EOF_reached = (stack[1].left = 0)
  BY DEF FsInv, StackOK, ListInv
<1>2. 1 \in 1 .. Len(stack)
  BY <1>1
<1>3. stack[1] \in FrameOf(disk)
  <2>1. \A F : stack \in Seq(F) => stack[1] \in F
    BY <1>2
  <2> QED
    BY <1>1, <2>1
<1>4. Top = stack[1] /\ stack # <<>>
  <2>1. Len(<<>>) = 0
    OBVIOUS
  <2> QED
    BY <1>1, <2>1 DEF Top, Last
<1> QED
  BY <1>1, <1>3, <1>4 DEF FrameOf

LEMMA NextItem ==
  ASSUME FsInv, ListInv, req = "blocks", Top.todo # <<>>
  PROVE  \E i, l, x, rest, p, q : ListState(i, l, x, rest, p, q)
<1>1. /\ disk \in Disks /\ Len(stack) = 1 /\ Top = stack[1] /\ stack[1] \in FrameOf(disk)
      /\ stack[1].ip \in DOMAIN disk.inode /\ stack[1].todo \in Seq(Item)
      /\ EOF_reached = (stack[1].left = 0)
  BY OnlyFrame
<1> DEFINE todo == stack[1].todo
           i == stack[1].ip
<1>2. PICK p \in Nat : Laid(i, todo, p, Room) /\ ListedTo(i, stack[1].left, p, visited)
  BY DEF ListInv
<1>3. todo \in Seq(Item) /\ todo # <<>> /\ Here = Head(todo).at
  BY <1>1 DEF Here
<1> HIDE DEF todo
<1>4. PICK q \in Nat : Covers(i, todo[1], p, q) /\ Laid(i, Tail(todo), q, Room)
  <2> HIDE DEF i
  <2> QED BY <1>2, <1>3, LaidTail
<1>5. Head(todo) = todo[1] /\ todo[1] \in Item /\ Tail(todo) \in Seq(Item) /\ 1 \in DOMAIN todo
  BY <1>3
<1>6. ListState(i, stack[1].left, todo[1], Tail(todo), p, q)
  BY <1>1, <1>2, <1>3, <1>4, <1>5 DEF ListState, todo
<1> QED
  BY <1>6

\* The only frame goes on to other items.
LEMMA OnlyChanges ==
  ASSUME Len(stack) = 1, stack \in Seq(FrameOf(disk)), NEW new, NEW l,
         stack' = [stack EXCEPT ![1] = [ip |-> stack[1].ip, left |-> l, todo |-> new]]
  PROVE  Len(stack') = 1 /\ stack'[1].ip = stack[1].ip /\ stack'[1].todo = new /\ stack'[1].left = l
<1>1. DOMAIN stack = 1 .. 1
  OBVIOUS
<1>2. DOMAIN stack' = DOMAIN stack
  OBVIOUS
<1> QED
  BY <1>1, <1>2

LEMMA InsteadOnly ==
  ASSUME FsInv, ListInv, req = "blocks", NEW items, Instead(items)
  PROVE  /\ Len(stack') = 1 /\ stack'[1].ip = stack[1].ip /\ stack'[1].left = stack[1].left
         /\ stack'[1].todo = items \o Tail(stack[1].todo)
<1>1. Len(stack) = 1 /\ stack[1] \in FrameOf(disk) /\ stack \in Seq(FrameOf(disk))
  BY OnlyFrame
<1>2. stack' = [stack EXCEPT ![1].todo = items \o Tail(@)]
  BY <1>1 DEF Instead
<1>3. 1 \in DOMAIN stack
  BY <1>1
<1>4. [stack[1] EXCEPT !.todo = items \o Tail(@)]
        = [ip |-> stack[1].ip, left |-> stack[1].left, todo |-> items \o Tail(stack[1].todo)]
  <2> DEFINE new == items \o Tail(stack[1].todo)
  <2> HIDE DEF new
  <2>1. [stack[1] EXCEPT !.todo = new] = [ip |-> stack[1].ip, left |-> stack[1].left, todo |-> new]
    BY <1>1, FrameFields
  <2> QED
    BY <2>1 DEF new
<1>5. stack' = [stack EXCEPT ![1] = [ip |-> stack[1].ip, left |-> stack[1].left,
                                     todo |-> items \o Tail(stack[1].todo)]]
  BY <1>2, <1>3, <1>4
<1> QED
  BY <1>1, <1>5, OnlyChanges

\* Others for the item, which stand for the same blocks.
LEMMA ListOthers ==
  ASSUME FsInv, ListInv, req = "blocks",
         NEW i, NEW l, NEW x, NEW rest, NEW p, NEW q, ListState(i, l, x, rest, p, q),
         NEW items \in Seq(Item), Laid(i, items, p, q), Instead(items), UNCHANGED <<disk, EOF_reached, visited>>
  PROVE  ListInv'
<1>1. /\ Len(stack') = 1 /\ stack'[1].ip = i /\ stack'[1].left = l /\ stack'[1].todo = items \o rest
  BY InsteadOnly DEF ListState
<1>2. Laid(i, items \o rest, p, Room)
  BY LaidJoin DEF ListState
<1>3. p \in Nat /\ ListedTo(i, l, p, visited) /\ EOF_reached = (l = 0)
  BY DEF ListState
<1> QED
  BY <1>1, <1>2, <1>3, SameList

\* The item is passed over.
LEMMA ListSkips ==
  ASSUME FsInv, ListInv, req = "blocks", Skip
  PROVE  ListInv'
<1>1. /\ Top.todo # <<>> /\ Instead(<<>>) /\ UNCHANGED <<disk, EOF_reached, visited>>
      /\ Here = Head(Top.todo).at
      /\ \/ EOF_reached
         \/ Head(Top.todo).op \in {"zone", "single", "double", "block"} /\ Here = NO_ZONE
         \/ Head(Top.todo).op = "entry"
  BY DEF Skip, At, AtEnd, listVars, Here
<1>2. PICK i, l, x, rest, p, q : ListState(i, l, x, rest, p, q)
  BY <1>1, NextItem
<1>3. /\ disk \in Disks /\ i \in DOMAIN disk.inode /\ Covers(i, x, p, q) /\ p \in Nat /\ q \in Nat
      /\ ListedTo(i, l, p, visited) /\ Laid(i, rest, q, Room) /\ EOF_reached = (l = 0) /\ rest \in Seq(Item)
      /\ Head(Top.todo) = x /\ Here = x.at /\ Tail(stack[1].todo) = rest /\ stack[1].ip = i /\ stack[1].left = l
      /\ x \in Item
  BY <1>2 DEF ListState
<1>4. /\ Len(stack') = 1 /\ stack'[1].ip = i /\ stack'[1].left = l /\ stack'[1].todo = rest
  <2>1. /\ Len(stack') = 1 /\ stack'[1].ip = stack[1].ip /\ stack'[1].left = stack[1].left
        /\ stack'[1].todo = <<>> \o Tail(stack[1].todo)
    BY <1>1, InsteadOnly
  <2>2. <<>> \o rest = rest
    BY <1>3
  <2> QED
    BY <1>3, <2>1, <2>2
<1>5. ListedTo(i, l, q, visited)
  <2>1. CASE l = 0
    BY <1>3, <2>1 DEF ListedTo
  <2>2. CASE l # 0
    <3>1. x.op \in {"zone", "single", "double"} /\ x.at = NO_ZONE
      BY <1>1, <1>3, <2>2 DEF Covers
    <3>2. p < q /\ \A m \in p .. q - 1 : Hole(i, m)
      BY <1>3, <3>1, HoleCovers
    <3>3. Blocks(i) \in Nat
      BY <1>3, Fits
    <3>4. visited \in Seq(Int) /\ Len(visited) \in Nat /\ Len(visited) <= p /\ Len(visited) <= Blocks(i)
          /\ l = Blocks(i) - Len(visited)
      BY <1>3, <2>2 DEF ListedTo
    <3>5. ASSUME NEW n \in 0 .. Blocks(i) - 1, n < q, ~Hole(i, n) PROVE BlockOf(i, n) \in ToSet(visited)
      <4>1. n < p
        BY <1>3, <3>2, <3>5
      <4> QED
        BY <1>3, <3>5, <4>1 DEF ListedTo
    <3>6. ~NoHoles(i)
      <4> SUFFICES ASSUME NoHoles(i) PROVE FALSE
        OBVIOUS
      <4>1. Len(visited) = p
        BY <1>3, <2>2 DEF ListedTo
      <4>2. p \in 0 .. Blocks(i) - 1 /\ p \in p .. q - 1
        BY <1>3, <2>2, <3>2, <3>3, <3>4, <4>1
      <4> QED
        BY <3>2, <4>2 DEF NoHoles
    <3> QED
      BY <1>3, <2>2, <3>2, <3>3, <3>4, <3>5, <3>6 DEF ListedTo
  <2> QED
    BY <2>1, <2>2
<1> QED
  BY <1>1, <1>3, <1>4, <1>5, SameList

LEMMA ListSame ==
  ASSUME ListInv, req = "blocks", UNCHANGED <<disk, req, stack, EOF_reached, visited>>
  PROVE  ListInv'
<1>1. Len(stack) = 1 /\ EOF_reached = (stack[1].left = 0)
  BY DEF ListInv
<1>2. PICK p \in Nat : /\ Laid(stack[1].ip, stack[1].todo, p, Room)
                       /\ ListedTo(stack[1].ip, stack[1].left, p, visited)
  BY DEF ListInv
<1> QED
  BY <1>1, <1>2, SameList

\* The item at the top is of the walk of a file, and points to what is there.
LEMMA ItemThere ==
  ASSUME FsInv, ListInv, req = "blocks", Top.todo # <<>>,
         NEW i, NEW l, NEW x, NEW rest, NEW p, NEW q, ListState(i, l, x, rest, p, q)
  PROVE  /\ x.op \in {"zone", "single", "double", "block", "put"} /\ x.at \in Nat
         /\ x.op \in {"single", "double"} /\ x.at # 0 => x.at \in DOMAIN disk.indir
<1>1. /\ Len(stack) = 1 /\ stack[1].ip = i /\ x \in {stack[1].todo[t] : t \in DOMAIN stack[1].todo}
      /\ x \in Item /\ Covers(i, x, p, q)
  BY DEF ListState
<1>2. 1 \in DOMAIN stack
  BY <1>1 DEF FsInv, StackOK
<1>3. FrameSound(stack[1])
  BY <1>2 DEF FsInv, StackOK
<1>4. ItemSound(disk, i, x)
  BY <1>1, <1>3 DEF FrameSound
<1>5. x.op \in {"zone", "single", "double", "block", "put"} /\ x.at \in Nat
  BY <1>1 DEF Covers, Item
<1> QED
  BY <1>4, <1>5 DEF ItemSound, SingleSound, DoubleSound

LEMMA ListIndirect ==
  ASSUME FsInv, ListInv, req = "blocks", Indirect
  PROVE  ListInv'
<1>1. CASE Panics
  <2>1. UNCHANGED <<disk, req, stack, EOF_reached, visited>>
    BY <1>1 DEF Panics, listVars
  <2> QED
    BY <2>1, ListSame
<1>2. CASE ~Panics
  <2>1. PICK op \in {"single", "double"} :
          /\ Top.todo # <<>> /\ Head(Top.todo).op = op /\ Here # NO_ZONE
          /\ Instead(Entries(op, Here)) /\ UNCHANGED <<disk, EOF_reached, visited>>
    BY <1>2 DEF Indirect, At, listVars
  <2>2. PICK i, l, x, rest, p, q : ListState(i, l, x, rest, p, q)
    BY <2>1, NextItem
  <2>3. /\ disk \in Disks /\ p \in Nat /\ q \in Nat /\ Covers(i, x, p, q)
        /\ Head(Top.todo) = x /\ Here = x.at
    BY <2>2 DEF ListState
  <2>4. x.op = op /\ x.at \in Nat \ {0} /\ x.at \in DOMAIN disk.indir
    BY <2>1, <2>2, <2>3, ItemThere DEF NO_ZONE
  <2>5. Entries(x.op, x.at) \in Seq(Item) /\ Laid(i, Entries(x.op, x.at), p, q)
    BY <2>3, <2>4, LaidEntries
  <2>6. Instead(Entries(x.op, x.at))
    BY <2>1, <2>3, <2>4
  <2> QED
    BY <2>1, <2>2, <2>5, <2>6, ListOthers
<1> QED
  BY <1>1, <1>2

LEMMA ListPuts ==
  ASSUME FsInv, ListInv, req = "blocks", PutIndirect
  PROVE  ListInv'
<1>1. /\ Top.todo # <<>> /\ Head(Top.todo).op = "put" /\ Instead(<<>>) /\ UNCHANGED <<disk, EOF_reached, visited>>
  BY DEF PutIndirect, At, listVars
<1>2. PICK i, l, x, rest, p, q : ListState(i, l, x, rest, p, q)
  BY <1>1, NextItem
<1>3. Head(Top.todo) = x /\ Covers(i, x, p, q) /\ p \in Nat
  BY <1>2 DEF ListState
<1>4. q = p
  BY <1>1, <1>3 DEF Covers
<1>5. <<>> \in Seq(Item) /\ Laid(i, <<>>, p, q)
  BY <1>3, <1>4, LaidNone
<1> QED
  BY <1>1, <1>2, <1>5, ListOthers

LEMMA ListZone ==
  ASSUME FsInv, ListInv, req = "blocks", WalkZone
  PROVE  ListInv'
<1> DEFINE items(z) == [n \in 1 .. blocksPerZone |-> [op |-> "block", at |-> Address(z, n - 1)]]
<1>1. /\ Top.todo # <<>> /\ Head(Top.todo).op = "zone" /\ Here # NO_ZONE
      /\ Instead(items(Here)) /\ UNCHANGED <<disk, EOF_reached, visited>>
  BY DEF WalkZone, At, listVars
<1>2. PICK i, l, x, rest, p, q : ListState(i, l, x, rest, p, q)
  BY <1>1, NextItem
<1>3. /\ disk \in Disks /\ p \in Nat /\ q \in Nat /\ Covers(i, x, p, q)
      /\ Head(Top.todo) = x /\ Here = x.at
  BY <1>2 DEF ListState
<1>4. x.op = "zone" /\ x.at \in Nat \ {0}
  BY <1>1, <1>2, <1>3, ItemThere DEF NO_ZONE
<1>5. items(x.at) \in Seq(Item) /\ Laid(i, items(x.at), p, q)
  BY <1>3, <1>4, LaidZone
<1>6. Instead(items(x.at))
  BY <1>1, <1>3
<1> HIDE DEF items
<1> QED
  BY <1>1, <1>2, <1>5, <1>6, ListOthers

LEMMA ListVisits ==
  ASSUME FsInv, ListInv, req = "blocks", ListBlock
  PROVE  ListInv'
<1>1. CASE Panics
  <2>1. UNCHANGED <<disk, req, stack, EOF_reached, visited>>
    BY <1>1 DEF Panics, listVars
  <2> QED
    BY <2>1, ListSame
<1>2. CASE ~Panics
  <2>1. /\ Top.todo # <<>> /\ Head(Top.todo).op = "block" /\ Top.left # 0
        /\ visited' = Append(visited, Here) /\ disk' = disk /\ EOF_reached' = (Top.left = 1)
        /\ stack' = [stack EXCEPT ![Len(stack)].todo = Tail(@), ![Len(stack)].left = @ - 1]
    BY <1>2 DEF ListBlock, At
  <2>2. PICK i, l, x, rest, p, q : ListState(i, l, x, rest, p, q)
    BY <2>1, NextItem
  <2>3. /\ disk \in Disks /\ p \in Nat /\ q \in Nat /\ Covers(i, x, p, q) /\ Laid(i, rest, q, Room)
        /\ Head(Top.todo) = x /\ Here = x.at /\ ListedTo(i, l, p, visited) /\ i \in DOMAIN disk.inode
        /\ Len(stack) = 1 /\ Top = stack[1] /\ stack[1].ip = i /\ stack[1].left = l /\ Tail(stack[1].todo) = rest
    BY <2>2 DEF ListState
  <2>4. x.op = "block" /\ x.at \in Nat
    BY <2>1, <2>2, <2>3, ItemThere
  <2>5. q = p + 1 /\ x.at = BlockOf(i, p) /\ ~Hole(i, p)
    BY <2>3, <2>4 DEF Covers
  <2> DEFINE v == Append(visited, x.at)
  <2>6. Blocks(i) \in Nat
    BY <2>3, Fits
  <2>7. visited \in Seq(Int) /\ Len(visited) \in Nat /\ Len(visited) <= Blocks(i) /\ l = Blocks(i) - Len(visited)
        /\ Len(visited) <= p /\ l # 0
    BY <2>1, <2>3 DEF ListedTo
  <2>8. /\ v \in Seq(Int) /\ Len(v) = Len(visited) + 1 /\ v[Len(visited) + 1] = x.at
        /\ \A n \in 1 .. Len(visited) : v[n] = visited[n]
    BY <2>4, <2>7
  <2>9. ToSet(visited) \subseteq ToSet(v) /\ x.at \in ToSet(v)
    <3>1. DOMAIN v = 1 .. Len(visited) + 1 /\ DOMAIN visited = 1 .. Len(visited)
      BY <2>7, <2>8
    <3> HIDE DEF v
    <3> QED
      BY <2>7, <2>8, <3>1 DEF ToSet
  <2> HIDE DEF v
  <2>10. ListedTo(i, l - 1, p + 1, v)
    <3>1. ASSUME NEW n \in 0 .. Blocks(i) - 1, l - 1 = 0 \/ n < p + 1, ~Hole(i, n)
          PROVE  BlockOf(i, n) \in ToSet(v)
      <4>1. n < p \/ n = p
        BY <2>3, <2>6, <2>7, <3>1
      <4>2. CASE n = p
        BY <2>5, <2>9, <4>2
      <4>3. CASE n < p
        BY <2>3, <2>9, <3>1, <4>3 DEF ListedTo
      <4> QED
        BY <4>1, <4>2, <4>3
    <3>2. ASSUME NoHoles(i)
          PROVE  Len(v) = p + 1 /\ \A n \in 1 .. Len(v) : v[n] = BlockOf(i, n - 1)
      <4>1. Len(visited) = p /\ \A n \in 1 .. Len(visited) : visited[n] = BlockOf(i, n - 1)
        BY <2>3, <2>7, <3>2 DEF ListedTo
      <4>2. ASSUME NEW n \in 1 .. Len(v) PROVE v[n] = BlockOf(i, n - 1)
        <5>1. n \in 1 .. Len(visited) \/ n = Len(visited) + 1
          BY <2>7, <2>8
        <5>2. CASE n = Len(visited) + 1
          <6>1. n - 1 = p
            BY <2>3, <4>1, <5>2
          <6> QED
            BY <2>5, <2>8, <5>2, <6>1
        <5> QED
          BY <2>8, <4>1, <5>1, <5>2
      <4> QED
        BY <2>8, <4>1, <4>2
    <3>3. Len(v) <= Blocks(i) /\ l - 1 = Blocks(i) - Len(v) /\ Len(v) <= p + 1
      BY <2>3, <2>6, <2>7, <2>8
    <3> QED
      BY <2>8, <3>1, <3>2, <3>3 DEF ListedTo
  <2>11. Len(stack') = 1 /\ stack'[1].ip = i /\ stack'[1].todo = rest /\ stack'[1].left = l - 1
    <3>1. stack[1] \in FrameOf(disk) /\ stack \in Seq(FrameOf(disk)) /\ 1 \in DOMAIN stack
      BY <2>3, OnlyFrame
    <3>2. stack' = [stack EXCEPT ![1] = [ip |-> stack[1].ip, left |-> l - 1, todo |-> rest]]
      <4>1. [[stack[1] EXCEPT !.todo = Tail(@)] EXCEPT !.left = @ - 1]
              = [ip |-> stack[1].ip, left |-> stack[1].left - 1, todo |-> Tail(stack[1].todo)]
        <5> DEFINE new == Tail(stack[1].todo)
                   less == stack[1].left - 1
        <5> HIDE DEF new, less
        <5>1. [stack[1] EXCEPT !.todo = new] = [ip |-> stack[1].ip, left |-> stack[1].left, todo |-> new]
          BY <3>1, FrameFields
        <5>2. [[ip |-> stack[1].ip, left |-> stack[1].left, todo |-> new] EXCEPT !.left = less]
                = [ip |-> stack[1].ip, left |-> less, todo |-> new]
          OBVIOUS
        <5>3. [[stack[1] EXCEPT !.todo = new] EXCEPT !.left = less] = [ip |-> stack[1].ip, left |-> less, todo |-> new]
          BY <5>1, <5>2
        <5>4. [stack[1] EXCEPT !.todo = new].left = stack[1].left
          BY <5>1
        <5> QED
          BY <5>3, <5>4 DEF new, less
      <4>2. stack' = [stack EXCEPT ![1] = [[stack[1] EXCEPT !.todo = Tail(@)] EXCEPT !.left = @ - 1]]
        BY <2>1, <2>3, <3>1
      <4> QED
        BY <2>3, <4>1, <4>2
    <3> QED
      BY <2>3, <3>1, <3>2, OnlyChanges
  <2>12. EOF_reached' = (l - 1 = 0)
    <3>1. (l - 1 = 0) <=> (l = 1)
      BY <2>6, <2>7
    <3> QED
      BY <2>1, <2>3, <3>1
  <2> QED
    BY <2>1, <2>3, <2>5, <2>10, <2>11, <2>12, SameList DEF v
<1> QED
  BY <1>1, <1>2

LEMMA Joined ==
  ASSUME NEW S, NEW u \in S, NEW v \in S
  PROVE  <<u>> \in Seq(S) /\ <<v>> \in Seq(S) /\ <<u>> \o <<v>> = <<u, v>>
<1>1. \A x, y \in Seq(S) : /\ x \o y \in Seq(S) /\ Len(x \o y) = Len(x) + Len(y)
                           /\ \A k \in 1 .. Len(x) : (x \o y)[k] = x[k]
                           /\ \A k \in 1 .. Len(y) : (x \o y)[Len(x) + k] = y[k]
  OBVIOUS
<1> DEFINE a == <<u>>
           c == <<v>>
<1>2. a \in Seq(S) /\ c \in Seq(S) /\ Len(a) = 1 /\ Len(c) = 1 /\ a[1] = u /\ c[1] = v
  OBVIOUS
<1>3. <<u, v>> \in Seq(S) /\ Len(<<u, v>>) = 2 /\ <<u, v>>[1] = u /\ <<u, v>>[2] = v
  OBVIOUS
<1> HIDE DEF a, c
<1>4. a \o c \in Seq(S) /\ Len(a \o c) = 2 /\ (a \o c)[1] = u /\ (a \o c)[2] = v
  <2>1. 1 \in 1 .. 1 /\ 1 + 1 = 2
    OBVIOUS
  <2> QED
    BY <1>1, <1>2, <2>1
<1>5. \A s, t \in Seq(S) : Len(s) = 2 /\ Len(t) = 2 /\ s[1] = t[1] /\ s[2] = t[2] => s = t
  OBVIOUS
<1> QED
  BY <1>2, <1>3, <1>4, <1>5 DEF a, c

\* An inode's zones, in the order of the file.
LEMMA LaidFrame ==
  ASSUME disk \in Disks, NEW i \in DOMAIN disk.inode
  PROVE  Laid(i, Frame(i, "zone").todo, 0, Room)
<1> DEFINE b == blocksPerZone
           N == NINDIRS
           D == NDZONES
           zs == Zone(i)
           direct == Items("zone", SubSeq(zs, 1, D))
           one == [op |-> "single", at |-> zs[D + 1]]
           two == [op |-> "double", at |-> zs[D + 2]]
<1>1. b \in Nat \ {0} /\ N \in Nat \ {0} /\ D \in Nat \ {0} /\ N * N \in Nat
  BY Powers, ZoneCounts, Sizes
<1>2. zs \in Seq(Nat) /\ Len(zs) = D + 2
  <2>1. InodeSound(disk, i)
    BY SoundDisk
  <2> QED
    BY <2>1 DEF InodeSound, Zone
<1>3. \A n \in 0 .. D - 1 : ZoneOf(i, n) = zs[n + 1]
  <2>1. \A n \in 0 .. D - 1 : n - D < 0
    BY <1>1
  <2> QED
    BY <2>1 DEF ZoneOf
<1>4. \A j \in 0 .. N - 1 : ZoneOf(i, D + j) = Entry(zs[D + 1], j)
  <2> TAKE j \in 0 .. N - 1
  <2>1. (D + j) - D = j /\ ~(j < 0) /\ j - N < 0
    BY <1>1
  <2> QED
    BY <2>1 DEF ZoneOf
<1>5. \A j \in 0 .. N * N - 1 : ZoneOf(i, (D + N) + j) = Entry(Entry(zs[D + 2], j \div N), j % N)
  <2> TAKE j \in 0 .. N * N - 1
  <2>1. ((D + N) + j) - D = N + j /\ ~(N + j < 0) /\ (N + j) - N = j /\ ~(j < 0)
    BY <1>1
  <2> QED
    BY <2>1 DEF ZoneOf
<1>6. Frame(i, "zone").todo = direct \o <<one, two>>
  BY DEF Frame
<1>7. Room = (D + N + N * N) * b
  BY DEF Room, MaxZones
<1>8. ZonesOf("zone") = 1 /\ ZonesOf("single") = N /\ ZonesOf("double") = N * N
  BY DEF ZonesOf
<1> HIDE DEF b, N, D, zs
<1>9. direct \in Seq(Item) /\ Len(direct) = D /\ \A k \in 1 .. D : direct[k] = [op |-> "zone", at |-> zs[k]]
  <2> DEFINE s == SubSeq(zs, 1, D)
  <2>1. s \in Seq(Nat) /\ Len(s) = D /\ \A k \in 1 .. D : s[k] = zs[k]
    BY <1>1, <1>2
  <2> HIDE DEF s
  <2>2. DOMAIN s = 1 .. D /\ \A k \in 1 .. D : s[k] \in Nat
    BY <2>1
  <2>3. Items("zone", s) = [k \in 1 .. D |-> [op |-> "zone", at |-> zs[k]]]
    BY <2>1, <2>2 DEF Items
  <2>4. \A k \in 1 .. D : [op |-> "zone", at |-> zs[k]] \in Item
    BY <2>1, <2>2 DEF Item, Ops
  <2> QED
    BY <1>1, <2>3, <2>4 DEF s
<1>10. one \in Item /\ two \in Item
  <2>1. D + 1 \in 1 .. D + 2 /\ D + 2 \in 1 .. D + 2
    BY <1>1
  <2> QED
    BY <1>2, <2>1 DEF Item, Ops
<1>11. one.op = "single" /\ one.at = zs[D + 1] /\ two.op = "double" /\ two.at = zs[D + 2]
  OBVIOUS
<1> HIDE DEF direct, one, two
<1>12. ASSUME NEW k \in 1 .. D PROVE Covers(i, direct[k], 0 + (k - 1) * b, 0 + k * b)
  <2>1. k - 1 \in Nat /\ k - 1 \in 0 .. D - 1 /\ (k - 1) + 1 = k
    BY <1>1
  <2>2. 0 + (k - 1) * b = (k - 1) * b /\ 0 + k * b = ((k - 1) + 1) * b
    <3>1. \A u \in Int : 0 + u = u
      OBVIOUS
    <3>2. (k - 1) * b \in Int /\ k * b \in Int
      BY <1>1, <2>1
    <3> QED
      BY <2>1, <3>1, <3>2
  <2>3. direct[k].op = "zone" /\ direct[k].at = zs[k]
    BY <1>9
  <2>4. \A j \in 0 .. 1 - 1 : ZoneOf(i, (k - 1) + j) = Reached("zone", zs[k], j)
    <3>1. \A j \in 0 .. 1 - 1 : (k - 1) + j = k - 1
      BY <2>1
    <3> QED
      BY <1>3, <2>1, <3>1 DEF Reached
  <2> QED
    BY <1>8, <2>1, <2>2, <2>3, <2>4 DEF Covers, b
<1>13. Laid(i, direct, 0, D * b)
  <2>1. Laid(i, direct, 0, 0 + Len(direct) * b)
    BY <1>1, <1>9, <1>12, LaidEven
  <2>2. 0 + Len(direct) * b = D * b
    <3>1. D * b \in Int
      BY <1>1
    <3> QED
      BY <1>9, <3>1
  <2> QED
    BY <2>1, <2>2
<1>14. D * b \in Nat /\ (D + N) * b \in Nat /\ ((D + N) + N * N) * b \in Nat
  <2>1. D + N \in Nat /\ (D + N) + N * N \in Nat
    BY <1>1
  <2>2. \A u, v \in Nat : u * v \in Nat
    OBVIOUS
  <2> QED
    BY <1>1, <2>1, <2>2
<1>15. Laid(i, <<one>>, D * b, (D + N) * b)
  <2>1. \A j \in 0 .. N - 1 : ZoneOf(i, D + j) = Reached("single", zs[D + 1], j)
    BY <1>4 DEF Reached
  <2>2. Covers(i, one, D * b, (D + N) * b)
    BY <1>1, <1>8, <1>11, <2>1 DEF Covers, b
  <2> QED
    BY <1>14, <2>2, LaidOne
<1>16. Laid(i, <<two>>, (D + N) * b, ((D + N) + N * N) * b)
  <2>1. \A j \in 0 .. N * N - 1 : ZoneOf(i, (D + N) + j) = Reached("double", zs[D + 2], j)
    <3>1. \A z, j : Reached("double", z, j) = Entry(Entry(z, j \div NINDIRS), j % NINDIRS)
      BY DEF Reached
    <3>2. \A z, j : Reached("double", z, j) = Entry(Entry(z, j \div N), j % N)
      BY <3>1 DEF N
    <3> QED
      BY <1>5, <3>2
  <2>2. D + N \in Nat
    BY <1>1
  <2>3. Covers(i, two, (D + N) * b, ((D + N) + N * N) * b)
    BY <1>8, <1>11, <2>1, <2>2 DEF Covers, b
  <2> QED
    BY <1>14, <2>3, LaidOne
<1>17. Laid(i, <<one, two>>, D * b, ((D + N) + N * N) * b)
  <2>1. <<one>> \in Seq(Item) /\ <<two>> \in Seq(Item) /\ <<one>> \o <<two>> = <<one, two>>
    BY <1>10, Joined
  <2> QED
    BY <1>15, <1>16, <2>1, LaidJoin
<1>18. Laid(i, direct \o <<one, two>>, 0, ((D + N) + N * N) * b)
  <2>1. <<one, two>> \in Seq(Item)
    BY <1>10
  <2> QED
    BY <1>9, <1>13, <1>17, <2>1, LaidJoin
<1> QED
  BY <1>6, <1>7, <1>18

LEMMA ListStarts ==
  ASSUME FsInv, Send, req' = "blocks"
  PROVE  ListInv'
<1> DEFINE i == job.ip
<1>1. /\ disk \in Disks /\ disk' = disk /\ stack' = <<Frame(i, "zone")>> /\ EOF_reached' = (Blocks(i) = 0)
      /\ visited' = <<>> /\ i \in DOMAIN disk.inode
  <2>1. fs_get_inode_blocks(i)
    BY DEF Send, fs_get_int_frag, fs_getfrag
  <2>2. job # NoJob
    BY DEF Send, NoJob
  <2> QED
    BY <2>1, <2>2 DEF fs_get_inode_blocks, FsInv, JobOK
<1> HIDE DEF i
<1>2. Blocks(i) \in Nat
  BY <1>1, Fits
<1>3. Frame(i, "zone").ip = i /\ Frame(i, "zone").left = Blocks(i)
  BY DEF Frame
<1> DEFINE f == Frame(i, "zone")
<1> HIDE DEF f
<1>4. Len(stack') = 1 /\ stack'[1] = f /\ f.ip = i /\ f.left = Blocks(i)
  BY <1>1, <1>3 DEF f
<1>5. Laid(i, f.todo, 0, Room)
  BY <1>1, LaidFrame DEF f
<1>6. ListedTo(i, Blocks(i), 0, <<>>)
  <2>1. <<>> \in Seq(Int) /\ Len(<<>>) = 0
    OBVIOUS
  <2>2. Blocks(i) = Blocks(i) - 0 /\ 0 <= Blocks(i)
    BY <1>2
  <2>3. \A n \in 0 .. Blocks(i) - 1 : ~(Blocks(i) = 0 \/ n < 0)
    BY <1>2
  <2>4. \A n \in 1 .. 0 : FALSE
    OBVIOUS
  <2> QED
    BY <2>1, <2>2, <2>3, <2>4 DEF ListedTo
<1> QED
  BY <1>1, <1>4, <1>5, <1>6, SameList

LEMMA ListEnds ==
  ASSUME FsInv, ListInv, req = "blocks", Top.todo = <<>>
  PROVE  LET i == stack[1].ip
             blocks == {n \in 0 .. Blocks(i) - 1 : ~Hole(i, n)}
         IN  /\ {BlockOf(i, n) : n \in blocks} \subseteq ToSet(visited)
             /\ NoHoles(i) => visited = [n \in 1 .. Blocks(i) |-> BlockOf(i, n - 1)]
<1> DEFINE i == stack[1].ip
           l == stack[1].left
<1>1. disk \in Disks /\ Top = stack[1] /\ i \in DOMAIN disk.inode
  BY OnlyFrame
<1>2. PICK p \in Nat : Laid(i, <<>>, p, Room) /\ ListedTo(i, l, p, visited)
  BY <1>1 DEF ListInv
<1>3. Blocks(i) \in Nat /\ Room \in Nat /\ Blocks(i) <= Room
  BY <1>1, Fits
<1> HIDE DEF i, l
<1>4. p = Room
  BY <1>2, LaidEnd
<1>5. /\ visited \in Seq(Int) /\ Len(visited) \in Nat /\ Len(visited) <= Blocks(i) /\ l = Blocks(i) - Len(visited)
  BY <1>2 DEF ListedTo
<1>6. ASSUME NEW n \in 0 .. Blocks(i) - 1, ~Hole(i, n) PROVE BlockOf(i, n) \in ToSet(visited)
  <2>1. n < p
    BY <1>3, <1>4
  <2> QED
    BY <1>2, <1>6, <2>1 DEF ListedTo
<1>7. ASSUME NoHoles(i) PROVE visited = [n \in 1 .. Blocks(i) |-> BlockOf(i, n - 1)]
  <2>1. l = 0 \/ Len(visited) = p
    BY <1>2, <1>7 DEF ListedTo
  <2>2. Len(visited) = Blocks(i)
    BY <1>3, <1>4, <1>5, <2>1
  <2>3. \A n \in 1 .. Blocks(i) : visited[n] = BlockOf(i, n - 1)
    BY <1>2, <1>7, <2>2 DEF ListedTo
  <2>4. visited = [n \in 1 .. Len(visited) |-> visited[n]]
    BY <1>5
  <2> QED
    BY <2>2, <2>3, <2>4
<1> QED
  BY <1>6, <1>7 DEF i

LEMMA ListStep == FsInv /\ ListInv /\ [ToolNext]_toolVars => ListInv'
<1> SUFFICES ASSUME FsInv, ListInv, [ToolNext]_toolVars, req' = "blocks" PROVE ListInv'
  BY DEF ListInv
<1>1. CASE UNCHANGED mfsVars
  BY <1>1, ListSame DEF mfsVars, listVars
<1>2. CASE Send
  BY <1>2, ListStarts
<1>3. ASSUME MfsGoesOn PROVE req = "blocks"
  BY <1>3 DEF MfsGoesOn, MfsStep, Skip, PutIndirect, WalkZone, Indirect, ListBlock, MeasureDir, DirBlock, Descend,
              DirBlockDone, Ascend, Panics, ScanBit, ScanBlockEnds, ScanReports
<1>4. ASSUME MfsGoesOn, Top.todo # <<>>, Head(Top.todo).op \in {"direct", "entry", "done"} PROVE FALSE
  <2>1. PICK i, l, x, rest, p, q : ListState(i, l, x, rest, p, q)
    BY <1>3, <1>4, NextItem
  <2>2. Head(Top.todo) = x
    BY <2>1 DEF ListState
  <2> QED
    BY <1>3, <1>4, <2>1, <2>2, ItemThere
<1>5. CASE MfsGoesOn
  <2>1. CASE Skip
    BY <1>3, <1>5, <2>1, ListSkips
  <2>2. CASE Indirect
    BY <1>3, <1>5, <2>2, ListIndirect
  <2>3. CASE PutIndirect
    BY <1>3, <1>5, <2>3, ListPuts
  <2>4. CASE WalkZone
    BY <1>3, <1>5, <2>4, ListZone
  <2>5. CASE ListBlock
    BY <1>3, <1>5, <2>5, ListVisits
  <2>6. CASE MeasureDir \/ Descend \/ DirBlockDone
    BY <1>4, <1>5, <2>6 DEF MeasureDir, Descend, DirBlockDone, At
  <2>7. CASE DirBlock
    BY <1>3, <1>5, <2>7 DEF DirBlock
  <2>8. CASE Ascend
    <3>1. Len(stack) = 1
      BY <1>3, <1>5 DEF ListInv
    <3> QED
      BY <2>8, <3>1 DEF Ascend
  <2>9. CASE ScanBit \/ ScanBlockEnds \/ ScanReports
    BY <1>3, <1>5, <2>9 DEF ScanBit, ScanBlockEnds, ScanReports
  <2> QED
    BY <1>5, <2>1, <2>2, <2>3, <2>4, <2>5, <2>6, <2>7, <2>8, <2>9 DEF MfsGoesOn, MfsStep
<1> QED
  BY <1>1, <1>2, <1>5, MfsMoves

LEMMA BlocksEnd ==
  ASSUME [ToolNext]_toolVars, req = "blocks", req' = "idle"
  PROVE  Top.todo = <<>>
<1>1. ~UNCHANGED mfsVars /\ ~Send
  BY DEF mfsVars, Send
<1>2. MfsGoesOn
  BY <1>1, MfsMoves
<1> QED
  BY <1>2 DEF MfsGoesOn, MfsStep, Skip, PutIndirect, WalkZone, Indirect, ListBlock, MeasureDir, DirBlock, Descend,
              DirBlockDone, Ascend, Panics, ScanBit, ScanBlockEnds, ScanReports

(* Whatever zones a file has - direct, single and double indirect, with    *)
(* holes anywhere and zones of any number of blocks - its list has every   *)
(* block of it when it ends, and without holes it is the blocks of the     *)
(* file in their order (fs_get_inode_blocks, get_dir_zone and the indirect *)
(* ones).                                                                  *)
THEOREM FilesAreListed == ToolSpec => ListsTheFile
<1>1. ToolInit => FsInv /\ ListInv
  BY FsInit DEF ListInv, ToolInit, Init, MfsInit
<1>2. (FsInv /\ ListInv) /\ [ToolNext]_toolVars => (FsInv /\ ListInv)'
  BY FsStep, ListStep
<1>3. (FsInv /\ ListInv) /\ [ToolNext]_toolVars =>
        [req = "blocks" /\ req' = "idle" =>
           LET i == stack[1].ip
               blocks == {n \in 0 .. Blocks(i) - 1 : ~Hole(i, n)}
           IN  /\ {BlockOf(i, n) : n \in blocks} \subseteq ToSet(visited)
               /\ NoHoles(i) => visited = [n \in 1 .. Blocks(i) |-> BlockOf(i, n - 1)]]_mfsVars
  BY ListEnds, BlocksEnd
<1> QED
  BY <1>1, <1>2, <1>3, PTL DEF ToolSpec, ListsTheFile

-----------------------------------------------------------------------------
(* A tree that is plain - directories of one block, nothing named twice -  *)
(* is measured whole.  M is what has been measured: it is what has been    *)
(* reached, and whatever an inode of M names is in M, or still to be read  *)
(* by the one frame of that inode (TreeWalk).  The statistics are those of *)
(* M, but for a directory whose blocks are added and itself is not.        *)

\* The frame of a directory of one block: before the block is read, and after.
Past == {"direct", "zone", "block", "single", "double"}
FirstBlock(d) == Zone(d)[1] * 2 ^ (Scale + 0)
Unread(f) == /\ f.left = 1 /\ f.todo # <<>>
             /\ \/ f.todo[1].op \in {"direct", "zone"} /\ f.todo[1].at = Zone(f.ip)[1]
                \/ f.todo[1].op = "block" /\ f.todo[1].at = FirstBlock(f.ip)
             /\ \A t \in 2 .. Len(f.todo) : f.todo[t].op \in Past
InBlock(f) == /\ f.left = 1
           /\ \E m \in DOMAIN f.todo : /\ f.todo[m].op = "done"
                                       /\ \A t \in 1 .. m - 1 : f.todo[t].op = "entry"
                                       /\ \A t \in m + 1 .. Len(f.todo) : f.todo[t].op \in Past
Ended(f) == f.left = 0 /\ \A t \in DOMAIN f.todo : f.todo[t].op \in Past
Uncounted(f) == Unread(f) /\ f.todo[1].op = "direct"

\* A frame whose first item is done, and one whose block comes nearer by it.
Stepped(f, items, l) == [ip |-> f.ip, left |-> l, todo |-> items \o Tail(f.todo)]
Nearer(f, items) == /\ items \in Seq(Item) /\ items # <<>> /\ \A t \in 2 .. Len(items) : items[t].op \in Past
                    /\ \/ items[1].op \in {"direct", "zone"} /\ items[1].at = Zone(f.ip)[1]
                       \/ items[1].op = "block" /\ items[1].at = FirstBlock(f.ip)

\* What is still to be measured of what a frame's inode names.
Waits(f, t) == f.todo[t].op = "entry" /\ f.todo[t].at # 0
Waiting(f) == {f.todo[t].at : t \in {u \in DOMAIN f.todo : Waits(f, u)}}
Rest(f) == IF Unread(f) THEN Names(f.ip) ELSE Waiting(f)

FrameOK(f, M) == /\ f.ip \in M
                 /\ IF disk.inode[f.ip].dir THEN Unread(f) \/ InBlock(f) \/ Ended(f) ELSE f.todo = <<>>
                 /\ Rest(f) \subseteq Names(f.ip) \ M
                 /\ \A t, u \in DOMAIN f.todo : Waits(f, t) /\ Waits(f, u) /\ f.todo[t].at = f.todo[u].at => t = u

\* The statistics when the inodes of M are measured, and those of C are entries.
Wasted == [i \in DOMAIN disk.inode |-> FragVal(i)]
Taken == [i \in DOMAIN disk.inode |-> Blocks(i)]
Dirs == {i \in DOMAIN disk.inode : disk.inode[i].dir}
WastedBy(C) == {Wasted[i] : i \in C}
InBin(b) == {i \in DOMAIN disk.inode : Bin(Wasted[i]) = b}
Binned(C) == [b \in 0 .. NUM_FRAG_BINS - 1 |-> Cardinality(C \cap InBin(b))]
Stats(M, C) == [entries |-> Cardinality(C), dirs |-> Cardinality(M \cap Dirs),
                total |-> SumOver(Wasted, C), blocks |-> SumOver(Taken, M),
                min |-> IF C = {} THEN BLOCK_SIZE ELSE Min(WastedBy(C)),
                max |-> IF C = {} THEN 0 ELSE Max(WastedBy(C)),
                bin |-> Binned(C)]

\* A walk s with the statistics st that has measured M.
TreeWalk(s, st, M) ==
  /\ M \subseteq Under(s[1].ip) /\ IsFiniteSet(M) /\ s[1].ip \in M
  /\ \A n \in DOMAIN s : FrameOK(s[n], M)
  /\ \A n, k \in DOMAIN s : s[n].ip = s[k].ip => n = k
  /\ \A n \in DOMAIN s : Unread(s[n]) => n = Len(s)
  /\ \A m \in M \ {s[1].ip} : \E p \in M \ {m} : m \in Names(p)
  /\ \A p \in M : \A x \in Names(p) : x \in M \/ \E n \in DOMAIN s : s[n].ip = p /\ x \in Rest(s[n])
  /\ st = Stats(M, IF Uncounted(s[Len(s)]) THEN M \ {s[Len(s)].ip} ELSE M)

TreeInv == req = "frag" /\ mfs = "up" /\ PlainTree(stack[1].ip) =>
             \E M \in SUBSET DOMAIN disk.inode : TreeWalk(stack, stat, M)

\* A directory of one block: what it names is in that block.
LEMMA OneBlock ==
  ASSUME disk \in Disks, NEW d \in DOMAIN disk.inode, disk.inode[d].dir, Blocks(d) = 1, ~Hole(d, 0)
  PROVE  /\ Zone(d)[1] # NO_ZONE /\ FirstBlock(d) \in DOMAIN disk.entries
         /\ Slots(d) = disk.entries[FirstBlock(d)] /\ Slots(d) \in Seq((DOMAIN disk.inode \cap Nat) \cup {0})
         /\ Names(d) \subseteq DOMAIN disk.inode
<1> DEFINE V == (DOMAIN disk.inode \cap Nat) \cup {0}
           z == Zone(d)[1]
           b == FirstBlock(d)
<1>1. Scale \in Nat /\ blocksPerZone \in Nat \ {0} /\ NDZONES \in Nat \ {0}
  BY Powers, Sizes
<1>2. z \in Nat /\ ZoneSound(disk, d, z)
  <2>1. InodeSound(disk, d)
    BY SoundDisk
  <2> QED
    BY <1>1, <2>1 DEF InodeSound, Zone
<1>3. ZoneOf(d, 0) = z
  <2>1. 0 - NDZONES < 0 /\ 0 + 1 = 1
    BY <1>1
  <2> QED
    BY <2>1 DEF ZoneOf
<1>4. 0 \div blocksPerZone = 0 /\ 0 % blocksPerZone = 0
  BY <1>1, DivMod, 0 \in Nat, 0 \in 0 .. blocksPerZone - 1, 0 * blocksPerZone + 0 = 0
<1>5. z # NO_ZONE
  BY <1>3, <1>4 DEF Hole
<1>6. Scale + 0 = Scale
  BY <1>1
<1>7. b \in DOMAIN disk.entries
  <2>1. 0 \in 0 .. 2 ^ disk.log_zone_size - 1
    BY <1>1 DEF blocksPerZone, Scale
  <2>2. z * 2 ^ (disk.log_zone_size + 0) \in DOMAIN disk.entries
    BY <1>2, <1>5, <2>1 DEF ZoneSound, NO_ZONE
  <2> QED
    BY <2>2 DEF FirstBlock, Scale
<1>8. b = BlockOf(d, 0)
  <2>1. BlockOf(d, 0) = z * blocksPerZone + 0
    BY <1>3, <1>4 DEF BlockOf
  <2>2. b = z * blocksPerZone
    BY <1>6 DEF FirstBlock, blocksPerZone
  <2>3. z * blocksPerZone \in Nat
    BY <1>1, <1>2
  <2> QED
    BY <2>1, <2>2, <2>3
<1>9. disk.entries[b] \in Seq(V)
  BY <1>7, SoundDisk
<1>10. Slots(d) = disk.entries[b]
  <2> DEFINE x == disk.entries[b]
             e == [n \in 1 .. Blocks(d) |-> disk.entries[BlockOf(d, n - 1)]]
  <2>1. e = <<x>>
    <3>1. e = [n \in 1 .. 1 |-> disk.entries[BlockOf(d, n - 1)]]
      OBVIOUS
    <3>2. \A n \in 1 .. 1 : disk.entries[BlockOf(d, n - 1)] = x
      BY <1>8
    <3> QED
      BY <3>1, <3>2
  <2>2. <<>> \in Seq(Seq(V)) /\ x \in Seq(V)
    BY <1>9
  <2> HIDE DEF x, e, V
  <2>3. FlattenSeq(Append(<<>>, x)) = FlattenSeq(<<>>) \o x
    BY <2>2, FlattenAppend
  <2>4. FlattenSeq(<<>>) = <<>>
    BY DEF FlattenSeq
  <2>5. Append(<<>>, x) = <<x>> /\ <<>> \o x = x
    BY <2>2
  <2>6. FlattenSeq(e) = x
    BY <2>1, <2>3, <2>4, <2>5
  <2> QED
    BY <2>6 DEF Slots, e, x
<1>11. Names(d) \subseteq DOMAIN disk.inode
  <2>1. \A k \in 3 .. Len(Slots(d)) : Slots(d)[k] \in V
    BY <1>9, <1>10
  <2>2. \A k \in Entered(d) : Slots(d)[k] \in V /\ Slots(d)[k] # 0
    BY <2>1 DEF Entered
  <2> QED
    BY <2>2 DEF Names
<1> QED
  BY <1>5, <1>7, <1>9, <1>10, <1>11

\* A plain tree.
LEMMA TreeFacts ==
  ASSUME disk \in Disks, NEW i \in DOMAIN disk.inode, PlainTree(i)
  PROVE  /\ i \in Under(i) /\ Under(i) \subseteq DOMAIN disk.inode
         /\ \A d \in Under(i) : /\ Names(d) \subseteq Under(i)
                                /\ ~disk.inode[d].dir => Names(d) = {}
                                /\ i \notin Names(d) /\ ROOT_INODE \notin Names(d)
         /\ \A S \in SUBSET DOMAIN disk.inode : i \in S /\ Closed(S) => Under(i) \subseteq S
<1>1. i \in Under(i) /\ Under(i) \subseteq DOMAIN disk.inode
  BY DEF Under
<1>2. \A S \in SUBSET DOMAIN disk.inode : i \in S /\ Closed(S) => Under(i) \subseteq S
  BY DEF Under
<1>3. ASSUME NEW d \in Under(i)
      PROVE  Names(d) \subseteq Under(i) /\ (~disk.inode[d].dir => Names(d) = {})
             /\ i \notin Names(d) /\ ROOT_INODE \notin Names(d)
  <2>1. ~disk.inode[d].dir => Names(d) = {}
    BY DEF Names, Entered
  <2>2. Names(d) \subseteq DOMAIN disk.inode
    <3>1. CASE disk.inode[d].dir
      <4>1. Blocks(d) = 1 /\ ~Hole(d, 0)
        BY <3>1 DEF PlainTree
      <4> QED
        BY <1>1, <3>1, <4>1, OneBlock
    <3> QED
      BY <2>1, <3>1
  <2>3. ASSUME NEW x \in Names(d) PROVE x \in Under(i)
    <3>1. x \in DOMAIN disk.inode
      BY <2>2
    <3>2. ASSUME NEW S \in SUBSET DOMAIN disk.inode, i \in S, Closed(S) PROVE x \in S
      <4>1. d \in S
        BY <1>2, <3>2
      <4> QED
        BY <3>2, <4>1 DEF Closed
    <3> QED
      BY <3>1, <3>2 DEF Under
  <2>4. i \notin Names(d) /\ ROOT_INODE \notin Names(d)
    BY DEF PlainTree
  <2> QED
    BY <2>1, <2>3, <2>4
<1> QED
  BY <1>1, <1>2, <1>3

-----------------------------------------------------------------------------
(* The statistics of one inode more.                                       *)

LEMMA Bins ==
  ASSUME NEW v \in 0 .. BLOCK_SIZE - 1
  PROVE  Bin(v) \in 0 .. NUM_FRAG_BINS - 1
<1>1. BLOCK_SIZE \in Nat \ {0} /\ v * 8 \in Nat /\ 0 * BLOCK_SIZE <= v * 8 /\ v * 8 < 8 * BLOCK_SIZE
  BY Sizes
<1>2. (v * 8) \div BLOCK_SIZE \in 0 .. 8 - 1
  BY <1>1, DivRange
<1> QED
  BY <1>2 DEF Bin, NUM_FRAG_BINS

\* One more, of a kind B or not.
LEMMA OneMoreOf ==
  ASSUME NEW C, IsFiniteSet(C), NEW x, x \notin C, NEW B
  PROVE  /\ IsFiniteSet(C \cap B) /\ Cardinality(C \cap B) \in Nat
         /\ Cardinality((C \cup {x}) \cap B) = IF x \in B THEN Cardinality(C \cap B) + 1 ELSE Cardinality(C \cap B)
<1>1. IsFiniteSet(C \cap B)
  BY FS_Subset
<1>2. CASE x \in B
  <2>1. (C \cup {x}) \cap B = (C \cap B) \cup {x} /\ x \notin C \cap B
    BY <1>2
  <2> QED
    BY <1>1, <1>2, <2>1, FS_AddElement, FS_CardinalityType
<1>3. CASE x \notin B
  <2>1. (C \cup {x}) \cap B = C \cap B
    BY <1>3
  <2> QED
    BY <1>1, <1>3, <2>1, FS_CardinalityType
<1> QED
  BY <1>2, <1>3

\* The least and the greatest of some numbers and one more.
LEMMA LeastOfMore ==
  ASSUME NEW b \in Nat, NEW T, T \subseteq 0 .. b, NEW v \in 0 .. b
  PROVE  Min(T \cup {v}) = Lesser(v, IF T = {} THEN b ELSE Min(T))
<1> DEFINE m == Min(T \cup {v})
           k == Min(T)
<1>1. m \in T \cup {v} /\ \A y \in T \cup {v} : m <= y
  <2>1. T \cup {v} \subseteq Nat /\ T \cup {v} # {}
    OBVIOUS
  <2> QED
    BY <2>1, MinIsLeast
<1>2. T # {} => k \in T /\ \A y \in T : k <= y
  <2>1. T \subseteq Nat
    OBVIOUS
  <2> QED
    BY <2>1, MinIsLeast
<1> HIDE DEF m, k
<1>3. m \in 0 .. b /\ (T # {} => k \in 0 .. b)
  BY <1>1, <1>2
<1>4. CASE T = {}
  <2>1. m = v
    BY <1>1, <1>4
  <2> QED
    BY <1>4, <2>1 DEF Lesser, m
<1>5. CASE T # {}
  <2>1. m <= v /\ m <= k
    BY <1>1, <1>2, <1>5
  <2>2. m = v \/ k <= m
    BY <1>1, <1>2, <1>5
  <2>3. m = IF v < k THEN v ELSE k
    BY <1>3, <1>5, <2>1, <2>2
  <2> QED
    BY <1>5, <2>3 DEF Lesser, m, k
<1> QED
  BY <1>4, <1>5

LEMMA GreatestOfMore ==
  ASSUME NEW b \in Nat, NEW T, T \subseteq 0 .. b, NEW v \in 0 .. b
  PROVE  Max(T \cup {v}) = Greater(v, IF T = {} THEN 0 ELSE Max(T))
<1> DEFINE m == Max(T \cup {v})
           k == Max(T)
<1>1. m \in T \cup {v} /\ \A y \in T \cup {v} : m >= y
  <2>1. T \cup {v} \subseteq Nat /\ T \cup {v} # {} /\ \A y \in T \cup {v} : y <= b
    OBVIOUS
  <2> QED
    BY <2>1, MaxIsGreatest
<1>2. T # {} => k \in T /\ \A y \in T : k >= y
  <2>1. T \subseteq Nat /\ \A y \in T : y <= b
    OBVIOUS
  <2> QED
    BY <2>1, MaxIsGreatest
<1> HIDE DEF m, k
<1>3. m \in 0 .. b /\ (T # {} => k \in 0 .. b)
  BY <1>1, <1>2
<1>4. CASE T = {}
  <2>1. m = v
    BY <1>1, <1>4
  <2> QED
    BY <1>3, <1>4, <2>1 DEF Greater, m
<1>5. CASE T # {}
  <2>1. m >= v /\ m >= k
    BY <1>1, <1>2, <1>5
  <2>2. m = v \/ k >= m
    BY <1>1, <1>2, <1>5
  <2>3. m = IF v > k THEN v ELSE k
    BY <1>3, <1>5, <2>1, <2>2
  <2> QED
    BY <1>5, <2>3 DEF Greater, m, k
<1> QED
  BY <1>4, <1>5

IsStat(s) == s = [entries |-> s.entries, dirs |-> s.dirs, total |-> s.total, blocks |-> s.blocks,
                  min |-> s.min, max |-> s.max, bin |-> s.bin]

LEMMA CountedIs ==
  ASSUME NEW s, IsStat(s), NEW v
  PROVE  Counted(s, v) = [entries |-> s.entries + 1, dirs |-> s.dirs, total |-> s.total + v, blocks |-> s.blocks,
                          min |-> Lesser(v, s.min), max |-> Greater(v, s.max),
                          bin |-> [s.bin EXCEPT ![Bin(v)] = @ + 1]]
<1> DEFINE g == [s.bin EXCEPT ![Bin(v)] = @ + 1]
           m == Lesser(v, s.min)
           x == Greater(v, s.max)
<1>1. Counted(s, v) = [s EXCEPT !.entries = s.entries + 1, !.total = s.total + v, !.min = m, !.max = x, !.bin = g]
  BY DEF Counted
<1> HIDE DEF g, m, x
<1>2. Counted(s, v) = [entries |-> s.entries + 1, dirs |-> s.dirs, total |-> s.total + v, blocks |-> s.blocks,
                       min |-> m, max |-> x, bin |-> g]
  BY <1>1 DEF IsStat
<1> QED
  BY <1>2 DEF g, m, x

LEMMA StatsIs ==
  ASSUME NEW M, NEW C
  PROVE  LET s == Stats(M, C)
         IN  /\ IsStat(s)
             /\ s.entries = Cardinality(C) /\ s.dirs = Cardinality(M \cap Dirs)
             /\ s.total = SumOver(Wasted, C) /\ s.blocks = SumOver(Taken, M)
             /\ s.min = (IF C = {} THEN BLOCK_SIZE ELSE Min(WastedBy(C)))
             /\ s.max = (IF C = {} THEN 0 ELSE Max(WastedBy(C)))
             /\ s.bin = Binned(C)
BY DEF IsStat, Stats

\* An inode is one more entry.
LEMMA OneMoreEntry ==
  ASSUME disk \in Disks, NEW M, NEW C \in SUBSET DOMAIN disk.inode, IsFiniteSet(C),
         NEW x \in DOMAIN disk.inode, x \notin C
  PROVE  Counted(Stats(M, C), FragVal(x)) = Stats(M, C \cup {x})
<1> DEFINE D == C \cup {x}
           v == FragVal(x)
<1>1. \A i \in DOMAIN disk.inode : Wasted[i] = FragVal(i) /\ Wasted[i] \in 0 .. BLOCK_SIZE - 1
  BY FragVals DEF Wasted
<1>2. v = Wasted[x] /\ v \in 0 .. BLOCK_SIZE - 1 /\ BLOCK_SIZE \in Nat \ {0}
  BY <1>1, Sizes
<1> HIDE DEF v
<1>3. WastedBy(D) = WastedBy(C) \cup {v} /\ WastedBy(C) \subseteq 0 .. BLOCK_SIZE - 1
      /\ (C = {} <=> WastedBy(C) = {}) /\ D # {}
  BY <1>1, <1>2 DEF WastedBy
<1>4. Cardinality(D) = Cardinality(C) + 1
  BY FS_AddElement
<1>5. SumOver(Wasted, D) = SumOver(Wasted, C) + v
  <2>1. \A y \in C \cup {x} : Wasted[y] \in Nat
    BY <1>1
  <2> QED
    BY <1>2, <2>1, SumOverAdds
<1>6. Min(WastedBy(D)) = Lesser(v, IF C = {} THEN BLOCK_SIZE ELSE Min(WastedBy(C)))
  <2>1. WastedBy(C) \subseteq 0 .. BLOCK_SIZE /\ v \in 0 .. BLOCK_SIZE /\ BLOCK_SIZE \in Nat
    BY <1>2, <1>3
  <2>2. Min(WastedBy(C) \cup {v}) = Lesser(v, IF WastedBy(C) = {} THEN BLOCK_SIZE ELSE Min(WastedBy(C)))
    BY <2>1, LeastOfMore
  <2> QED
    BY <1>3, <2>2
<1>7. Max(WastedBy(D)) = Greater(v, IF C = {} THEN 0 ELSE Max(WastedBy(C)))
  <2>1. WastedBy(C) \subseteq 0 .. BLOCK_SIZE /\ v \in 0 .. BLOCK_SIZE /\ BLOCK_SIZE \in Nat
    BY <1>2, <1>3
  <2>2. Max(WastedBy(C) \cup {v}) = Greater(v, IF WastedBy(C) = {} THEN 0 ELSE Max(WastedBy(C)))
    BY <2>1, GreatestOfMore
  <2> QED
    BY <1>3, <2>2
<1>8. Binned(D) = [Binned(C) EXCEPT ![Bin(v)] = @ + 1]
  <2>1. Bin(v) \in 0 .. NUM_FRAG_BINS - 1 /\ \A b : x \in InBin(b) <=> b = Bin(v)
    BY <1>2, Bins DEF InBin
  <2>2. \A b : Cardinality(D \cap InBin(b)) = IF b = Bin(v) THEN Cardinality(C \cap InBin(b)) + 1
                                              ELSE Cardinality(C \cap InBin(b))
    <3> TAKE b
    <3>1. Cardinality((C \cup {x}) \cap InBin(b)) = IF x \in InBin(b) THEN Cardinality(C \cap InBin(b)) + 1
                                                    ELSE Cardinality(C \cap InBin(b))
      BY OneMoreOf
    <3> QED
      BY <2>1, <3>1
  <2> HIDE DEF D
  <2> QED
    BY <2>1, <2>2 DEF Binned
<1> HIDE DEF D
<1> DEFINE s == Stats(M, C)
<1>9. /\ IsStat(s) /\ s.entries = Cardinality(C) /\ s.dirs = Cardinality(M \cap Dirs)
      /\ s.total = SumOver(Wasted, C) /\ s.blocks = SumOver(Taken, M) /\ s.bin = Binned(C)
      /\ s.min = (IF C = {} THEN BLOCK_SIZE ELSE Min(WastedBy(C)))
      /\ s.max = (IF C = {} THEN 0 ELSE Max(WastedBy(C)))
  <2>1. s.bin = Binned(C)
    BY StatsIs
  <2>2. IsStat(s) /\ s.entries = Cardinality(C) /\ s.dirs = Cardinality(M \cap Dirs)
    BY StatsIs
  <2>3. s.total = SumOver(Wasted, C) /\ s.blocks = SumOver(Taken, M)
    BY StatsIs
  <2>4. /\ s.min = (IF C = {} THEN BLOCK_SIZE ELSE Min(WastedBy(C)))
        /\ s.max = (IF C = {} THEN 0 ELSE Max(WastedBy(C)))
    BY StatsIs
  <2> QED
    BY <2>1, <2>2, <2>3, <2>4
<1>10. Stats(M, D) = [entries |-> s.entries + 1, dirs |-> s.dirs, total |-> s.total + v, blocks |-> s.blocks,
                      min |-> Lesser(v, s.min), max |-> Greater(v, s.max),
                      bin |-> [s.bin EXCEPT ![Bin(v)] = @ + 1]]
  <2> HIDE DEF s
  <2>1. Stats(M, D) = [entries |-> Cardinality(D), dirs |-> Cardinality(M \cap Dirs),
                       total |-> SumOver(Wasted, D), blocks |-> SumOver(Taken, M),
                       min |-> Min(WastedBy(D)), max |-> Max(WastedBy(D)), bin |-> Binned(D)]
    BY <1>3 DEF Stats
  <2> QED
    BY <1>4, <1>5, <1>6, <1>7, <1>8, <1>9, <2>1
<1> HIDE DEF s
<1>11. Stats(M, D) = Counted(s, v)
  BY <1>9, <1>10, CountedIs
<1> QED
  BY <1>11 DEF s, v, D

LEMMA UsedIs ==
  ASSUME NEW s, IsStat(s), NEW n, NEW used, used = [s EXCEPT !.blocks = @ + n],
         NEW dir, dir = [used EXCEPT !.dirs = @ + 1]
  PROVE  /\ used = [entries |-> s.entries, dirs |-> s.dirs, total |-> s.total, blocks |-> s.blocks + n,
                    min |-> s.min, max |-> s.max, bin |-> s.bin]
         /\ dir = [entries |-> s.entries, dirs |-> s.dirs + 1, total |-> s.total, blocks |-> s.blocks + n,
                   min |-> s.min, max |-> s.max, bin |-> s.bin]
<1>1. used = [entries |-> s.entries, dirs |-> s.dirs, total |-> s.total, blocks |-> s.blocks + n,
              min |-> s.min, max |-> s.max, bin |-> s.bin]
  BY DEF IsStat
<1> QED
  BY <1>1

\* An inode is measured: a file is an entry at once, a directory is one later.
LEMMA OneMoreMeasured ==
  ASSUME disk \in Disks, NEW M \in SUBSET DOMAIN disk.inode, IsFiniteSet(M),
         NEW x \in DOMAIN disk.inode, x \notin M
  PROVE  Measured(Stats(M, M), x) = Stats(M \cup {x}, IF disk.inode[x].dir THEN M ELSE M \cup {x})
<1> DEFINE used == [Stats(M, M) EXCEPT !.blocks = @ + Blocks(x)]
           dir == [used EXCEPT !.dirs = @ + 1]
<1> HIDE DEF used, dir
<1>1. SumOver(Taken, M \cup {x}) = SumOver(Taken, M) + Blocks(x)
  <2>1. \A y \in M \cup {x} : Taken[y] = Blocks(y) /\ Taken[y] \in Nat
    BY BlocksNat DEF Taken
  <2> QED
    BY <2>1, SumOverAdds
<1>2. Cardinality((M \cup {x}) \cap Dirs) = IF x \in Dirs THEN Cardinality(M \cap Dirs) + 1
                                            ELSE Cardinality(M \cap Dirs)
  <2>1. \A B : Cardinality((M \cup {x}) \cap B) = IF x \in B THEN Cardinality(M \cap B) + 1
                                                  ELSE Cardinality(M \cap B)
    BY OneMoreOf
  <2> QED
    BY <2>1
<1> DEFINE s == Stats(M, M)
<1>3. /\ IsStat(s) /\ s.dirs = Cardinality(M \cap Dirs) /\ s.blocks = SumOver(Taken, M)
  BY StatsIs
<1>4. \A N : Stats(N, M) = [entries |-> s.entries, dirs |-> Cardinality(N \cap Dirs), total |-> s.total,
                            blocks |-> SumOver(Taken, N), min |-> s.min, max |-> s.max, bin |-> s.bin]
  BY DEF Stats
<1>5. /\ used = [entries |-> s.entries, dirs |-> s.dirs, total |-> s.total, blocks |-> s.blocks + Blocks(x),
                 min |-> s.min, max |-> s.max, bin |-> s.bin]
      /\ dir = [entries |-> s.entries, dirs |-> s.dirs + 1, total |-> s.total, blocks |-> s.blocks + Blocks(x),
                min |-> s.min, max |-> s.max, bin |-> s.bin]
  <2>1. used = [s EXCEPT !.blocks = @ + Blocks(x)] /\ dir = [used EXCEPT !.dirs = @ + 1]
    BY DEF used, dir
  <2> HIDE DEF s
  <2> QED
    BY <1>3, <2>1, UsedIs
<1> HIDE DEF s
<1>6. x \in Dirs <=> disk.inode[x].dir
  BY DEF Dirs
<1>7. CASE disk.inode[x].dir
  <2>1. dir = Stats(M \cup {x}, M)
    BY <1>1, <1>2, <1>4, <1>5, <1>6, <1>7, <1>3
  <2> QED
    BY <1>7, <2>1 DEF Measured, used, dir, s
<1>8. CASE ~disk.inode[x].dir
  <2>1. used = Stats(M \cup {x}, M)
    BY <1>1, <1>2, <1>4, <1>5, <1>6, <1>8, <1>3
  <2>2. Counted(Stats(M \cup {x}, M), FragVal(x)) = Stats(M \cup {x}, M \cup {x})
    BY OneMoreEntry
  <2> QED
    BY <1>8, <2>1, <2>2 DEF Measured, used, s
<1> QED
  BY <1>7, <1>8

LEMMA NothingCounted == Stats({}, {}) = NoStat
<1>1. Cardinality({}) = 0 /\ \A B : {} \cap B = {}
  BY FS_EmptySet
<1>2. \A g : SumOver(g, {}) = 0
  <2> TAKE g
  <2> DEFINE k == [y \in {} |-> 0]
  <2>1. k \in [{} -> Nat] /\ IsFiniteSet({}) /\ {} \in SUBSET {} /\ \A x \in {} : FALSE
    BY FS_EmptySet
  <2> HIDE DEF k
  <2>2. PICK h \in [SUBSET {} -> Nat] : Sums(h, k, {})
    BY <2>1, SumExists
  <2>3. SumOver(g, {}) = h[{}]
    BY <2>1, <2>2, SumOverIs
  <2>4. h[{}] = 0
    BY <2>1, <2>2, SumAdds
  <2> QED
    BY <2>3, <2>4
<1>3. Binned({}) = [b \in 0 .. NUM_FRAG_BINS - 1 |-> 0]
  BY <1>1 DEF Binned
<1>4. {} \cap Dirs = {}
  OBVIOUS
<1> QED
  BY <1>1, <1>2, <1>3, <1>4 DEF Stats, NoStat

-----------------------------------------------------------------------------
(* The frames of a walk through a plain tree.                              *)

\* The first item is done, with others in front of the rest.
LEMMA Follows ==
  ASSUME NEW todo \in Seq(Item), todo # <<>>, NEW items \in Seq(Item)
  PROVE  LET new == items \o Tail(todo)
         IN  /\ new \in Seq(Item) /\ Len(new) = Len(items) + Len(todo) - 1
             /\ Len(items) \in Nat /\ Len(todo) \in Nat \ {0}
             /\ DOMAIN new = 1 .. Len(new) /\ DOMAIN todo = 1 .. Len(todo) /\ DOMAIN items = 1 .. Len(items)
             /\ \A t \in 1 .. Len(items) : new[t] = items[t]
             /\ \A t \in Len(items) + 1 .. Len(new) : /\ t - Len(items) + 1 \in 2 .. Len(todo)
                                                      /\ new[t] = todo[t - Len(items) + 1]
<1> DEFINE rest == Tail(todo)
           new == items \o rest
<1>1. /\ rest \in Seq(Item) /\ Len(rest) = Len(todo) - 1 /\ Len(todo) \in Nat \ {0} /\ Len(items) \in Nat
      /\ DOMAIN todo = 1 .. Len(todo) /\ DOMAIN items = 1 .. Len(items)
      /\ \A t \in 1 .. Len(todo) - 1 : rest[t] = todo[t + 1]
  OBVIOUS
<1>2. new \in Seq(Item) /\ Len(new) = Len(items) + Len(rest)
  BY <1>1
<1>3. \A k \in 1 .. Len(items) : new[k] = items[k]
  BY <1>1
<1>4. \A k \in 1 .. Len(rest) : new[Len(items) + k] = rest[k]
  BY <1>1
<1> HIDE DEF new, rest
<1>5. ASSUME NEW t \in Len(items) + 1 .. Len(new)
      PROVE  t - Len(items) + 1 \in 2 .. Len(todo) /\ new[t] = todo[t - Len(items) + 1]
  <2> DEFINE k == t - Len(items)
  <2>1. k \in 1 .. Len(rest) /\ Len(items) + k = t /\ k \in 1 .. Len(todo) - 1 /\ k + 1 \in 2 .. Len(todo)
    BY <1>1, <1>2
  <2> HIDE DEF k
  <2>2. new[t] = todo[k + 1]
    BY <1>1, <1>4, <2>1
  <2> QED
    BY <2>1, <2>2 DEF k
<1>6. DOMAIN new = 1 .. Len(new)
  BY <1>2
<1> QED
  BY <1>1, <1>2, <1>3, <1>5, <1>6 DEF new, rest

\* What the first item of a frame says of it.
LEMMA Shapes ==
  ASSUME NEW f, f.todo \in Seq(Item), f.todo # <<>>, disk.inode[f.ip].dir, NEW M, FrameOK(f, M)
  PROVE  LET op == f.todo[1].op
         IN  /\ op # "put" /\ f.left \in {0, 1}
             /\ f.left # 0 => op \notin {"single", "double"}
             /\ op \in {"direct", "zone", "block"} /\ f.left # 0 => Unread(f)
             /\ op \in Past /\ f.left = 0 => Ended(f)
             /\ op \in {"entry", "done"} => InBlock(f) /\ ~Unread(f) /\ f.left = 1
             /\ op = "done" => \A t \in 2 .. Len(f.todo) : f.todo[t].op \in Past
<1>1. Unread(f) \/ InBlock(f) \/ Ended(f)
  BY DEF FrameOK
<1>2. 1 \in DOMAIN f.todo /\ DOMAIN f.todo = 1 .. Len(f.todo) /\ Len(f.todo) \in Nat
  OBVIOUS
<1>3. Unread(f) => f.left = 1 /\ f.todo[1].op \in {"direct", "zone", "block"}
  BY DEF Unread
<1>4. Ended(f) => f.left = 0 /\ f.todo[1].op \in Past
  BY <1>2 DEF Ended
<1>5. ASSUME InBlock(f)
      PROVE  /\ f.left = 1 /\ f.todo[1].op \in {"entry", "done"}
             /\ f.todo[1].op = "done" => \A t \in 2 .. Len(f.todo) : f.todo[t].op \in Past
  <2>1. f.left = 1
    BY <1>5 DEF InBlock
  <2>2. PICK m \in DOMAIN f.todo : /\ f.todo[m].op = "done"
                                   /\ \A t \in 1 .. m - 1 : f.todo[t].op = "entry"
                                   /\ \A t \in m + 1 .. Len(f.todo) : f.todo[t].op \in Past
    BY <1>5 DEF InBlock
  <2>3. CASE m = 1
    BY <2>1, <2>2, <2>3
  <2>4. CASE m # 1
    <3>1. 1 \in 1 .. m - 1
      BY <1>2, <2>4
    <3>2. f.todo[1].op = "entry"
      BY <2>2, <3>1
    <3> QED
      BY <2>1, <3>2
  <2> QED
    BY <2>3, <2>4
<1> QED
  BY <1>1, <1>3, <1>4, <1>5 DEF Past

LEMMA NoWaits ==
  ASSUME NEW f, \A t \in DOMAIN f.todo : f.todo[t].op # "entry"
  PROVE  Waiting(f) = {} /\ \A t \in DOMAIN f.todo : ~Waits(f, t)
BY DEF Waiting, Waits

\* The block of a directory comes nearer.
LEMMA UnreadMoves ==
  ASSUME NEW f, f.todo \in Seq(Item), disk.inode[f.ip].dir, NEW M, FrameOK(f, M), Unread(f),
         NEW items, Nearer(f, items)
  PROVE  LET g == Stepped(f, items, f.left)
         IN  FrameOK(g, M) /\ Unread(g) /\ Rest(g) = Rest(f) /\ g.todo[1] = items[1]
<1> DEFINE g == Stepped(f, items, f.left)
<1>0. /\ items \in Seq(Item) /\ items # <<>> /\ \A t \in 2 .. Len(items) : items[t].op \in Past
      /\ \/ items[1].op \in {"direct", "zone"} /\ items[1].at = Zone(f.ip)[1]
         \/ items[1].op = "block" /\ items[1].at = FirstBlock(f.ip)
  BY DEF Nearer
<1>1. f.todo # <<>> /\ f.left = 1 /\ \A t \in 2 .. Len(f.todo) : f.todo[t].op \in Past
  BY DEF Unread
<1> DEFINE new == items \o Tail(f.todo)
<1>2. /\ new \in Seq(Item) /\ Len(new) = Len(items) + Len(f.todo) - 1
      /\ Len(items) \in Nat /\ Len(f.todo) \in Nat \ {0} /\ DOMAIN new = 1 .. Len(new)
      /\ \A t \in 1 .. Len(items) : new[t] = items[t]
      /\ \A t \in Len(items) + 1 .. Len(new) : /\ t - Len(items) + 1 \in 2 .. Len(f.todo)
                                               /\ new[t] = f.todo[t - Len(items) + 1]
  BY <1>0, <1>1, Follows
<1>3. Len(items) >= 1
  BY <1>0, <1>2
<1>4. g.ip = f.ip /\ g.left = 1 /\ g.todo = new
  BY <1>1 DEF Stepped
<1> HIDE DEF new, g
<1>5. new # <<>> /\ new[1] = items[1]
  <2>1. Len(new) >= 1 /\ Len(<<>>) = 0
    BY <1>2, <1>3
  <2> QED
    BY <1>2, <1>3, <2>1
<1>6. ASSUME NEW t \in 2 .. Len(new) PROVE new[t].op \in Past
  <2>1. CASE t \in 1 .. Len(items)
    BY <1>0, <1>2, <2>1
  <2>2. CASE t \notin 1 .. Len(items)
    <3>1. t \in Len(items) + 1 .. Len(new)
      BY <1>2, <2>2
    <3> QED
      BY <1>1, <1>2, <3>1
  <2> QED
    BY <2>1, <2>2
<1>7. Unread(g)
  BY <1>0, <1>4, <1>5, <1>6 DEF Unread
<1>8. Rest(g) = Rest(f)
  BY <1>4, <1>7 DEF Rest
<1>9. \A t \in DOMAIN g.todo : ~Waits(g, t)
  <2>1. ASSUME NEW t \in DOMAIN g.todo PROVE g.todo[t].op # "entry"
    <3>1. CASE t = 1
      BY <1>0, <1>4, <1>5, <3>1
    <3>2. CASE t # 1
      <4>1. t \in 2 .. Len(new)
        BY <1>2, <1>4, <3>2
      <4> QED
        BY <1>4, <1>6, <4>1 DEF Past
    <3> QED
      BY <3>1, <3>2
  <2> QED
    BY <2>1, NoWaits
<1>10. FrameOK(g, M)
  BY <1>4, <1>7, <1>8, <1>9 DEF FrameOK
<1> QED
  BY <1>4, <1>5, <1>7, <1>8, <1>10 DEF g

\* Nothing of the directory is left.
LEMMA EndedMoves ==
  ASSUME NEW f, NEW M, f.ip \in M, disk.inode[f.ip].dir, f.left = 0, \A t \in DOMAIN f.todo : f.todo[t].op \in Past
  PROVE  FrameOK(f, M) /\ ~Unread(f) /\ Rest(f) = {}
<1>1. \A t \in DOMAIN f.todo : f.todo[t].op # "entry"
  BY DEF Past
<1>2. Waiting(f) = {} /\ \A t \in DOMAIN f.todo : ~Waits(f, t)
  BY <1>1, NoWaits
<1>3. Ended(f) /\ ~Unread(f)
  BY DEF Ended, Unread
<1> QED
  BY <1>2, <1>3 DEF FrameOK, Rest

\* An entry is done.
LEMMA EntryDone ==
  ASSUME NEW f, f.todo \in Seq(Item), f.todo # <<>>, f.todo[1].op = "entry",
         disk.inode[f.ip].dir, NEW M, FrameOK(f, M)
  PROVE  LET g == Stepped(f, <<>>, f.left)
         IN  /\ FrameOK(g, M) /\ ~Unread(g) /\ ~Unread(f)
             /\ Rest(g) = Rest(f) \ {f.todo[1].at}
             /\ f.todo[1].at # 0 => f.todo[1].at \in Rest(f)
<1> DEFINE g == Stepped(f, <<>>, f.left)
<1>1. InBlock(f) /\ ~Unread(f) /\ f.left = 1
  BY Shapes
<1> DEFINE new == Tail(f.todo)
<1>2. /\ new \in Seq(Item) /\ Len(new) = Len(f.todo) - 1 /\ Len(f.todo) \in Nat \ {0}
      /\ DOMAIN new = 1 .. Len(f.todo) - 1 /\ DOMAIN f.todo = 1 .. Len(f.todo)
      /\ \A t \in 1 .. Len(f.todo) - 1 : new[t] = f.todo[t + 1]
  OBVIOUS
<1>3. g.ip = f.ip /\ g.left = 1 /\ g.todo = new
  <2>1. <<>> \o new = new
    BY <1>2
  <2> QED
    BY <1>1, <2>1 DEF Stepped
<1> HIDE DEF new, g
<1>4. InBlock(g)
  <2>1. PICK m \in DOMAIN f.todo : /\ f.todo[m].op = "done"
                                   /\ \A t \in 1 .. m - 1 : f.todo[t].op = "entry"
                                   /\ \A t \in m + 1 .. Len(f.todo) : f.todo[t].op \in Past
    BY <1>1 DEF InBlock
  <2>2. m # 1 /\ m - 1 \in DOMAIN new /\ new[m - 1] = f.todo[m]
    <3>1. m # 1
      BY <2>1
    <3>2. m - 1 \in 1 .. Len(f.todo) - 1 /\ (m - 1) + 1 = m
      BY <1>2, <2>1, <3>1
    <3> QED
      BY <1>2, <3>1, <3>2
  <2>3. ASSUME NEW t \in 1 .. (m - 1) - 1 PROVE new[t].op = "entry"
    <3>1. t \in 1 .. Len(f.todo) - 1 /\ t + 1 \in 1 .. m - 1
      BY <1>2, <2>1
    <3> QED
      BY <1>2, <2>1, <3>1
  <2>4. ASSUME NEW t \in (m - 1) + 1 .. Len(new) PROVE new[t].op \in Past
    <3>1. t \in 1 .. Len(f.todo) - 1 /\ t + 1 \in m + 1 .. Len(f.todo)
      BY <1>2, <2>1
    <3> QED
      BY <1>2, <2>1, <3>1
  <2> DEFINE k == m - 1
  <2>5. /\ k \in DOMAIN g.todo /\ g.todo[k].op = "done"
        /\ \A t \in 1 .. k - 1 : g.todo[t].op = "entry"
        /\ \A t \in k + 1 .. Len(g.todo) : g.todo[t].op \in Past
    BY <1>3, <2>1, <2>2, <2>3, <2>4
  <2> HIDE DEF k
  <2> QED
    BY <1>3, <2>5 DEF InBlock
<1>5. ~Unread(g)
  <2>1. PICK m \in DOMAIN new : new[m].op = "done" /\ \A t \in 1 .. m - 1 : new[t].op = "entry"
    BY <1>3, <1>4 DEF InBlock
  <2>2. m # 1 => 1 \in 1 .. m - 1
    BY <1>2, <2>1
  <2>3. new[1].op \in {"entry", "done"}
    BY <2>1, <2>2
  <2> QED
    BY <1>3, <2>3 DEF Unread
<1>6. ASSUME NEW t \in DOMAIN g.todo
      PROVE  t + 1 \in DOMAIN f.todo /\ t + 1 # 1 /\ g.todo[t] = f.todo[t + 1] /\ (Waits(g, t) <=> Waits(f, t + 1))
  <2>1. t \in 1 .. Len(f.todo) - 1
    BY <1>2, <1>3
  <2>2. t + 1 \in DOMAIN f.todo /\ t + 1 # 1 /\ g.todo[t] = f.todo[t + 1]
    BY <1>2, <1>3, <2>1
  <2> QED
    BY <2>2 DEF Waits
<1>7. ASSUME NEW u \in DOMAIN f.todo, u # 1
      PROVE  \E t \in DOMAIN g.todo : u = t + 1
  <2>1. u - 1 \in 1 .. Len(f.todo) - 1 /\ u = (u - 1) + 1
    BY <1>2, <1>7
  <2> QED
    BY <1>2, <1>3, <2>1
<1>8. \A t, u \in DOMAIN f.todo : Waits(f, t) /\ Waits(f, u) /\ f.todo[t].at = f.todo[u].at => t = u
  BY DEF FrameOK
<1>9. Rest(f) = Waiting(f) /\ Rest(g) = Waiting(g)
  BY <1>1, <1>5 DEF Rest
<1>10. 1 \in DOMAIN f.todo /\ (Waits(f, 1) <=> f.todo[1].at # 0)
  BY <1>2 DEF Waits
<1>11. ASSUME NEW x PROVE x \in Waiting(f) <=> \E u \in DOMAIN f.todo : Waits(f, u) /\ f.todo[u].at = x
  BY DEF Waiting
<1>12. ASSUME NEW x PROVE x \in Waiting(g) <=> \E t \in DOMAIN g.todo : Waits(g, t) /\ g.todo[t].at = x
  BY DEF Waiting
<1>13. ASSUME NEW x \in Waiting(g) PROVE x \in Waiting(f) /\ x # f.todo[1].at
  <2>1. PICK t \in DOMAIN g.todo : Waits(g, t) /\ g.todo[t].at = x
    BY <1>12
  <2>2. t + 1 \in DOMAIN f.todo /\ t + 1 # 1 /\ Waits(f, t + 1) /\ f.todo[t + 1].at = x
    BY <1>6, <2>1
  <2>3. x \in Waiting(f)
    BY <1>11, <2>2
  <2>4. x # 0
    BY <2>2 DEF Waits
  <2>5. x = f.todo[1].at => Waits(f, 1)
    BY <1>10, <2>4
  <2> QED
    BY <1>8, <1>10, <2>2, <2>3, <2>5
<1>14. ASSUME NEW x \in Waiting(f), x # f.todo[1].at PROVE x \in Waiting(g)
  <2>1. PICK u \in DOMAIN f.todo : Waits(f, u) /\ f.todo[u].at = x
    BY <1>11
  <2>2. u # 1
    BY <1>14, <2>1
  <2>3. PICK t \in DOMAIN g.todo : u = t + 1
    BY <1>7, <2>2
  <2> QED
    BY <1>6, <1>12, <2>1, <2>3
<1>15. Rest(g) = Rest(f) \ {f.todo[1].at}
  BY <1>9, <1>13, <1>14
<1>16. f.todo[1].at # 0 => f.todo[1].at \in Rest(f)
  BY <1>9, <1>10, <1>11
<1>17. ASSUME NEW t \in DOMAIN g.todo, NEW u \in DOMAIN g.todo, Waits(g, t), Waits(g, u), g.todo[t].at = g.todo[u].at
       PROVE  t = u
  <2>1. t + 1 = u + 1
    BY <1>6, <1>8, <1>17
  <2>2. t \in Int /\ u \in Int
    BY <1>2, <1>3
  <2> QED
    BY <2>1, <2>2
<1>18. FrameOK(g, M)
  BY <1>3, <1>4, <1>15, <1>17 DEF FrameOK
<1> QED
  BY <1>1, <1>5, <1>15, <1>16, <1>18 DEF g

\* The frame of a directory, at first.
LEMMA DirectFrame ==
  ASSUME disk \in Disks, NEW i \in DOMAIN disk.inode
  PROVE  LET f == Frame(i, "direct")
         IN  /\ f.ip = i /\ f.left = Blocks(i) /\ f.todo \in Seq(Item) /\ f.todo # <<>>
             /\ f.todo[1].op = "direct" /\ f.todo[1].at = Zone(i)[1]
             /\ \A t \in DOMAIN f.todo : f.todo[t].op \in Past
<1> DEFINE zones == disk.inode[i].zone
           direct == SubSeq(zones, 1, NDZONES)
           s == [op |-> "single", at |-> zones[NDZONES + 1]]
           d == [op |-> "double", at |-> zones[NDZONES + 2]]
<1>1. zones \in Seq(Nat) /\ Len(zones) = NDZONES + 2
  <2>1. InodeSound(disk, i)
    BY SoundDisk
  <2> QED
    BY <2>1 DEF InodeSound
<1>2. \A k \in 1 .. NDZONES + 2 : zones[k] \in Nat
  BY <1>1
<1>3. /\ direct \in Seq(Nat) /\ Len(direct) = NDZONES /\ \A k \in 1 .. NDZONES : direct[k] = zones[k]
  BY <1>1, <1>2, Sizes
<1>4. s \in Item /\ d \in Item /\ s.op = "single" /\ d.op = "double"
  <2>1. zones[NDZONES + 1] \in Nat /\ zones[NDZONES + 2] \in Nat
    BY <1>2, Sizes
  <2> QED
    BY <2>1 DEF Item, Ops
<1> DEFINE its == Items("direct", direct)
<1>5. /\ its \in Seq(Item) /\ Len(its) = NDZONES
      /\ \A t \in 1 .. NDZONES : its[t] = [op |-> "direct", at |-> zones[t]]
  <2>1. "direct" \in Ops /\ "direct" \notin PutsBack
    BY DEF Ops, PutsBack
  <2> HIDE DEF direct
  <2> QED
    BY <1>3, <2>1, ItemsAre
<1> DEFINE all == its \o <<s, d>>
<1> HIDE DEF its, s, d
<1>6. /\ all \in Seq(Item) /\ DOMAIN all = 1 .. NDZONES + 2
      /\ \A t \in 1 .. NDZONES : all[t] = its[t]
      /\ all[NDZONES + 1] = s /\ all[NDZONES + 2] = d
  BY <1>4, <1>5, Sizes
<1>7. Frame(i, "direct") = [ip |-> i, left |-> Blocks(i), todo |-> all]
  BY DEF Frame, its, s, d, Zone
<1> HIDE DEF all
<1>8. ASSUME NEW t \in DOMAIN all PROVE all[t].op \in Past
  <2>1. t \in 1 .. NDZONES \/ t = NDZONES + 1 \/ t = NDZONES + 2
    BY <1>6, Sizes
  <2>2. t \in 1 .. NDZONES => all[t].op = "direct"
    BY <1>5, <1>6
  <2> QED
    BY <1>4, <1>6, <2>1, <2>2 DEF Past
<1>9. all # <<>> /\ all[1].op = "direct" /\ all[1].at = zones[1]
  <2>1. 1 \in 1 .. NDZONES /\ 1 \in DOMAIN all /\ DOMAIN <<>> = {}
    BY <1>6, Sizes
  <2> QED
    BY <1>5, <1>6, <2>1
<1> HIDE DEF zones
<1>10. Frame(i, "direct").ip = i /\ Frame(i, "direct").left = Blocks(i) /\ Frame(i, "direct").todo = all
  BY <1>7
<1>11. Zone(i)[1] = zones[1]
  BY DEF Zone, zones
<1> QED
  BY <1>6, <1>8, <1>9, <1>10, <1>11

\* An inode that the walk comes to.
LEMMA NewTreeFrame ==
  ASSUME disk \in Disks, NEW x \in DOMAIN disk.inode, disk.inode[x].dir => Blocks(x) = 1,
         NEW M, x \in M, Names(x) \cap M = {}
  PROVE  LET f == FragFrame(x)
         IN  /\ f.ip = x /\ FrameOK(f, M) /\ Rest(f) = Names(x)
             /\ Uncounted(f) <=> disk.inode[x].dir
             /\ Unread(f) => disk.inode[x].dir
<1> DEFINE f == FragFrame(x)
<1>1. CASE disk.inode[x].dir
  <2>1. f = Frame(x, "direct")
    BY <1>1 DEF FragFrame
  <2>2. /\ f.ip = x /\ f.left = 1 /\ f.todo \in Seq(Item) /\ f.todo # <<>>
        /\ f.todo[1].op = "direct" /\ f.todo[1].at = Zone(x)[1]
        /\ \A t \in DOMAIN f.todo : f.todo[t].op \in Past
    BY <1>1, <2>1, DirectFrame
  <2> HIDE DEF f
  <2>3. \A t \in 2 .. Len(f.todo) : f.todo[t].op \in Past
    <3>1. \A t \in 2 .. Len(f.todo) : t \in DOMAIN f.todo
      BY <2>2
    <3> QED
      BY <2>2, <3>1
  <2>4. Unread(f) /\ Uncounted(f)
    BY <2>2, <2>3 DEF Unread, Uncounted
  <2>5. \A t \in DOMAIN f.todo : ~Waits(f, t)
    BY <2>2, NoWaits DEF Past
  <2>6. Rest(f) = Names(x)
    BY <2>2, <2>4 DEF Rest
  <2>7. FrameOK(f, M)
    BY <1>1, <2>2, <2>4, <2>5, <2>6 DEF FrameOK
  <2> QED
    BY <1>1, <2>2, <2>4, <2>6, <2>7 DEF f
<1>2. CASE ~disk.inode[x].dir
  <2>1. f.ip = x /\ f.todo = <<>>
    BY <1>2 DEF FragFrame
  <2> HIDE DEF f
  <2>2. ~Unread(f) /\ ~Uncounted(f)
    BY <2>1 DEF Unread, Uncounted
  <2>3. Waiting(f) = {} /\ \A t \in DOMAIN f.todo : ~Waits(f, t)
    <3>1. DOMAIN f.todo = {}
      BY <2>1
    <3> QED
      BY <3>1, NoWaits
  <2>4. Names(x) = {}
    BY <1>2 DEF Names, Entered
  <2>5. Rest(f) = Names(x)
    BY <2>2, <2>3, <2>4 DEF Rest
  <2>6. FrameOK(f, M)
    BY <1>2, <2>1, <2>3, <2>4, <2>5 DEF FrameOK
  <2> QED
    BY <1>2, <2>1, <2>2, <2>5, <2>6 DEF f
<1> QED
  BY <1>1, <1>2

\* The block of a directory is read.
DirItems(b) == Items("entry", SubSeq(disk.entries[b], 3, Len(disk.entries[b]))) \o <<[op |-> "done", at |-> b]>>

LEMMA DirItemsAre ==
  ASSUME NEW b \in Nat, disk.entries[b] \in Seq(Nat)
  PROVE  LET slots == disk.entries[b]
             n == Len(DirItems(b)) - 1
         IN  /\ DirItems(b) \in Seq(Item) /\ n \in Nat /\ DirItems(b)[n + 1].op = "done"
             /\ \A t \in 1 .. n : t + 2 \in 3 .. Len(slots) /\ DirItems(b)[t] = [op |-> "entry", at |-> slots[t + 2]]
             /\ \A k \in 3 .. Len(slots) : k - 2 \in 1 .. n
<1> DEFINE slots == disk.entries[b]
           named == SubSeq(slots, 3, Len(slots))
           its == Items("entry", named)
           x == [op |-> "done", at |-> b]
<1>1. x \in Item /\ x.op = "done"
  BY DEF Item, Ops
<1> HIDE DEF x, slots
<1>2. slots \in Seq(Nat)
  BY DEF slots
<1>3. /\ named \in Seq(Nat) /\ Len(named) = (IF 3 <= Len(slots) THEN Len(slots) - 2 ELSE 0)
      /\ \A t \in 1 .. Len(named) : named[t] = slots[t + 2]
  <2>1. Len(slots) \in Nat /\ \A k \in 3 .. Len(slots) : slots[k] \in Nat
    BY <1>2
  <2>2. named \in Seq(Nat)
    BY <1>2, <2>1
  <2>3. Len(named) = (IF 3 <= Len(slots) THEN Len(slots) - 2 ELSE 0)
    BY <1>2, <2>1
  <2>4. ASSUME NEW t \in 1 .. Len(named) PROVE named[t] = slots[t + 2]
    <3>1. 3 <= Len(slots) /\ t \in 1 .. Len(slots) - 2
      BY <2>1, <2>3
    <3>2. named[t] = slots[3 + t - 1]
      BY <1>2, <2>1, <3>1
    <3>3. 3 + t - 1 = t + 2
      BY <2>1, <3>1
    <3> QED
      BY <3>2, <3>3
  <2> QED
    BY <2>2, <2>3, <2>4
<1> HIDE DEF named
<1>4. its \in Seq(Item) /\ Len(its) = Len(named)
      /\ \A t \in 1 .. Len(named) : its[t] = [op |-> "entry", at |-> named[t]]
  <2>1. "entry" \in Ops /\ "entry" \notin PutsBack
    BY DEF Ops, PutsBack
  <2> QED
    BY <1>3, <2>1, ItemsAre
<1>5. DirItems(b) = its \o <<x>>
  BY DEF DirItems, its, named, slots, x
<1> HIDE DEF its
<1>6. /\ its \o <<x>> \in Seq(Item) /\ Len(its \o <<x>>) = Len(its) + 1 /\ (its \o <<x>>)[Len(its) + 1] = x
      /\ \A t \in 1 .. Len(its) : (its \o <<x>>)[t] = its[t]
  <2>1. its \in Seq(Item) /\ Len(its) \in Nat
    BY <1>4
  <2> QED
    BY <1>1, <2>1
<1> DEFINE n == Len(its)
<1>7. n \in Nat /\ Len(DirItems(b)) - 1 = n
  BY <1>4, <1>5, <1>6
<1>8. \A t \in 1 .. n : t + 2 \in 3 .. Len(slots)
  BY <1>2, <1>3, <1>4
<1>9. \A k \in 3 .. Len(slots) : k - 2 \in 1 .. n
  BY <1>2, <1>3, <1>4
<1>10. \A t \in 1 .. n : DirItems(b)[t] = [op |-> "entry", at |-> slots[t + 2]]
  BY <1>3, <1>4, <1>5, <1>6
<1> HIDE DEF n
<1>11. DirItems(b) \in Seq(Item) /\ DirItems(b)[n + 1].op = "done"
  BY <1>1, <1>5, <1>6 DEF n
<1> QED
  BY <1>7, <1>8, <1>9, <1>10, <1>11 DEF slots

LEMMA BlockRead ==
  ASSUME disk \in Disks, NEW f, f.todo \in Seq(Item), f.ip \in DOMAIN disk.inode, disk.inode[f.ip].dir,
         Blocks(f.ip) = 1, ~Hole(f.ip, 0),
         \A j, k \in Entered(f.ip) : Slots(f.ip)[j] = Slots(f.ip)[k] => j = k,
         NEW M, FrameOK(f, M), Unread(f), f.todo[1].op = "block"
  PROVE  LET items == DirItems(f.todo[1].at)
             g == Stepped(f, items, f.left)
         IN  items \in Seq(Item) /\ FrameOK(g, M) /\ ~Unread(g) /\ Rest(g) = Rest(f)
<1> DEFINE b == f.todo[1].at
           slots == disk.entries[b]
           items == DirItems(b)
           n == Len(items) - 1
           new == items \o Tail(f.todo)
           i == f.ip
           g == Stepped(f, items, f.left)
<1>1. /\ f.left = 1 /\ f.todo # <<>> /\ b = FirstBlock(f.ip) /\ b \in Nat
      /\ \A t \in 2 .. Len(f.todo) : f.todo[t].op \in Past
  <2>1. f.todo # <<>> /\ f.left = 1 /\ b = FirstBlock(f.ip) /\ \A t \in 2 .. Len(f.todo) : f.todo[t].op \in Past
    BY DEF Unread
  <2>2. f.todo[1] \in Item
    <3>1. \A G : f.todo \in Seq(G) => f.todo[1] \in G
      BY <2>1
    <3> QED
      BY <3>1
  <2> QED
    BY <2>1, <2>2 DEF Item
<1>2. slots = Slots(i) /\ slots \in Seq((DOMAIN disk.inode \cap Nat) \cup {0}) /\ slots \in Seq(Nat)
  <2>1. slots = Slots(i) /\ slots \in Seq((DOMAIN disk.inode \cap Nat) \cup {0})
    BY <1>1, OneBlock
  <2> QED
    BY <2>1
<1>3. /\ items \in Seq(Item) /\ n \in Nat /\ items[n + 1].op = "done"
      /\ \A t \in 1 .. n : t + 2 \in 3 .. Len(slots) /\ items[t] = [op |-> "entry", at |-> slots[t + 2]]
      /\ \A k \in 3 .. Len(slots) : k - 2 \in 1 .. n
  BY <1>1, <1>2, DirItemsAre
<1>4. \A k : k \in Entered(i) <=> k \in 3 .. Len(slots) /\ slots[k] # 0
  BY <1>2 DEF Entered
<1> HIDE DEF items, slots, b
<1>5. /\ new \in Seq(Item) /\ Len(new) = Len(items) + Len(f.todo) - 1
      /\ Len(items) \in Nat /\ Len(f.todo) \in Nat \ {0} /\ DOMAIN new = 1 .. Len(new)
      /\ \A t \in 1 .. Len(items) : new[t] = items[t]
      /\ \A t \in Len(items) + 1 .. Len(new) : /\ t - Len(items) + 1 \in 2 .. Len(f.todo)
                                               /\ new[t] = f.todo[t - Len(items) + 1]
  BY <1>1, <1>3, Follows
<1>6. g.ip = i /\ g.left = 1 /\ g.todo = new
  BY <1>1 DEF items, b, Stepped
<1> HIDE DEF new, i, g
<1>7. Len(items) = n + 1 /\ n \in Nat /\ Len(new) \in Nat /\ Len(new) >= n + 1
  BY <1>3, <1>5
<1> HIDE DEF n
<1>20. /\ DOMAIN new = 1 .. Len(new)
       /\ \A t \in 1 .. n + 1 : new[t] = items[t]
       /\ \A t \in n + 2 .. Len(new) : t - Len(items) + 1 \in 2 .. Len(f.todo) /\ new[t] = f.todo[t - Len(items) + 1]
  <2>1. (n + 1) + 1 = n + 2
    BY <1>7
  <2> QED
    BY <1>5, <1>7, <2>1
<1>8. new[n + 1].op = "done" /\ n + 1 \in DOMAIN new
  <2>1. n + 1 \in 1 .. n + 1 /\ n + 1 \in 1 .. Len(new)
    BY <1>7
  <2> QED
    BY <1>3, <1>20, <2>1
<1>9. ASSUME NEW t \in 1 .. n
      PROVE  t + 2 \in 3 .. Len(slots) /\ new[t].op = "entry" /\ new[t].at = slots[t + 2] /\ t \in DOMAIN new
  <2>1. t \in 1 .. n + 1 /\ t \in 1 .. Len(new)
    BY <1>7
  <2>2. new[t] = items[t] /\ t \in DOMAIN new
    BY <1>20, <2>1
  <2>3. t + 2 \in 3 .. Len(slots) /\ items[t] = [op |-> "entry", at |-> slots[t + 2]]
    BY <1>3
  <2> QED
    BY <2>2, <2>3
<1>10. ASSUME NEW t \in n + 2 .. Len(new) PROVE new[t].op \in Past
  <2>1. t - Len(items) + 1 \in 2 .. Len(f.todo) /\ new[t] = f.todo[t - Len(items) + 1]
    BY <1>20
  <2> QED
    BY <1>1, <2>1
<1>11. InBlock(g)
  <2> DEFINE m == n + 1
  <2>1. m - 1 = n /\ m + 1 = n + 2
    BY <1>3
  <2>2. /\ m \in DOMAIN g.todo /\ g.todo[m].op = "done"
        /\ \A t \in 1 .. m - 1 : g.todo[t].op = "entry"
        /\ \A t \in m + 1 .. Len(g.todo) : g.todo[t].op \in Past
    BY <1>6, <1>8, <1>9, <1>10, <2>1
  <2> HIDE DEF m
  <2> QED
    BY <1>6, <2>2 DEF InBlock
<1>12. ~Unread(g)
  <2>1. g.todo[1].op \in {"entry", "done"}
    <3>1. CASE n = 0
      <4>1. n + 1 = 1
        BY <3>1
      <4> QED
        BY <1>6, <1>8, <4>1
    <3>2. CASE n # 0
      <4>1. 1 \in 1 .. n
        BY <1>3, <3>2
      <4> QED
        BY <1>6, <1>9, <4>1
    <3> QED
      BY <3>1, <3>2
  <2> QED
    BY <2>1 DEF Unread
<1>13. ASSUME NEW t \in DOMAIN new
       PROVE  Waits(g, t) <=> t \in 1 .. n /\ slots[t + 2] # 0
  <2>1. CASE t \in 1 .. n
    BY <1>6, <1>9, <2>1 DEF Waits
  <2>2. CASE t \notin 1 .. n
    <3>1. t = n + 1 \/ t \in n + 2 .. Len(new)
      BY <1>3, <1>5, <2>2
    <3>2. new[t].op # "entry"
      BY <1>8, <1>10, <3>1 DEF Past
    <3> QED
      BY <1>6, <2>2, <3>2 DEF Waits
  <2> QED
    BY <2>1, <2>2
<1>14. ASSUME NEW t \in DOMAIN new, Waits(g, t)
       PROVE  t \in Nat /\ t + 2 \in Entered(i) /\ g.todo[t].at = Slots(i)[t + 2]
  <2>1. t \in 1 .. n /\ slots[t + 2] # 0
    BY <1>13, <1>14
  <2>2. t + 2 \in 3 .. Len(slots) /\ new[t].at = slots[t + 2]
    BY <1>9, <2>1
  <2>3. t \in Nat
    BY <2>1
  <2> QED
    BY <1>2, <1>4, <1>6, <2>1, <2>2, <2>3
<1>15. ASSUME NEW k \in Entered(i)
       PROVE  \E t \in DOMAIN new : Waits(g, t) /\ g.todo[t].at = Slots(i)[k]
  <2>1. k \in 3 .. Len(slots) /\ slots[k] # 0
    BY <1>4
  <2>2. k - 2 \in 1 .. n /\ (k - 2) + 2 = k
    BY <1>2, <1>3, <2>1
  <2>3. k - 2 \in DOMAIN new /\ new[k - 2].at = slots[k] /\ Waits(g, k - 2)
    BY <1>9, <1>13, <2>1, <2>2
  <2> QED
    BY <1>2, <1>6, <2>3
<1>16. Waiting(g) = Names(i)
  <2>1. ASSUME NEW x PROVE x \in Waiting(g) <=> \E t \in DOMAIN new : Waits(g, t) /\ g.todo[t].at = x
    BY <1>6 DEF Waiting
  <2>2. ASSUME NEW x PROVE x \in Names(i) <=> \E k \in Entered(i) : Slots(i)[k] = x
    BY DEF Names
  <2>3. ASSUME NEW x \in Waiting(g) PROVE x \in Names(i)
    <3>1. PICK t \in DOMAIN new : Waits(g, t) /\ g.todo[t].at = x
      BY <2>1
    <3> QED
      BY <1>14, <2>2, <3>1
  <2>4. ASSUME NEW x \in Names(i) PROVE x \in Waiting(g)
    <3>1. PICK k \in Entered(i) : Slots(i)[k] = x
      BY <2>2
    <3>2. PICK t \in DOMAIN new : Waits(g, t) /\ g.todo[t].at = Slots(i)[k]
      BY <1>15
    <3> QED
      BY <2>1, <3>1, <3>2
  <2> QED
    BY <2>3, <2>4
<1>17. Rest(g) = Rest(f) /\ Rest(g) = Names(i)
  BY <1>12, <1>16 DEF Rest, i
<1>18. ASSUME NEW t \in DOMAIN g.todo, NEW u \in DOMAIN g.todo, Waits(g, t), Waits(g, u), g.todo[t].at = g.todo[u].at
       PROVE  t = u
  <2>1. t \in Nat /\ t + 2 \in Entered(i) /\ g.todo[t].at = Slots(i)[t + 2]
    BY <1>6, <1>14, <1>18
  <2>2. u \in Nat /\ u + 2 \in Entered(i) /\ g.todo[u].at = Slots(i)[u + 2]
    BY <1>6, <1>14, <1>18
  <2>3. t + 2 = u + 2
    BY <1>18, <2>1, <2>2 DEF i
  <2> QED
    BY <2>1, <2>2, <2>3
<1>19. FrameOK(g, M)
  <2>1. i \in M /\ Rest(f) \subseteq Names(i) \ M /\ disk.inode[i].dir
    BY DEF FrameOK, i
  <2> QED
    BY <1>6, <1>11, <1>17, <1>18, <2>1 DEF FrameOK
<1> QED
  BY <1>3, <1>12, <1>17, <1>19 DEF items, b, g

-----------------------------------------------------------------------------
(* A step of the innermost frame of a walk through a plain tree.           *)

\* A walk that has measured M, and that the next step is a step of.
TreeHere(M) == /\ disk \in Disks /\ StackOK /\ req = "frag" /\ M \subseteq DOMAIN disk.inode
               /\ PlainTree(stack[1].ip) /\ TreeWalk(stack, stat, M)
TreeGoesOn == /\ stack'[1].ip = stack[1].ip
              /\ \E N \in SUBSET DOMAIN disk.inode : TreeWalk(stack', stat', N)

\* The stack s but for its innermost frame, which is g.
TopIs(s, g) == LET m == Len(stack)
               IN  /\ DOMAIN s = 1 .. m /\ DOMAIN stack = 1 .. m /\ Len(s) = m /\ m \in Nat \ {0}
                   /\ s[m] = g /\ g.ip = stack[m].ip
                   /\ \A n \in 1 .. m : n # m => s[n] = stack[n]
                   /\ \A n \in 1 .. m : s[n].ip = stack[n].ip

LEMMA AdvancedIs ==
  ASSUME disk \in Disks, StackOK, NEW op, At(op), NEW items, NEW l
  PROVE  TopIs(Advanced(items, l), [ip |-> Top.ip, left |-> l, todo |-> items \o Tail(Top.todo)])
<1> DEFINE m == Len(stack)
           s == Advanced(items, l)
           g == [ip |-> Top.ip, left |-> l, todo |-> items \o Tail(Top.todo)]
<1>1. /\ stack \in Seq(FrameOf(disk)) /\ m \in Nat \ {0} /\ DOMAIN stack = 1 .. m /\ Top = stack[m]
  <2>1. stack \in Seq(FrameOf(disk)) /\ Top = stack[m] /\ stack # <<>>
    BY AtItem DEF StackOK
  <2> QED
    BY <2>1
<1>2. s = [stack EXCEPT ![m] = g]
  BY DEF Advanced
<1>3. g.ip = Top.ip
  OBVIOUS
<1> HIDE DEF s, m, g
<1>4. m \in 1 .. m
  BY <1>1
<1>5. DOMAIN s = 1 .. m /\ s[m] = g /\ \A n \in 1 .. m : n # m => s[n] = stack[n]
  BY <1>1, <1>2, <1>4
<1>6. Len(s) = m
  <2>1. DOMAIN s = 1 .. m /\ m \in Nat
    BY <1>1, <1>5
  <2> QED
    BY <2>1
<1>7. \A n \in 1 .. m : s[n].ip = stack[n].ip
  <2> TAKE n \in 1 .. m
  <2>1. CASE n = m
    BY <1>1, <1>3, <1>5, <2>1
  <2>2. CASE n # m
    BY <1>5, <2>2
  <2> QED
    BY <2>1, <2>2
<1>8. TopIs(s, g)
  BY <1>1, <1>3, <1>5, <1>6, <1>7 DEF TopIs, m
<1> QED
  BY <1>8 DEF s, g

LEMMA TopMoves ==
  ASSUME NEW st, NEW M, TreeWalk(stack, st, M), NEW s, NEW g, TopIs(s, g),
         FrameOK(g, M), Rest(g) = Rest(stack[Len(stack)])
  PROVE  TreeWalk(s, Stats(M, IF Uncounted(g) THEN M \ {g.ip} ELSE M), M) /\ s[1].ip = stack[1].ip
<1> DEFINE m == Len(stack)
<1>1. /\ DOMAIN s = 1 .. m /\ DOMAIN stack = 1 .. m /\ Len(s) = m /\ m \in Nat \ {0}
      /\ s[m] = g /\ g.ip = stack[m].ip
      /\ \A n \in 1 .. m : n # m => s[n] = stack[n]
      /\ \A n \in 1 .. m : s[n].ip = stack[n].ip
  BY DEF TopIs
<1>2. /\ M \subseteq Under(stack[1].ip) /\ IsFiniteSet(M) /\ stack[1].ip \in M
      /\ \A n \in 1 .. m : FrameOK(stack[n], M)
      /\ \A n, k \in 1 .. m : stack[n].ip = stack[k].ip => n = k
      /\ \A n \in 1 .. m : Unread(stack[n]) => n = m
      /\ \A x \in M \ {stack[1].ip} : \E p \in M \ {x} : x \in Names(p)
      /\ \A p \in M : \A x \in Names(p) : x \in M \/ \E n \in 1 .. m : stack[n].ip = p /\ x \in Rest(stack[n])
  BY <1>1 DEF TreeWalk
<1>3. Rest(g) = Rest(stack[m])
  OBVIOUS
<1> HIDE DEF m
<1>4. s[1].ip = stack[1].ip
  <2>1. 1 \in 1 .. m
    BY <1>1
  <2> QED
    BY <1>1, <2>1
<1>5. \A n \in 1 .. m : FrameOK(s[n], M)
  <2> TAKE n \in 1 .. m
  <2> QED
    BY <1>1, <1>2
<1>6. \A n, k \in 1 .. m : s[n].ip = s[k].ip => n = k
  BY <1>1, <1>2
<1>7. \A n \in 1 .. m : Unread(s[n]) => n = m
  BY <1>1, <1>2
<1>8. \A n \in 1 .. m : Rest(s[n]) = Rest(stack[n])
  BY <1>1, <1>3
<1>9. ASSUME NEW p \in M, NEW x \in Names(p), x \notin M
      PROVE  \E n \in 1 .. m : s[n].ip = p /\ x \in Rest(s[n])
  <2>1. PICK n \in 1 .. m : stack[n].ip = p /\ x \in Rest(stack[n])
    BY <1>2, <1>9
  <2>2. s[n].ip = p /\ x \in Rest(s[n])
    BY <1>1, <1>8, <2>1
  <2> QED
    BY <2>2
<1>10. s[Len(s)] = g
  BY <1>1
<1>11. TreeWalk(s, Stats(M, IF Uncounted(g) THEN M \ {g.ip} ELSE M), M)
  BY <1>1, <1>2, <1>4, <1>5, <1>6, <1>7, <1>9, <1>10 DEF TreeWalk
<1> QED
  BY <1>4, <1>11

LEMMA TreeTop ==
  ASSUME NEW M, TreeHere(M), NEW op, At(op)
  PROVE  LET i == stack[1].ip
         IN  /\ Top = stack[Len(stack)] /\ Len(stack) \in DOMAIN stack /\ Len(stack) \in Nat \ {0}
             /\ i \in DOMAIN disk.inode /\ Top.ip \in Under(i) /\ Top.ip \in M /\ Top.ip \in DOMAIN disk.inode
             /\ Top.todo \in Seq(Item) /\ Top.todo # <<>> /\ Top.todo[1].op = op /\ Here = Top.todo[1].at
             /\ Top.left \in Int /\ Here \in Nat
             /\ disk.inode[Top.ip].dir /\ Blocks(Top.ip) = 1 /\ ~Hole(Top.ip, 0)
             /\ \A j, k \in Entered(Top.ip) : Slots(Top.ip)[j] = Slots(Top.ip)[k] => j = k
             /\ FrameOK(Top, M) /\ M \subseteq Under(i) /\ IsFiniteSet(M) /\ i \in M
             /\ stat = Stats(M, IF Uncounted(Top) THEN M \ {Top.ip} ELSE M)
<1> DEFINE i == stack[1].ip
<1>1. /\ disk \in Disks /\ StackOK /\ req = "frag" /\ PlainTree(i)
      /\ TreeWalk(stack, stat, M) /\ M \subseteq DOMAIN disk.inode
  BY DEF TreeHere
<1>2. /\ Top = stack[Len(stack)] /\ Len(stack) \in DOMAIN stack /\ Top.ip \in DOMAIN disk.inode
      /\ Top.todo \in Seq(Item) /\ Top.todo # <<>> /\ Top.todo[1].op = op /\ Here = Top.todo[1].at
      /\ Top.left \in Int /\ Here \in Nat /\ disk.inode[Top.ip].dir
  BY <1>1, AtItem
<1>3. Len(stack) \in Nat \ {0}
  <2>1. stack \in Seq(FrameOf(disk)) /\ stack # <<>>
    BY <1>1, AtItem DEF StackOK
  <2> QED
    BY <2>1
<1>4. FrameOK(Top, M) /\ M \subseteq Under(i) /\ IsFiniteSet(M) /\ i \in M
      /\ stat = Stats(M, IF Uncounted(Top) THEN M \ {Top.ip} ELSE M)
  BY <1>1, <1>2 DEF TreeWalk
<1>5. Top.ip \in M
  BY <1>4 DEF FrameOK
<1>6. Top.ip \in Under(i)
  BY <1>4, <1>5
<1>7. /\ Blocks(Top.ip) = 1 /\ ~Hole(Top.ip, 0)
      /\ \A j, k \in Entered(Top.ip) : Slots(Top.ip)[j] = Slots(Top.ip)[k] => j = k
  BY <1>1, <1>2, <1>6 DEF PlainTree
<1>8. i \in DOMAIN disk.inode
  BY <1>1, <1>4
<1> QED
  BY <1>2, <1>3, <1>4, <1>5, <1>6, <1>7, <1>8

LEMMA TreeKeeps ==
  ASSUME NEW M, TreeHere(M), NEW op, At(op), NEW items, NEW l, stack' = Advanced(items, l),
         FrameOK(Stepped(Top, items, l), M), Rest(Stepped(Top, items, l)) = Rest(Top),
         stat' = Stats(M, IF Uncounted(Stepped(Top, items, l)) THEN M \ {Top.ip} ELSE M)
  PROVE  TreeGoesOn
<1> DEFINE g == Stepped(Top, items, l)
<1>1. disk \in Disks /\ StackOK /\ TreeWalk(stack, stat, M) /\ M \in SUBSET DOMAIN disk.inode
  BY DEF TreeHere
<1>2. TopIs(stack', g)
  BY <1>1, AdvancedIs DEF Stepped
<1>3. Rest(g) = Rest(stack[Len(stack)]) /\ g.ip = Top.ip
  BY TreeTop DEF Stepped
<1> HIDE DEF g
<1>4. FrameOK(g, M)
  BY DEF g
<1>5. TreeWalk(stack', Stats(M, IF Uncounted(g) THEN M \ {g.ip} ELSE M), M) /\ stack'[1].ip = stack[1].ip
  <2> DEFINE s == stack'
  <2> HIDE DEF s
  <2>1. TopIs(s, g)
    BY <1>2 DEF s
  <2>2. TreeWalk(s, Stats(M, IF Uncounted(g) THEN M \ {g.ip} ELSE M), M) /\ s[1].ip = stack[1].ip
    BY <1>1, <1>3, <1>4, <2>1, TopMoves
  <2> QED
    BY <2>2 DEF s
<1>6. stat' = Stats(M, IF Uncounted(g) THEN M \ {g.ip} ELSE M)
  BY <1>3 DEF g
<1> QED
  BY <1>1, <1>5, <1>6 DEF TreeGoesOn

LEMMA TreeMeasureDir == ASSUME NEW M, TreeHere(M), MeasureDir PROVE TreeGoesOn
<1> DEFINE x == [op |-> "zone", at |-> Here]
           g == Stepped(Top, <<x>>, Top.left)
<1>1. At("direct") /\ Top.left # 0 /\ req = "frag" /\ disk \in Disks /\ StackOK
  BY DEF MeasureDir, AtEnd, TreeHere
<1>2. /\ Top.todo \in Seq(Item) /\ Top.todo # <<>> /\ Top.todo[1].op = "direct" /\ Here = Top.todo[1].at /\ Here \in Nat
      /\ disk.inode[Top.ip].dir /\ FrameOK(Top, M) /\ Top.ip \in M /\ Top.ip \in DOMAIN disk.inode /\ IsFiniteSet(M)
      /\ stat = Stats(M, IF Uncounted(Top) THEN M \ {Top.ip} ELSE M)
  BY <1>1, TreeTop
<1>3. Unread(Top) /\ Uncounted(Top) /\ Here = Zone(Top.ip)[1]
  <2>1. Unread(Top)
    BY <1>1, <1>2, Shapes
  <2> QED
    BY <1>2, <2>1 DEF Uncounted, Unread
<1>4. x \in Item /\ x.op = "zone" /\ x.at = Here
  BY <1>2 DEF Item, Ops
<1> HIDE DEF x
<1>5. <<x>> \in Seq(Item) /\ <<x>> # <<>> /\ <<x>>[1] = x /\ \A t \in 2 .. Len(<<x>>) : FALSE
  BY <1>4
<1>6. FrameOK(g, M) /\ Unread(g) /\ Rest(g) = Rest(Top) /\ g.todo[1] = x
  <2> DEFINE items == <<x>>
  <2> HIDE DEF items
  <2>1. items \in Seq(Item) /\ items # <<>> /\ items[1] = x /\ \A t \in 2 .. Len(items) : items[t].op \in Past
    BY <1>5 DEF items
  <2>2. Nearer(Top, items)
    BY <1>3, <1>4, <2>1 DEF Nearer
  <2>3. FrameOK(Stepped(Top, items, Top.left), M) /\ Unread(Stepped(Top, items, Top.left))
        /\ Rest(Stepped(Top, items, Top.left)) = Rest(Top) /\ Stepped(Top, items, Top.left).todo[1] = items[1]
    BY <1>2, <1>3, <2>2, UnreadMoves
  <2> QED
    BY <2>1, <2>3 DEF items
<1>7. ~Uncounted(g)
  BY <1>4, <1>6 DEF Uncounted
<1>8. stat' = Stats(M, M)
  <2>1. stat' = Counted(stat, FragVal(Top.ip)) /\ stat = Stats(M, M \ {Top.ip})
    BY <1>2, <1>3 DEF MeasureDir
  <2> DEFINE C == M \ {Top.ip}
  <2>2. C \in SUBSET DOMAIN disk.inode /\ Top.ip \notin C /\ IsFiniteSet(C) /\ C \cup {Top.ip} = M
    BY <1>2, FS_Subset DEF TreeHere
  <2> HIDE DEF C
  <2>3. Counted(Stats(M, C), FragVal(Top.ip)) = Stats(M, C \cup {Top.ip})
    BY <1>1, <1>2, <2>2, OneMoreEntry
  <2> QED
    BY <2>1, <2>2, <2>3 DEF C
<1>9. stack' = Advanced(<<x>>, Top.left)
  BY <1>1, <1>5, InsteadAdvances DEF MeasureDir, Instead, x
<1> HIDE DEF g
<1> QED
  BY <1>1, <1>6, <1>7, <1>8, <1>9, TreeKeeps DEF g

LEMMA TreeWalkZone == ASSUME NEW M, TreeHere(M), WalkZone PROVE TreeGoesOn
<1> DEFINE items == [n \in 1 .. blocksPerZone |-> [op |-> "block", at |-> Address(Here, n - 1)]]
           g == Stepped(Top, items, Top.left)
<1>1. At("zone") /\ Top.left # 0 /\ req = "frag" /\ disk \in Disks /\ StackOK /\ Here # NO_ZONE
  BY DEF WalkZone, AtEnd, TreeHere
<1>2. /\ Top.todo \in Seq(Item) /\ Top.todo # <<>> /\ Top.todo[1].op = "zone" /\ Here = Top.todo[1].at /\ Here \in Nat
      /\ disk.inode[Top.ip].dir /\ FrameOK(Top, M) /\ Top.ip \in M
      /\ stat = Stats(M, IF Uncounted(Top) THEN M \ {Top.ip} ELSE M)
  BY <1>1, TreeTop
<1>3. Unread(Top) /\ ~Uncounted(Top) /\ Here = Zone(Top.ip)[1]
  <2>1. Unread(Top)
    BY <1>1, <1>2, Shapes
  <2> QED
    BY <1>2, <2>1 DEF Uncounted, Unread
<1>4. blocksPerZone \in Nat \ {0} /\ \A n \in 0 .. blocksPerZone - 1 : 2 ^ (Scale + n) \in Nat
  BY <1>1, Powers
<1>5. \A n : Address(Here, n) = Here * 2 ^ (Scale + n)
  BY <1>1 DEF Address
<1>6. ASSUME NEW n \in 1 .. blocksPerZone PROVE [op |-> "block", at |-> Address(Here, n - 1)] \in Item
  <2>1. n - 1 \in 0 .. blocksPerZone - 1
    BY <1>4
  <2>2. 2 ^ (Scale + (n - 1)) \in Nat
    BY <1>4, <2>1
  <2>3. Address(Here, n - 1) \in Nat
    <3> DEFINE p == 2 ^ (Scale + (n - 1))
    <3>1. Address(Here, n - 1) = Here * p /\ p \in Nat
      BY <1>5, <2>2
    <3> HIDE DEF p
    <3> QED
      BY <1>2, <3>1
  <2> QED
    BY <2>3 DEF Item, Ops
<1>7. items \in Seq(Item) /\ Len(items) = blocksPerZone
  BY <1>4, <1>6
<1>8. \A t \in 1 .. blocksPerZone : items[t].op = "block" /\ items[t].at = Address(Here, t - 1)
  OBVIOUS
<1>9. items[1].op = "block" /\ items[1].at = FirstBlock(Top.ip)
  <2>1. 1 \in 1 .. blocksPerZone /\ 1 - 1 = 0
    BY <1>4
  <2>2. items[1].op = "block" /\ items[1].at = Address(Here, 0)
    BY <1>8, <2>1
  <2> QED
    BY <1>3, <1>5, <2>2 DEF FirstBlock
<1> HIDE DEF items
<1>10. items # <<>> /\ \A t \in 2 .. Len(items) : items[t].op \in Past
  <2>1. Len(<<>>) = 0 /\ \A t \in 2 .. blocksPerZone : t \in 1 .. blocksPerZone
    OBVIOUS
  <2> QED
    BY <1>4, <1>7, <1>8, <2>1 DEF Past
<1>11. FrameOK(g, M) /\ Unread(g) /\ Rest(g) = Rest(Top) /\ g.todo[1] = items[1]
  <2>1. Nearer(Top, items)
    BY <1>7, <1>9, <1>10 DEF Nearer
  <2> QED
    BY <1>2, <1>3, <2>1, UnreadMoves
<1>12. ~Uncounted(g)
  BY <1>9, <1>11 DEF Uncounted
<1>13. stack' = Advanced(items, Top.left) /\ stat' = Stats(M, M)
  BY <1>1, <1>2, <1>3, <1>7, InsteadAdvances DEF WalkZone, Instead, items
<1> HIDE DEF g
<1> QED
  BY <1>1, <1>11, <1>12, <1>13, TreeKeeps DEF g

LEMMA TreeDirBlock == ASSUME NEW M, TreeHere(M), DirBlock, mfs' = "up" PROVE TreeGoesOn
<1> DEFINE items == DirItems(Here)
           g == Stepped(Top, items, Top.left)
<1>1. At("block") /\ Top.left # 0 /\ req = "frag" /\ disk \in Disks /\ StackOK /\ Instead(items) /\ stat' = stat
  BY DEF DirBlock, Panics, TreeHere, DirItems
<1>2. /\ Top.todo \in Seq(Item) /\ Top.todo # <<>> /\ Top.todo[1].op = "block" /\ Here = Top.todo[1].at
      /\ disk.inode[Top.ip].dir /\ FrameOK(Top, M) /\ Top.ip \in DOMAIN disk.inode
      /\ stat = Stats(M, IF Uncounted(Top) THEN M \ {Top.ip} ELSE M)
  BY <1>1, TreeTop
<1>3. /\ Blocks(Top.ip) = 1 /\ ~Hole(Top.ip, 0)
      /\ \A j, k \in Entered(Top.ip) : Slots(Top.ip)[j] = Slots(Top.ip)[k] => j = k
  BY <1>1, TreeTop
<1>4. Unread(Top) /\ ~Uncounted(Top)
  <2>1. Unread(Top)
    BY <1>1, <1>2, Shapes
  <2> QED
    BY <1>2, <2>1 DEF Uncounted
<1>5. items \in Seq(Item) /\ FrameOK(g, M) /\ ~Unread(g) /\ Rest(g) = Rest(Top)
  BY <1>1, <1>2, <1>3, <1>4, BlockRead
<1> HIDE DEF items
<1>6. ~Uncounted(g)
  BY <1>5 DEF Uncounted
<1>7. stack' = Advanced(items, Top.left) /\ stat' = Stats(M, M)
  BY <1>1, <1>2, <1>4, <1>5, InsteadAdvances DEF Instead
<1> HIDE DEF g
<1> QED
  BY <1>1, <1>5, <1>6, <1>7, TreeKeeps DEF g

\* Nothing of a directory is left, or was.
LEMMA TreeEnds ==
  ASSUME NEW M, TreeHere(M), NEW op, At(op), Rest(Top) = {}, ~Uncounted(Top),
         \A t \in 2 .. Len(Top.todo) : Top.todo[t].op \in Past,
         stack' = Advanced(<<>>, 0), stat' = stat
  PROVE  TreeGoesOn
<1> DEFINE g == Stepped(Top, <<>>, 0)
<1>1. /\ Top.todo \in Seq(Item) /\ Top.todo # <<>> /\ disk.inode[Top.ip].dir /\ Top.ip \in M
      /\ stat = Stats(M, IF Uncounted(Top) THEN M \ {Top.ip} ELSE M)
  BY TreeTop
<1>2. g.ip = Top.ip /\ g.left = 0 /\ g.todo = Tail(Top.todo)
  <2>1. <<>> \o Tail(Top.todo) = Tail(Top.todo)
    BY <1>1
  <2> QED
    BY <2>1 DEF Stepped
<1> HIDE DEF g
<1>3. \A t \in DOMAIN g.todo : g.todo[t].op \in Past
  <2> TAKE t \in DOMAIN g.todo
  <2>1. t + 1 \in 2 .. Len(Top.todo) /\ g.todo[t] = Top.todo[t + 1]
    BY <1>1, <1>2
  <2> QED
    BY <2>1
<1>4. FrameOK(g, M) /\ ~Unread(g) /\ Rest(g) = {}
  BY <1>1, <1>2, <1>3, EndedMoves
<1>5. ~Uncounted(g)
  BY <1>4 DEF Uncounted
<1>6. stat' = Stats(M, M)
  BY <1>1
<1> QED
  BY <1>4, <1>5, <1>6, TreeKeeps DEF g

LEMMA TreeBlockDone == ASSUME NEW M, TreeHere(M), DirBlockDone PROVE TreeGoesOn
<1>1. At("done") /\ disk \in Disks /\ StackOK /\ stat' = stat
      /\ stack' = [stack EXCEPT ![Len(stack)].todo = Tail(@), ![Len(stack)].left = @ - 1]
  BY DEF DirBlockDone, TreeHere
<1>2. /\ Top.todo \in Seq(Item) /\ Top.todo # <<>> /\ Top.todo[1].op = "done"
      /\ disk.inode[Top.ip].dir /\ FrameOK(Top, M)
  BY <1>1, TreeTop
<1>3. Top.left = 1 /\ ~Unread(Top) /\ \A t \in 2 .. Len(Top.todo) : Top.todo[t].op \in Past
  BY <1>2, Shapes
<1>4. Rest(Top) = {}
  <2>1. ASSUME NEW t \in DOMAIN Top.todo PROVE Top.todo[t].op # "entry"
    <3>1. t = 1 \/ t \in 2 .. Len(Top.todo)
      BY <1>2
    <3> QED
      BY <1>2, <1>3, <3>1 DEF Past
  <2>2. Waiting(Top) = {}
    BY <2>1, NoWaits
  <2> QED
    BY <1>3, <2>2 DEF Rest
<1>5. stack' = Advanced(<<>>, 0)
  <2>1. <<>> \in Seq(Item) /\ 1 - 1 = 0
    OBVIOUS
  <2>2. stack' = Advanced(<<>>, Top.left - 1)
    BY <1>1, <2>1, InsteadAdvances
  <2> QED
    BY <1>3, <2>1, <2>2
<1> QED
  BY <1>1, <1>3, <1>4, <1>5, TreeEnds DEF Uncounted

\* The only entry that is not followed is a free slot.
LEMMA TreeSkip == ASSUME NEW M, TreeHere(M), Skip PROVE TreeGoesOn
<1>1. disk \in Disks /\ StackOK /\ req = "frag" /\ stat' = stat /\ PlainTree(stack[1].ip)
  BY DEF Skip, TreeHere
<1>2. PICK op \in {"direct", "zone", "single", "double", "block", "entry"} :
        At(op) /\ IF op = "entry" THEN ~Followed(Here) ELSE Top.left = 0 \/ (op # "direct" /\ Here = NO_ZONE)
  BY <1>1 DEF Skip, AtEnd
<1>3. stack' = Advanced(<<>>, Top.left)
  <2>1. <<>> \in Seq(Item)
    OBVIOUS
  <2> QED
    BY <1>1, <1>2, <2>1, InsteadAdvances DEF Skip, Instead
<1>4. /\ Top.todo \in Seq(Item) /\ Top.todo # <<>> /\ Top.todo[1].op = op /\ Here = Top.todo[1].at /\ Here \in Nat
      /\ disk.inode[Top.ip].dir /\ FrameOK(Top, M) /\ Top.ip \in M /\ Top.ip \in DOMAIN disk.inode
      /\ Top.ip \in Under(stack[1].ip) /\ stack[1].ip \in DOMAIN disk.inode /\ Blocks(Top.ip) = 1 /\ ~Hole(Top.ip, 0)
      /\ stat = Stats(M, IF Uncounted(Top) THEN M \ {Top.ip} ELSE M)
  BY <1>2, TreeTop
<1>5. CASE op # "entry" /\ Top.left = 0
  <2>1. Ended(Top)
    BY <1>2, <1>4, <1>5, Shapes DEF Past
  <2>2. \A t \in DOMAIN Top.todo : Top.todo[t].op \in Past
    BY <2>1 DEF Ended
  <2>3. ~Unread(Top) /\ Rest(Top) = {}
    BY <1>4, <1>5, <2>2, EndedMoves
  <2>4. \A t \in 2 .. Len(Top.todo) : Top.todo[t].op \in Past
    <3>1. \A t \in 2 .. Len(Top.todo) : t \in DOMAIN Top.todo
      BY <1>4
    <3> QED
      BY <2>2, <3>1
  <2> QED
    BY <1>1, <1>2, <1>3, <1>5, <2>3, <2>4, TreeEnds DEF Uncounted
<1>6. CASE op # "entry" /\ Top.left # 0
  <2>1. op \in {"zone", "block"} /\ Here = 0 /\ Unread(Top)
    BY <1>2, <1>4, <1>6, Shapes DEF NO_ZONE
  <2>2. Zone(Top.ip)[1] # 0 /\ FirstBlock(Top.ip) \in DOMAIN disk.entries
    BY <1>1, <1>4, OneBlock DEF NO_ZONE
  <2>3. Zone(Top.ip)[1] \in Nat
    <3>1. InodeSound(disk, Top.ip)
      BY <1>1, <1>4, SoundDisk
    <3>2. 1 \in 1 .. NDZONES + 2
      BY Sizes
    <3>3. Zone(Top.ip) \in Seq(Nat) /\ Len(Zone(Top.ip)) = NDZONES + 2
      BY <3>1 DEF InodeSound, Zone
    <3> QED
      BY <3>2, <3>3
  <2>4. FirstBlock(Top.ip) # 0
    <3>1. Scale + 0 = Scale /\ 2 ^ Scale \in Nat \ {0}
      BY <1>1, Powers DEF blocksPerZone
    <3> DEFINE p == 2 ^ Scale
               z == Zone(Top.ip)[1]
    <3>2. FirstBlock(Top.ip) = z * p /\ p \in Nat \ {0} /\ z \in Nat \ {0}
      BY <2>2, <2>3, <3>1 DEF FirstBlock
    <3> HIDE DEF p, z
    <3> QED
      BY <3>2
  <2> QED
    BY <1>4, <2>1, <2>2, <2>4 DEF Unread
<1>7. CASE op = "entry"
  <2> DEFINE g == Stepped(Top, <<>>, Top.left)
  <2>1. /\ FrameOK(g, M) /\ ~Unread(g) /\ ~Unread(Top) /\ Rest(g) = Rest(Top) \ {Here}
        /\ Here # 0 => Here \in Rest(Top)
    BY <1>4, <1>7, EntryDone
  <2>2. Rest(Top) \subseteq Names(Top.ip) \ M
    BY <1>4 DEF FrameOK
  <2>3. ROOT_INODE \notin Names(Top.ip) /\ 0 \notin Names(Top.ip)
    <3>1. ROOT_INODE \notin Names(Top.ip)
      BY <1>1, <1>4, TreeFacts
    <3> QED
      BY <3>1 DEF Names, Entered
  <2>4. Here = 0
    BY <1>2, <1>4, <1>7, <2>1, <2>2, <2>3 DEF Followed, ROOT_INODE
  <2>5. Rest(g) = Rest(Top) /\ ~Uncounted(g) /\ ~Uncounted(Top)
    BY <2>1, <2>2, <2>3, <2>4 DEF Uncounted
  <2>6. stat' = Stats(M, M)
    BY <1>1, <1>4, <2>5
  <2> HIDE DEF g
  <2> QED
    BY <1>2, <1>3, <2>1, <2>5, <2>6, TreeKeeps DEF g
<1> QED
  BY <1>5, <1>6, <1>7

\* One more measured leaves a frame alone that does not wait for it.
LEMMA FrameMore ==
  ASSUME NEW f, NEW M, FrameOK(f, M), NEW x, x \notin Rest(f)
  PROVE  FrameOK(f, M \cup {x})
BY DEF FrameOK

\* An inode has one name only.
LEMMA OneName ==
  ASSUME NEW M, TreeHere(M), NEW op, At(op), NEW x \in Rest(Top)
  PROVE  /\ x \in Names(Top.ip) /\ x \notin M /\ x \in Under(stack[1].ip) /\ x \in DOMAIN disk.inode
         /\ \A p \in Under(stack[1].ip) : p # Top.ip => x \notin Names(p)
         /\ Names(x) \cap (M \cup {x}) = {}
         /\ disk.inode[x].dir => Blocks(x) = 1
<1> DEFINE i == stack[1].ip
<1>1. disk \in Disks /\ PlainTree(i) /\ TreeWalk(stack, stat, M)
  BY DEF TreeHere
<1>2. /\ i \in DOMAIN disk.inode /\ Top.ip \in Under(i) /\ Top.ip \in M /\ FrameOK(Top, M) /\ M \subseteq Under(i)
  BY TreeTop
<1>3. x \in Names(Top.ip) /\ x \notin M
  BY <1>2 DEF FrameOK
<1>4. x \in Under(i) /\ x \in DOMAIN disk.inode
  <2>1. Names(Top.ip) \subseteq Under(i) /\ Under(i) \subseteq DOMAIN disk.inode
    BY <1>1, <1>2, TreeFacts
  <2> QED
    BY <1>3, <2>1
<1>5. \A p, q \in Under(i) : p # q => Names(p) \cap Names(q) = {}
  BY <1>1 DEF PlainTree
<1>6. \A p \in Under(i) : p # Top.ip => x \notin Names(p)
  BY <1>2, <1>3, <1>5
<1>7. ASSUME NEW y \in Names(x), y \in M \cup {x} PROVE FALSE
  <2>1. y # i
    BY <1>1, <1>2, <1>4, TreeFacts
  <2>2. CASE y = x
    <3>1. x # Top.ip
      BY <1>2, <1>3
    <3> QED
      BY <1>4, <1>6, <1>7, <2>2, <3>1
  <2>3. CASE y \in M
    <3>1. PICK p \in M \ {y} : y \in Names(p)
      BY <1>1, <2>1, <2>3 DEF TreeWalk
    <3>2. p \in Under(i) /\ p # x
      BY <1>2, <1>3, <3>1
    <3> QED
      BY <1>4, <1>5, <1>7, <3>1, <3>2
  <2> QED
    BY <1>7, <2>2, <2>3
<1>8. disk.inode[x].dir => Blocks(x) = 1
  BY <1>1, <1>4 DEF PlainTree
<1> QED
  BY <1>3, <1>4, <1>6, <1>7, <1>8

LEMMA TreeDescend == ASSUME NEW M, TreeHere(M), Descend, mfs' = "up" PROVE TreeGoesOn
<1> DEFINE i == stack[1].ip
           m == Len(stack)
           mid == Advanced(<<>>, Top.left)
           g == Stepped(Top, <<>>, Top.left)
           x == Here
           f == FragFrame(Here)
           N == M \cup {x}
<1>1. /\ At("entry") /\ disk \in Disks /\ StackOK /\ Followed(x) /\ HasInode(x) /\ M \in SUBSET DOMAIN disk.inode
      /\ TreeWalk(stack, stat, M)
  BY DEF Descend, Panics, TreeHere
<1>2. stack' = Append([stack EXCEPT ![Len(stack)].todo = Tail(@)], f) /\ stat' = Measured(stat, x)
  BY <1>1 DEF Descend
<1>3. /\ Top.todo \in Seq(Item) /\ Top.todo # <<>> /\ Top.todo[1].op = "entry" /\ x = Top.todo[1].at /\ x \in Nat
      /\ Top.left \in Int /\ disk.inode[Top.ip].dir /\ FrameOK(Top, M) /\ Top.ip \in M /\ IsFiniteSet(M)
      /\ M \subseteq Under(i) /\ i \in M /\ Top = stack[m]
      /\ stat = Stats(M, IF Uncounted(Top) THEN M \ {Top.ip} ELSE M)
  BY <1>1, TreeTop
<1>4. /\ FrameOK(g, M) /\ ~Unread(g) /\ ~Unread(Top) /\ Rest(g) = Rest(Top) \ {x}
      /\ x # 0 => x \in Rest(Top)
  BY <1>3, EntryDone
<1>5. x \in Rest(Top)
  BY <1>1, <1>3, <1>4 DEF Followed, ROOT_INODE
<1>6. /\ x \in Names(Top.ip) /\ x \notin M /\ x \in Under(i) /\ x \in DOMAIN disk.inode
      /\ \A p \in Under(i) : p # Top.ip => x \notin Names(p)
      /\ Names(x) \cap N = {} /\ (disk.inode[x].dir => Blocks(x) = 1)
  BY <1>1, <1>5, OneName
<1>7. stack' = Append(mid, f)
  <2>1. [stack EXCEPT ![Len(stack)].todo = <<>> \o Tail(@)] = mid
    <3>1. <<>> \in Seq(Item)
      OBVIOUS
    <3> QED
      BY <1>1, <3>1, InsteadAdvances
  <2>2. <<>> \o Tail(Top.todo) = Tail(Top.todo)
    BY <1>3
  <2>3. [stack EXCEPT ![Len(stack)].todo = <<>> \o Tail(@)] = [stack EXCEPT ![Len(stack)].todo = Tail(@)]
    BY <1>3, <2>2
  <2> QED
    BY <1>2, <2>1, <2>3
<1>8. mid \in Seq(FrameOf(disk))
  <2>1. <<>> \in Seq(Item) /\ DOMAIN <<>> = {}
    OBVIOUS
  <2> QED
    BY <1>1, <1>3, <2>1, AdvancedSound
<1>9. f \in FrameOf(disk)
  BY <1>1, <1>6, NewFragFrame
<1>10. TopIs(mid, g)
  BY <1>1, AdvancedIs DEF Stepped
<1>11. f.ip = x /\ FrameOK(f, N) /\ Rest(f) = Names(x) /\ (Uncounted(f) <=> disk.inode[x].dir)
  <2>1. x \in N
    OBVIOUS
  <2> QED
    BY <1>1, <1>6, <2>1, NewTreeFrame
<1> HIDE DEF mid, g, f, x
<1>12. /\ DOMAIN mid = 1 .. m /\ Len(mid) = m /\ m \in Nat \ {0} /\ mid[m] = g /\ g.ip = Top.ip /\ DOMAIN stack = 1 .. m
       /\ \A n \in 1 .. m : n # m => mid[n] = stack[n]
       /\ \A n \in 1 .. m : mid[n].ip = stack[n].ip
  BY <1>3, <1>10 DEF TopIs
<1> HIDE DEF m
<1> DEFINE s == stack'
<1>13. /\ DOMAIN s = 1 .. m + 1 /\ Len(s) = m + 1 /\ s[m + 1] = f
       /\ \A n \in 1 .. m : s[n] = mid[n]
  BY <1>7, <1>8, <1>9, <1>12
<1> HIDE DEF s
<1>14. 1 \in 1 .. m /\ m \in 1 .. m /\ 1 .. m + 1 = (1 .. m) \cup {m + 1} /\ m + 1 \notin 1 .. m
  BY <1>12
<1>15. s[1].ip = i
  BY <1>12, <1>13, <1>14
<1>16. /\ \A n \in 1 .. m : FrameOK(stack[n], M)
       /\ \A n, k \in 1 .. m : stack[n].ip = stack[k].ip => n = k
       /\ \A n \in 1 .. m : Unread(stack[n]) => n = m
       /\ \A y \in M \ {i} : \E p \in M \ {y} : y \in Names(p)
       /\ \A p \in M : \A y \in Names(p) : y \in M \/ \E n \in 1 .. m : stack[n].ip = p /\ y \in Rest(stack[n])
  BY <1>1, <1>12 DEF TreeWalk
<1>17. \A n \in 1 .. m : stack[n].ip \in M /\ stack[n].ip \in Under(i)
  BY <1>3, <1>16 DEF FrameOK
<1>18. N \subseteq Under(i) /\ N \subseteq DOMAIN disk.inode /\ IsFiniteSet(N) /\ i \in N
  BY <1>1, <1>3, <1>6, FS_AddElement
<1>19. ASSUME NEW n \in 1 .. m + 1 PROVE FrameOK(s[n], N)
  <2>1. CASE n = m + 1
    BY <1>11, <1>13, <2>1
  <2>2. CASE n = m
    <3>1. x \notin Rest(g)
      BY <1>4
    <3> QED
      BY <1>4, <1>12, <1>13, <1>14, <2>2, <3>1, FrameMore
  <2>3. CASE n # m /\ n # m + 1
    <3>1. n \in 1 .. m /\ s[n] = stack[n]
      BY <1>12, <1>13, <1>14, <2>3
    <3>2. stack[n].ip # Top.ip /\ stack[n].ip \in Under(i)
      BY <1>3, <1>14, <1>16, <1>17, <2>3, <3>1
    <3>3. x \notin Rest(stack[n])
      BY <1>6, <1>16, <3>1, <3>2 DEF FrameOK
    <3> QED
      BY <1>16, <3>1, <3>3, FrameMore
  <2> QED
    BY <2>1, <2>2, <2>3
<1>20. ASSUME NEW n \in 1 .. m + 1, NEW k \in 1 .. m + 1, s[n].ip = s[k].ip PROVE n = k
  <2>1. \A j \in 1 .. m : s[j].ip = stack[j].ip /\ s[j].ip # s[m + 1].ip
    BY <1>6, <1>11, <1>12, <1>13, <1>17
  <2> QED
    BY <1>14, <1>16, <1>20, <2>1
<1>21. ASSUME NEW n \in 1 .. m + 1, Unread(s[n]) PROVE n = m + 1
  <2>1. CASE n = m
    BY <1>4, <1>12, <1>13, <1>14, <1>21, <2>1
  <2>2. CASE n # m /\ n # m + 1
    BY <1>12, <1>13, <1>14, <1>16, <1>21, <2>2
  <2> QED
    BY <2>1, <2>2
<1>22. ASSUME NEW y \in N \ {i} PROVE \E p \in N \ {y} : y \in Names(p)
  <2>1. CASE y = x
    BY <1>3, <1>6, <2>1
  <2>2. CASE y # x
    BY <1>16, <2>2
  <2> QED
    BY <2>1, <2>2
<1>23. ASSUME NEW p \in N, NEW y \in Names(p), y \notin N
       PROVE  \E n \in 1 .. m + 1 : s[n].ip = p /\ y \in Rest(s[n])
  <2>1. CASE p = x
    BY <1>11, <1>13, <1>14, <2>1
  <2>2. CASE p # x
    <3>1. PICK n \in 1 .. m : stack[n].ip = p /\ y \in Rest(stack[n])
      BY <1>16, <1>23, <2>2
    <3>2. y \in Rest(s[n])
      <4>1. CASE n = m
        <5>1. y \in Rest(g)
          BY <1>3, <1>4, <1>23, <3>1, <4>1
        <5> QED
          BY <1>12, <1>13, <4>1, <5>1
      <4>2. CASE n # m
        BY <1>12, <1>13, <3>1, <4>2
      <4> QED
        BY <4>1, <4>2
    <3>3. s[n].ip = p /\ n \in 1 .. m + 1
      BY <1>12, <1>13, <1>14, <3>1
    <3> QED
      BY <3>2, <3>3
  <2> QED
    BY <2>1, <2>2
<1>24. stat' = Stats(N, IF Uncounted(s[Len(s)]) THEN N \ {s[Len(s)].ip} ELSE N)
  <2>1. stat = Stats(M, M)
    BY <1>3, <1>4 DEF Uncounted
  <2>2. Measured(Stats(M, M), x) = Stats(N, IF disk.inode[x].dir THEN M ELSE N)
    <3>1. disk \in Disks /\ M \in SUBSET DOMAIN disk.inode /\ IsFiniteSet(M) /\ x \in DOMAIN disk.inode /\ x \notin M
      BY <1>1, <1>3, <1>6
    <3> QED
      BY <3>1, OneMoreMeasured, ZenonT(60)
  <2>3. s[Len(s)] = f /\ N \ {x} = M
    BY <1>6, <1>13
  <2> QED
    BY <1>2, <1>11, <2>1, <2>2, <2>3 DEF x
<1>25. TreeWalk(s, stat', N)
  <2> DEFINE t == stat'
  <2> HIDE DEF t, N
  <2>1. t = Stats(N, IF Uncounted(s[Len(s)]) THEN N \ {s[Len(s)].ip} ELSE N)
    BY <1>24 DEF t
  <2>2. TreeWalk(s, t, N)
    BY <1>13, <1>15, <1>18, <1>19, <1>20, <1>21, <1>22, <1>23, <2>1 DEF TreeWalk
  <2> QED
    BY <2>2 DEF t
<1> QED
  BY <1>15, <1>18, <1>25 DEF TreeGoesOn, s

\* A frame with nothing to do waits for nothing.
LEMMA NothingLeft ==
  ASSUME NEW f, f.todo = <<>>
  PROVE  Rest(f) = {} /\ ~Unread(f) /\ ~Uncounted(f)
<1>1. ~Unread(f) /\ ~Uncounted(f)
  BY DEF Unread, Uncounted
<1>2. Waiting(f) = {}
  <2>1. DOMAIN f.todo = {}
    OBVIOUS
  <2> QED
    BY <2>1 DEF Waiting
<1> QED
  BY <1>1, <1>2 DEF Rest

\* The innermost inode is measured whole.
LEMMA TreeAscend == ASSUME NEW M, TreeHere(M), Ascend, Len(stack) # 1 PROVE TreeGoesOn
<1> DEFINE i == stack[1].ip
           m == Len(stack)
           s == stack'
<1>1. /\ disk \in Disks /\ StackOK /\ M \in SUBSET DOMAIN disk.inode /\ TreeWalk(stack, stat, M)
      /\ stack # <<>> /\ Top.todo = <<>> /\ stack' = Front(stack) /\ stat' = stat
  BY DEF Ascend, TreeHere
<1>2. stack \in Seq(FrameOf(disk))
  BY <1>1 DEF StackOK
<1>3. /\ Len(s) = m - 1 /\ m \in Nat \ {0} /\ s \in Seq(FrameOf(disk)) /\ DOMAIN stack = 1 .. m
      /\ \A k \in 1 .. m - 1 : s[k] = stack[k]
  BY <1>1, <1>2, FrontIs
<1>4. Top = stack[m]
  BY <1>1, <1>2 DEF Top, Last
<1>5. Rest(stack[m]) = {} /\ ~Uncounted(stack[m])
  BY <1>1, <1>4, NothingLeft
<1>6. DOMAIN s = 1 .. m - 1
  BY <1>3
<1>7. m # 1
  OBVIOUS
<1> HIDE DEF s, m
<1>8. /\ 1 \in 1 .. m - 1 /\ m - 1 \in 1 .. m - 1 /\ m - 1 # m /\ m - 1 \in 1 .. m
      /\ \A n \in 1 .. m - 1 : n \in 1 .. m /\ n # m
      /\ \A n \in 1 .. m : n # m => n \in 1 .. m - 1
  BY <1>3, <1>7
<1>9. /\ M \subseteq Under(i) /\ IsFiniteSet(M) /\ i \in M
      /\ \A n \in 1 .. m : FrameOK(stack[n], M)
      /\ \A n, k \in 1 .. m : stack[n].ip = stack[k].ip => n = k
      /\ \A n \in 1 .. m : Unread(stack[n]) => n = m
      /\ \A y \in M \ {i} : \E p \in M \ {y} : y \in Names(p)
      /\ \A p \in M : \A y \in Names(p) : y \in M \/ \E n \in 1 .. m : stack[n].ip = p /\ y \in Rest(stack[n])
      /\ stat = Stats(M, IF Uncounted(stack[m]) THEN M \ {stack[m].ip} ELSE M)
  BY <1>1, <1>3 DEF TreeWalk, m
<1>10. s[1].ip = i
  BY <1>3, <1>8
<1>11. \A n \in 1 .. m - 1 : FrameOK(s[n], M) /\ ~Unread(s[n])
  BY <1>3, <1>8, <1>9
<1>12. \A n, k \in 1 .. m - 1 : s[n].ip = s[k].ip => n = k
  BY <1>3, <1>8, <1>9
<1>13. ASSUME NEW p \in M, NEW y \in Names(p), y \notin M
       PROVE  \E n \in 1 .. m - 1 : s[n].ip = p /\ y \in Rest(s[n])
  <2>1. PICK n \in 1 .. m : stack[n].ip = p /\ y \in Rest(stack[n])
    BY <1>9, <1>13
  <2>2. n # m
    BY <1>5, <2>1
  <2>3. n \in 1 .. m - 1 /\ s[n] = stack[n]
    BY <1>3, <1>8, <2>2
  <2> QED
    BY <2>1, <2>3
<1>14. ~Uncounted(s[Len(s)])
  BY <1>3, <1>8, <1>11 DEF Uncounted
<1>15. stat' = Stats(M, IF Uncounted(s[Len(s)]) THEN M \ {s[Len(s)].ip} ELSE M)
  BY <1>1, <1>5, <1>9, <1>14
<1>16. TreeWalk(s, stat', M)
  <2> DEFINE t == stat'
  <2> HIDE DEF t
  <2>1. t = Stats(M, IF Uncounted(s[Len(s)]) THEN M \ {s[Len(s)].ip} ELSE M)
    BY <1>15 DEF t
  <2>2. TreeWalk(s, t, M)
    BY <1>3, <1>6, <1>9, <1>10, <1>11, <1>12, <1>13, <2>1 DEF TreeWalk
  <2> QED
    BY <2>2 DEF t
<1> QED
  BY <1>1, <1>10, <1>16 DEF TreeGoesOn, s

\* The last frame: what is measured is the tree.
LEMMA TreeDone ==
  ASSUME NEW M, TreeHere(M), stack # <<>>, Top.todo = <<>>, Len(stack) = 1
  PROVE  M = Under(stack[1].ip) /\ stat = Stats(M, M) /\ IsFiniteSet(M) /\ stack[1].ip \in M
<1> DEFINE i == stack[1].ip
<1>1. /\ disk \in Disks /\ PlainTree(i) /\ M \in SUBSET DOMAIN disk.inode /\ TreeWalk(stack, stat, M)
      /\ stack \in Seq(FrameOf(disk))
  BY DEF TreeHere, StackOK
<1>2. Top = stack[1] /\ DOMAIN stack = {1}
  <2>1. Top = stack[Len(stack)]
    BY <1>1 DEF Top, Last
  <2>2. DOMAIN stack = 1 .. 1
    BY <1>1
  <2> QED
    BY <2>1, <2>2
<1>3. Rest(stack[1]) = {} /\ ~Uncounted(stack[1])
  BY <1>2, NothingLeft
<1>4. /\ M \subseteq Under(i) /\ IsFiniteSet(M) /\ i \in M /\ stat = Stats(M, M)
      /\ \A p \in M : \A y \in Names(p) : y \in M
  BY <1>1, <1>2, <1>3 DEF TreeWalk
<1>5. Closed(M)
  BY <1>4 DEF Closed
<1>6. Under(i) \subseteq M
  BY <1>1, <1>4, <1>5, TreeFacts
<1> QED
  BY <1>4, <1>6

\* A walk starts with its top measured.
LEMMA TreeStarts ==
  ASSUME disk \in Disks, NEW i \in DOMAIN disk.inode, PlainTree(i)
  PROVE  TreeWalk(<<FragFrame(i)>>, Measured(NoStat, i), {i}) /\ <<FragFrame(i)>>[1].ip = i
<1> DEFINE f == FragFrame(i)
           M == {i}
           s == <<f>>
<1>1. i \in Under(i) /\ i \notin Names(i)
  BY TreeFacts
<1>2. disk.inode[i].dir => Blocks(i) = 1
  BY <1>1 DEF PlainTree
<1>3. i \in M /\ Names(i) \cap M = {}
  BY <1>1
<1>4. f.ip = i /\ FrameOK(f, M) /\ Rest(f) = Names(i) /\ (Uncounted(f) <=> disk.inode[i].dir)
  BY <1>2, <1>3, NewTreeFrame
<1>5. Measured(NoStat, i) = Stats(M, IF Uncounted(f) THEN M \ {i} ELSE M)
  <2>1. {} \in SUBSET DOMAIN disk.inode /\ IsFiniteSet({}) /\ i \notin {}
    BY FS_EmptySet
  <2>2. Measured(Stats({}, {}), i) = Stats({} \cup {i}, IF disk.inode[i].dir THEN {} ELSE {} \cup {i})
    BY <2>1, OneMoreMeasured, ZenonT(60)
  <2>3. {} \cup {i} = M /\ M \ {i} = {}
    OBVIOUS
  <2>4. CASE disk.inode[i].dir
    BY <1>4, <2>2, <2>3, <2>4, NothingCounted
  <2>5. CASE ~disk.inode[i].dir
    BY <1>4, <2>2, <2>3, <2>5, NothingCounted
  <2> QED
    BY <2>4, <2>5
<1> HIDE DEF f
<1>6. DOMAIN s = {1} /\ Len(s) = 1 /\ s[1] = f
  <2>1. DOMAIN s = 1 .. 1
    OBVIOUS
  <2> QED
    BY <2>1
<1> HIDE DEF s
<1>7. M \subseteq Under(i) /\ IsFiniteSet(M)
  BY <1>1, FS_Singleton
<1>8. s[1].ip = i /\ s[Len(s)] = f
  BY <1>4, <1>6
<1>9. TreeWalk(s, Measured(NoStat, i), M)
  <2> DEFINE t == Measured(NoStat, i)
  <2>1. t = Stats(M, IF Uncounted(s[Len(s)]) THEN M \ {s[Len(s)].ip} ELSE M)
    BY <1>4, <1>5, <1>8
  <2> HIDE DEF t
  <2>2. TreeWalk(s, t, M)
    BY <1>3, <1>4, <1>6, <1>7, <1>8, <2>1 DEF TreeWalk
  <2> QED
    BY <2>2 DEF t
<1> QED
  BY <1>8, <1>9 DEF s, f

\* What a tree is depends on the disk only.
LEMMA SameTree ==
  ASSUME disk' = disk
  PROVE  /\ \A i : PlainTree(i)' <=> PlainTree(i)
         /\ \A s, st, M : TreeWalk(s, st, M)' <=> TreeWalk(s, st, M)
<1>1. blocksPerZone' = blocksPerZone /\ Scale' = Scale
  BY DEF blocksPerZone, Scale
<1>2. \A i : Blocks(i)' = Blocks(i) /\ FragVal(i)' = FragVal(i) /\ Zone(i)' = Zone(i)
  BY DEF Blocks, FragVal, Size, Zone
<1>3. \A z, n : Entry(z, n)' = Entry(z, n)
  BY DEF Entry
<1>4. \A i, n : ZoneOf(i, n)' = ZoneOf(i, n)
  BY <1>2, <1>3 DEF ZoneOf
<1>5. \A i, n : BlockOf(i, n)' = BlockOf(i, n) /\ (Hole(i, n)' <=> Hole(i, n))
  BY <1>1, <1>4 DEF BlockOf, Hole
<1>6. \A i : Slots(i)' = Slots(i)
  BY <1>2, <1>5 DEF Slots
<1>7. \A i : Entered(i)' = Entered(i)
  BY <1>6 DEF Entered
<1>8. \A i : Names(i)' = Names(i)
  BY <1>6, <1>7 DEF Names
<1>9. \A S : Closed(S)' <=> Closed(S)
  BY <1>8 DEF Closed
<1>10. \A i : Under(i)' = Under(i)
  BY <1>9 DEF Under
<1>11. \A i : PlainTree(i)' <=> PlainTree(i)
  BY <1>2, <1>5, <1>6, <1>7, <1>8, <1>10 DEF PlainTree
<1>12. Wasted' = Wasted /\ Taken' = Taken /\ Dirs' = Dirs
  BY <1>2 DEF Wasted, Taken, Dirs
<1>13. \A C : WastedBy(C)' = WastedBy(C)
  BY <1>12 DEF WastedBy
<1>14. \A b : InBin(b)' = InBin(b)
  BY <1>12 DEF InBin
<1>15. \A C : Binned(C)' = Binned(C)
  BY <1>14 DEF Binned
<1>16. \A C : SumOver(Wasted, C)' = SumOver(Wasted, C) /\ SumOver(Taken, C)' = SumOver(Taken, C)
  BY <1>12 DEF SumOver, Sums
<1>17. \A M, C : Stats(M, C)' = Stats(M, C)
  BY <1>12, <1>13, <1>15, <1>16 DEF Stats
<1>18. \A d : FirstBlock(d)' = FirstBlock(d)
  BY <1>1, <1>2 DEF FirstBlock
<1>19. \A f : Unread(f)' <=> Unread(f)
  BY <1>2, <1>18 DEF Unread
<1>20. \A f : Rest(f)' = Rest(f)
  BY <1>8, <1>19 DEF Rest
<1>21. \A f, M : FrameOK(f, M)' <=> FrameOK(f, M)
  BY <1>8, <1>19, <1>20 DEF FrameOK
<1>22. \A f : Uncounted(f)' <=> Uncounted(f)
  BY <1>19 DEF Uncounted
<1>23. \A s, st, M : TreeWalk(s, st, M)' <=> TreeWalk(s, st, M)
  <2> TAKE s, st, M
  <2> QED
    BY <1>8, <1>10, <1>17, <1>19, <1>20, <1>21, <1>22 DEF TreeWalk
<1> QED
  BY <1>11, <1>23

-----------------------------------------------------------------------------
(* A step of the tool keeps the walk; at its end the whole tree is         *)
(* measured.                                                               *)

\* No step changes the inode of the request.
LEMMA SameTop ==
  ASSUME FsInv, MfsStep, req = "frag", req' = "frag", mfs' = "up"
  PROVE  stack'[1].ip = stack[1].ip
<1> DEFINE m == Len(stack)
<1>1. stack \in Seq(FrameOf(disk)) /\ stack # <<>>
  BY DEF FsInv, StackOK, MfsStep, Skip, Indirect, PutIndirect, WalkZone, ListBlock, MeasureDir, DirBlock, Descend,
         DirBlockDone, Ascend, ScanBit, ScanBlockEnds, ScanReports, At
<1>2. m \in Nat \ {0} /\ DOMAIN stack = 1 .. m /\ \A n \in 1 .. m : stack[n] \in FrameOf(disk)
  BY <1>1
<1>3. 1 \in 1 .. m /\ m \in 1 .. m
  BY <1>2
<1>4. ASSUME NEW x, NEW s, s = [stack EXCEPT ![m].todo = x] PROVE s[1].ip = stack[1].ip
  <2>1. s = [stack EXCEPT ![m] = [stack[m] EXCEPT !.todo = x]]
    BY <1>4
  <2>2. [stack[m] EXCEPT !.todo = x].ip = stack[m].ip
    BY <1>2, <1>3, FrameFields
  <2> HIDE DEF m
  <2>3. CASE m = 1
    BY <1>2, <1>3, <2>1, <2>2, <2>3
  <2>4. CASE m # 1
    BY <1>2, <1>3, <2>1, <2>4
  <2> QED
    BY <2>3, <2>4
<1>5. \A items : Instead(items) => stack'[1].ip = stack[1].ip
  BY <1>4 DEF Instead
<1>6. CASE Skip \/ PutIndirect \/ WalkZone \/ MeasureDir
  BY <1>5, <1>6 DEF Skip, PutIndirect, WalkZone, MeasureDir
<1>7. CASE Indirect \/ DirBlock
  BY <1>5, <1>7 DEF Indirect, DirBlock, Panics
<1>8. CASE DirBlockDone
  <2>1. At("done") /\ disk \in Disks /\ StackOK
    BY <1>8 DEF DirBlockDone, FsInv
  <2>2. stack' = Advanced(<<>>, Top.left - 1)
    <3>1. <<>> \in Seq(Item)
      OBVIOUS
    <3> QED
      BY <1>8, <2>1, <3>1, InsteadAdvances DEF DirBlockDone
  <2> DEFINE s == Advanced(<<>>, Top.left - 1)
  <2>3. s[1].ip = stack[1].ip
    <3>1. TopIs(s, [ip |-> Top.ip, left |-> Top.left - 1, todo |-> <<>> \o Tail(Top.todo)])
      BY <2>1, AdvancedIs
    <3> HIDE DEF s
    <3> QED
      BY <1>3, <3>1 DEF TopIs
  <2> QED
    BY <2>2, <2>3
<1>9. CASE Descend
  <2> DEFINE s == [stack EXCEPT ![m].todo = Tail(@)]
             f == FragFrame(Here)
  <2>1. stack' = Append(s, f)
    BY <1>9 DEF Descend, Panics
  <2>2. s = [stack EXCEPT ![m].todo = Tail(stack[m].todo)]
    BY <1>2, <1>3
  <2>3. s[1].ip = stack[1].ip
    BY <1>4, <2>2
  <2>4. s = [n \in 1 .. m |-> s[n]]
    BY <1>2
  <2> HIDE DEF s, f
  <2> DEFINE S == {s[n] : n \in 1 .. m}
  <2>5. s \in [1 .. m -> S]
    BY <2>4
  <2> HIDE DEF S
  <2>6. s \in Seq(S) /\ Len(s) = m
    BY <1>2, <2>5
  <2>7. Append(s, f)[1] = s[1]
    BY <1>2, <2>6
  <2> QED
    BY <2>1, <2>3, <2>7
<1>10. CASE Ascend
  <2>1. stack' = Front(stack) /\ m # 1
    BY <1>10 DEF Ascend
  <2>2. \A k \in 1 .. m - 1 : stack'[k] = stack[k]
    BY <1>1, <2>1, FrontIs
  <2>3. 1 \in 1 .. m - 1
    BY <1>2, <2>1
  <2> QED
    BY <2>2, <2>3
<1> QED
  BY <1>6, <1>7, <1>8, <1>9, <1>10 DEF MfsStep, ListBlock, ScanBit, ScanBlockEnds, ScanReports

\* In a plain tree there is nothing to do with indirect zones.
LEMMA NoIndirect == ASSUME NEW M, TreeHere(M) PROVE ~Indirect /\ ~PutIndirect
<1> SUFFICES ASSUME Indirect \/ PutIndirect PROVE FALSE
  OBVIOUS
<1>1. PICK op \in {"single", "double", "put"} : At(op) /\ (op = "put" \/ Top.left # 0)
  BY DEF Indirect, PutIndirect, AtEnd, TreeHere
<1>2. /\ Top.todo \in Seq(Item) /\ Top.todo # <<>> /\ Top.todo[1].op = op /\ disk.inode[Top.ip].dir /\ FrameOK(Top, M)
  BY <1>1, TreeTop
<1> QED
  BY <1>1, <1>2, Shapes

LEMMA TreeStep == FsInv /\ TreeInv /\ [ToolNext]_toolVars => TreeInv'
<1> SUFFICES ASSUME FsInv, TreeInv, [ToolNext]_toolVars, req' = "frag", mfs' = "up", PlainTree(stack[1].ip)'
             PROVE  \E M \in SUBSET DOMAIN disk'.inode : TreeWalk(stack, stat, M)'
  BY DEF TreeInv
<1>1. disk' = disk
  <2>1. MfsGoesOn => disk' = disk
    BY DEF MfsGoesOn, MfsStep, Skip, Indirect, PutIndirect, WalkZone, ListBlock, MeasureDir, DirBlock, Descend,
           DirBlockDone, Ascend, Panics, ScanBit, ScanBlockEnds, ScanReports
  <2>2. Send => disk' = disk
    BY DEF Send, fs_get_inode_blocks, fs_get_int_frag, fs_getfrag
  <2> QED
    BY <2>1, <2>2, MfsMoves DEF mfsVars
<1>2. PlainTree(stack'[1].ip)
  BY <1>1, SameTree
<1>3. (\E M \in SUBSET DOMAIN disk.inode : TreeWalk(stack', stat', M)) =>
        \E M \in SUBSET DOMAIN disk'.inode : TreeWalk(stack, stat, M)'
  BY <1>1, SameTree
<1>4. CASE UNCHANGED mfsVars
  <2>1. stack' = stack /\ stat' = stat /\ req = "frag" /\ mfs = "up"
    BY <1>4 DEF mfsVars
  <2> QED
    BY <1>2, <1>3, <2>1 DEF TreeInv
<1>5. CASE Send
  <2>1. fs_get_int_frag(job.ip) /\ job.todo # <<>>
    BY <1>5 DEF Send, fs_get_inode_blocks, fs_getfrag
  <2>2. disk \in Disks /\ job.ip \in DOMAIN disk.inode
    BY <2>1 DEF FsInv, JobOK, NoJob
  <2> DEFINE i == job.ip
             s == <<FragFrame(i)>>
  <2>3. stack' = s /\ stat' = Measured(NoStat, i)
    BY <2>1 DEF fs_get_int_frag
  <2>4. s[1].ip = i
    BY <2>2, NewFragFrame
  <2>5. PlainTree(i)
    BY <1>2, <2>3, <2>4
  <2>6. TreeWalk(s, Measured(NoStat, i), {i})
    BY <2>2, <2>5, TreeStarts
  <2>7. {i} \in SUBSET DOMAIN disk.inode
    BY <2>2
  <2> HIDE DEF s, i
  <2> QED
    BY <1>3, <2>3, <2>6, <2>7
<1>6. CASE MfsGoesOn
  <2>1. req = "frag" /\ mfs = "up" /\ MfsStep
    BY <1>6 DEF MfsGoesOn, MfsStep, Skip, Indirect, PutIndirect, WalkZone, ListBlock, MeasureDir, DirBlock, Descend,
           DirBlockDone, Ascend, Panics, ScanBit, ScanBlockEnds, ScanReports, At
  <2>2. stack'[1].ip = stack[1].ip
    BY <2>1, SameTop
  <2>3. PlainTree(stack[1].ip)
    BY <1>2, <2>2
  <2>4. PICK M \in SUBSET DOMAIN disk.inode : TreeWalk(stack, stat, M)
    BY <2>1, <2>3 DEF TreeInv
  <2>5. TreeHere(M)
    BY <2>1, <2>3, <2>4 DEF TreeHere, FsInv
  <2>6. TreeGoesOn
    <3>1. CASE Skip
      BY <2>5, <3>1, TreeSkip
    <3>2. CASE WalkZone
      BY <2>5, <3>2, TreeWalkZone
    <3>3. CASE MeasureDir
      BY <2>5, <3>3, TreeMeasureDir
    <3>4. CASE DirBlock
      BY <2>5, <3>4, TreeDirBlock
    <3>5. CASE Descend
      BY <2>5, <3>5, TreeDescend
    <3>6. CASE DirBlockDone
      BY <2>5, <3>6, TreeBlockDone
    <3>7. CASE Ascend
      <4>1. Len(stack) # 1
        BY <3>7 DEF Ascend
      <4> QED
        BY <2>5, <3>7, <4>1, TreeAscend
    <3>8. CASE Indirect \/ PutIndirect
      BY <2>5, <3>8, NoIndirect
    <3>9. CASE ListBlock \/ ScanBit \/ ScanBlockEnds \/ ScanReports
      BY <2>1, <3>9 DEF ListBlock, ScanBit, ScanBlockEnds, ScanReports
    <3> QED
      BY <2>1, <3>1, <3>2, <3>3, <3>4, <3>5, <3>6, <3>7, <3>8, <3>9 DEF MfsStep
  <2> QED
    BY <1>3, <2>6 DEF TreeGoesOn
<1> QED
  BY <1>4, <1>5, <1>6, MfsMoves

\* The sum of FragVal, and of Blocks, as a function.
LEMMA SumOfFragVal ==
  ASSUME disk \in Disks, NEW S \in SUBSET DOMAIN disk.inode, IsFiniteSet(S)
  PROVE  LET g == [x \in S |-> FragVal(x)]
         IN  \E f : Sums(f, g, S) /\ MapThenSumSet(FragVal, S) = f[S]
<1> DEFINE g == [x \in S |-> FragVal(x)]
           c == CHOOSE f : f = [T \in SUBSET S |-> IF T = {} THEN 0
                                  ELSE LET x == CHOOSE x \in T : TRUE IN FragVal(x) + f[T \ {x}]]
<1>1. MapThenSumSet(FragVal, S) = c[S]
  BY DEF MapThenSumSet, MapThenFoldSet
<1>2. g \in [S -> Nat]
  BY FragVals, Sizes
<1>3. c = [T \in SUBSET S |-> IF T = {} THEN 0
                              ELSE LET x == CHOOSE x \in T : TRUE IN FragVal(x) + c[T \ {x}]]
  <2>1. PICK f \in [SUBSET S -> Nat] : Sums(f, g, S)
    <3> HIDE DEF g
    <3> QED BY <1>2, SumExists
  <2>2. ASSUME NEW T \in SUBSET S
        PROVE  f[T] = IF T = {} THEN 0 ELSE LET x == CHOOSE x \in T : TRUE IN FragVal(x) + f[T \ {x}]
    <3>1. f[T] = IF T = {} THEN 0 ELSE LET x == CHOOSE x \in T : TRUE IN g[x] + f[T \ {x}]
      <4> HIDE DEF g
      <4> QED BY <2>1 DEF Sums
    <3>2. T # {} => (CHOOSE x \in T : TRUE) \in S
      OBVIOUS
    <3> QED
      BY <3>1, <3>2
  <2>3. f = [T \in SUBSET S |-> IF T = {} THEN 0
                                ELSE LET x == CHOOSE x \in T : TRUE IN FragVal(x) + f[T \ {x}]]
    BY <2>1, <2>2
  <2> QED
    BY <2>3
<1> HIDE DEF c
<1>4. ASSUME NEW T \in SUBSET S
      PROVE  c[T] = IF T = {} THEN 0 ELSE LET x == CHOOSE x \in T : TRUE IN g[x] + c[T \ {x}]
  <2>1. c[T] = IF T = {} THEN 0 ELSE LET x == CHOOSE x \in T : TRUE IN FragVal(x) + c[T \ {x}]
    BY <1>3
  <2>2. T # {} => (CHOOSE x \in T : TRUE) \in S
    OBVIOUS
  <2> QED
    BY <2>1, <2>2
<1>5. Sums(c, g, S)
  BY <1>4 DEF Sums
<1> QED
  BY <1>1, <1>5

LEMMA SumOfBlocks ==
  ASSUME disk \in Disks, NEW S \in SUBSET DOMAIN disk.inode, IsFiniteSet(S)
  PROVE  LET g == [x \in S |-> Blocks(x)]
         IN  \E f : Sums(f, g, S) /\ MapThenSumSet(Blocks, S) = f[S]
<1> DEFINE g == [x \in S |-> Blocks(x)]
           c == CHOOSE f : f = [T \in SUBSET S |-> IF T = {} THEN 0
                                  ELSE LET x == CHOOSE x \in T : TRUE IN Blocks(x) + f[T \ {x}]]
<1>1. MapThenSumSet(Blocks, S) = c[S]
  BY DEF MapThenSumSet, MapThenFoldSet
<1>2. g \in [S -> Nat]
  BY Fits
<1>3. c = [T \in SUBSET S |-> IF T = {} THEN 0
                              ELSE LET x == CHOOSE x \in T : TRUE IN Blocks(x) + c[T \ {x}]]
  <2>1. PICK f \in [SUBSET S -> Nat] : Sums(f, g, S)
    <3> HIDE DEF g
    <3> QED BY <1>2, SumExists
  <2>2. ASSUME NEW T \in SUBSET S
        PROVE  f[T] = IF T = {} THEN 0 ELSE LET x == CHOOSE x \in T : TRUE IN Blocks(x) + f[T \ {x}]
    <3>1. f[T] = IF T = {} THEN 0 ELSE LET x == CHOOSE x \in T : TRUE IN g[x] + f[T \ {x}]
      <4> HIDE DEF g
      <4> QED BY <2>1 DEF Sums
    <3>2. T # {} => (CHOOSE x \in T : TRUE) \in S
      OBVIOUS
    <3> QED
      BY <3>1, <3>2
  <2>3. f = [T \in SUBSET S |-> IF T = {} THEN 0
                                ELSE LET x == CHOOSE x \in T : TRUE IN Blocks(x) + f[T \ {x}]]
    BY <2>1, <2>2
  <2> QED
    BY <2>3
<1> HIDE DEF c
<1>4. ASSUME NEW T \in SUBSET S
      PROVE  c[T] = IF T = {} THEN 0 ELSE LET x == CHOOSE x \in T : TRUE IN g[x] + c[T \ {x}]
  <2>1. c[T] = IF T = {} THEN 0 ELSE LET x == CHOOSE x \in T : TRUE IN Blocks(x) + c[T \ {x}]
    BY <1>3
  <2>2. T # {} => (CHOOSE x \in T : TRUE) \in S
    OBVIOUS
  <2> QED
    BY <2>1, <2>2
<1>5. Sums(c, g, S)
  BY <1>4 DEF Sums
<1> QED
  BY <1>1, <1>5

\* Statistics of a set of inodes, as TreeMeasured states them.
Measures(st, U) ==
  /\ st.dirs = Cardinality({d \in U : disk.inode[d].dir})
  /\ st.entries = Cardinality(U)
  /\ st.blocks = MapThenSumSet(Blocks, U)
  /\ st.total = MapThenSumSet(FragVal, U)
  /\ st.min = Min({FragVal(d) : d \in U}) /\ st.max = Max({FragVal(d) : d \in U})
  /\ \A b \in DOMAIN st.bin : st.bin[b] = Cardinality({d \in U : Bin(FragVal(d)) = b})

LEMMA SumOverAll ==
  ASSUME NEW S, IsFiniteSet(S), NEW g, \A x \in S : g[x] \in Nat, NEW k, \A x \in S : k[x] = g[x],
         NEW h, Sums(h, k, S)
  PROVE  SumOver(g, S) = h[S]
<1>1. S \in SUBSET S
  OBVIOUS
<1> QED
  BY <1>1, SumOverIs

LEMMA StatsAre ==
  ASSUME disk \in Disks, NEW U \in SUBSET DOMAIN disk.inode, IsFiniteSet(U), U # {},
         NEW st, st = Stats(U, U)
  PROVE  Measures(st, U)
<1>1. /\ st.entries = Cardinality(U) /\ st.dirs = Cardinality(U \cap Dirs)
      /\ st.total = SumOver(Wasted, U) /\ st.blocks = SumOver(Taken, U)
  BY DEF Stats
<1>2. st.min = Min(WastedBy(U)) /\ st.max = Max(WastedBy(U)) /\ st.bin = Binned(U)
  BY DEF Stats
<1>3. U \cap Dirs = {d \in U : disk.inode[d].dir}
  BY DEF Dirs
<1>4. \A d \in U : Wasted[d] = FragVal(d) /\ Wasted[d] \in Nat
  BY FragVals DEF Wasted
<1>5. \A d \in U : Taken[d] = Blocks(d) /\ Taken[d] \in Nat
  BY BlocksNat DEF Taken
<1>6. WastedBy(U) = {FragVal(d) : d \in U}
  BY <1>4 DEF WastedBy
<1>7. SumOver(Wasted, U) = MapThenSumSet(FragVal, U)
  <2> DEFINE k == [x \in U |-> FragVal(x)]
  <2>1. PICK h : Sums(h, k, U) /\ MapThenSumSet(FragVal, U) = h[U]
    BY SumOfFragVal
  <2>2. \A x \in U : k[x] = Wasted[x]
    BY <1>4
  <2> HIDE DEF k
  <2>3. SumOver(Wasted, U) = h[U]
    BY <1>4, <2>1, <2>2, SumOverAll
  <2> QED
    BY <2>1, <2>3
<1>8. SumOver(Taken, U) = MapThenSumSet(Blocks, U)
  <2> DEFINE k == [x \in U |-> Blocks(x)]
  <2>1. PICK h : Sums(h, k, U) /\ MapThenSumSet(Blocks, U) = h[U]
    BY SumOfBlocks
  <2>2. \A x \in U : k[x] = Taken[x]
    BY <1>5
  <2> HIDE DEF k
  <2>3. SumOver(Taken, U) = h[U]
    BY <1>5, <2>1, <2>2, SumOverAll
  <2> QED
    BY <2>1, <2>3
<1>9. ASSUME NEW b \in DOMAIN st.bin PROVE st.bin[b] = Cardinality({d \in U : Bin(FragVal(d)) = b})
  <2>1. st.bin[b] = Cardinality(U \cap InBin(b))
    BY <1>2 DEF Binned
  <2>2. U \cap InBin(b) = {d \in U : Bin(FragVal(d)) = b}
    BY <1>4 DEF InBin
  <2> QED
    BY <2>1, <2>2
<1> QED
  BY <1>1, <1>2, <1>3, <1>6, <1>7, <1>8, <1>9 DEF Measures

LEMMA TreeEnd ==
  ASSUME FsInv, TreeInv, [ToolNext]_toolVars, req = "frag", req' = "idle", PlainTree(stack[1].ip)
  PROVE  LET U == Under(stack[1].ip)
         IN  disk \in Disks /\ U \in SUBSET DOMAIN disk.inode /\ IsFiniteSet(U) /\ U # {} /\ stat = Stats(U, U)
<1>1. MfsGoesOn
  <2>1. ~UNCHANGED mfsVars /\ ~Send
    BY DEF mfsVars, Send
  <2> QED
    BY <2>1, MfsMoves
<1>2. Ascend /\ Len(stack) = 1
  BY <1>1 DEF MfsGoesOn, MfsStep, Skip, Indirect, PutIndirect, WalkZone, ListBlock, MeasureDir, DirBlock, Descend,
           DirBlockDone, Ascend, Panics, ScanBit, ScanBlockEnds, ScanReports
<1>3. mfs = "up" /\ stack # <<>> /\ Top.todo = <<>>
  BY <1>2 DEF Ascend
<1>4. PICK M \in SUBSET DOMAIN disk.inode : TreeWalk(stack, stat, M)
  BY <1>3 DEF TreeInv
<1>5. TreeHere(M)
  BY <1>4 DEF TreeHere, FsInv
<1>6. M = Under(stack[1].ip) /\ stat = Stats(M, M) /\ IsFiniteSet(M) /\ stack[1].ip \in M
  BY <1>2, <1>3, <1>5, TreeDone
<1> QED
  BY <1>4, <1>6 DEF FsInv

(* However deep and wide a tree is, and whatever the sizes in it: when     *)
(* find_int_frag is back from its top, everything under it has been        *)
(* measured once - the number of directories and of entries, the blocks,   *)
(* the total, the extremes and the distribution are those of the tree, if  *)
(* its directories have a block each and nothing in it is named twice      *)
(* (fs_get_int_frag, find_int_frag, get_frag_for_dir_zone).                *)
THEOREM TreesAreMeasured == ToolSpec => TreeMeasured
<1>1. ToolInit => FsInv /\ TreeInv
  BY FsInit DEF TreeInv, ToolInit, Init, MfsInit
<1>2. (FsInv /\ TreeInv) /\ [ToolNext]_toolVars => (FsInv /\ TreeInv)'
  BY FsStep, TreeStep
<1>3. (FsInv /\ TreeInv) /\ [ToolNext]_toolVars =>
        [req = "frag" /\ req' = "idle" /\ PlainTree(stack[1].ip) =>
           LET U == Under(stack[1].ip)
           IN  /\ stat.dirs = Cardinality({d \in U : disk.inode[d].dir})
               /\ stat.entries = Cardinality(U)
               /\ stat.blocks = MapThenSumSet(Blocks, U)
               /\ stat.total = MapThenSumSet(FragVal, U)
               /\ stat.min = Min({FragVal(d) : d \in U}) /\ stat.max = Max({FragVal(d) : d \in U})
               /\ \A b \in DOMAIN stat.bin :
                    stat.bin[b] = Cardinality({d \in U : Bin(FragVal(d)) = b})]_mfsVars
  <2> SUFFICES ASSUME FsInv, TreeInv, [ToolNext]_toolVars, req = "frag", req' = "idle", PlainTree(stack[1].ip)
               PROVE  LET U == Under(stack[1].ip)
                      IN  /\ stat.dirs = Cardinality({d \in U : disk.inode[d].dir})
                          /\ stat.entries = Cardinality(U)
                          /\ stat.blocks = MapThenSumSet(Blocks, U)
                          /\ stat.total = MapThenSumSet(FragVal, U)
                          /\ stat.min = Min({FragVal(d) : d \in U}) /\ stat.max = Max({FragVal(d) : d \in U})
                          /\ \A b \in DOMAIN stat.bin :
                               stat.bin[b] = Cardinality({d \in U : Bin(FragVal(d)) = b})
    OBVIOUS
  <2> DEFINE U == Under(stack[1].ip)
  <2>1. disk \in Disks /\ U \in SUBSET DOMAIN disk.inode /\ IsFiniteSet(U) /\ U # {} /\ stat = Stats(U, U)
    BY TreeEnd
  <2> HIDE DEF U
  <2>2. Measures(stat, U)
    BY <2>1, StatsAre
  <2> QED
    BY <2>2 DEF U, Measures
<1> QED
  BY <1>1, <1>2, <1>3, PTL DEF ToolSpec, TreeMeasured
=============================================================================
