--------------------------------- MODULE Mfs ---------------------------------
(***************************************************************************)
(* What project 3 adds to the file server MFS (mfs/misc.c): the list of    *)
(* the disk blocks of a file (fs_get_inode_blocks), the internal           *)
(* fragmentation of the tree under a file or directory (fs_get_int_frag)   *)
(* and the external fragmentation of the file system (fs_getfrag).         *)
(*                                                                         *)
(* MFS serves one request at a time, from a disk that nobody else writes   *)
(* while it does.  The nested loops and the recursion are a stack of       *)
(* frames, one per inode, each with the items it still has to look at; a   *)
(* loop that ends early drops its items one by one.  What is printed is    *)
(* kept where a property is about it.  get_block, get_inode and their      *)
(* tables are modelled from how misc.c uses them.                          *)
(***************************************************************************)
EXTENDS Integers, SequencesExt, FiniteSetsExt

CONSTANTS Disks,        \* what may be on the disk, see Disk
          NDZONES,      \* direct zones of an inode (i_ndzones)
          NINDIRS,      \* entries of an indirect block (i_nindirs)
          BLOCK_SIZE,   \* s_block_size, in bytes
          BITS,         \* FS_BITS_PER_BLOCK: bits in a block of the inode bitmap
          NR_BUFS,      \* blocks the cache holds
          NR_INODES,    \* inodes MFS has room for
          MaxReq        \* bound: requests served

ASSUME SizesAssumption == {NDZONES, NINDIRS, BLOCK_SIZE, BITS, NR_BUFS, NR_INODES} \subseteq Nat \ {0}
\* The pinned block of the bitmap, two indirect blocks and one of the file.
ASSUME CacheAssumption == NR_BUFS >= 4
ASSUME MaxReqAssumption == MaxReq \in Nat

\* The zones an inode has room for; a file is not longer (s_max_size of MFS).
MaxZones == NDZONES + NINDIRS + NINDIRS * NINDIRS

\* A disk that can be walked: indirect zones hold zones, and a zone of a directory
\* holds entries, wherever get_frag_for_dir_zone looks for its blocks (see Address).
\* A directory is never empty, for it has dot and dot-dot: the average of
\* fs_get_int_frag (line 665) divides by the number of entries.
ZoneSound(d, i, z) == d.inode[i].dir /\ z # 0 => \A n \in 0 .. 2 ^ d.log_zone_size - 1 :
                                                   z * 2 ^ (d.log_zone_size + n) \in DOMAIN d.entries
SingleSound(d, i, z) == z # 0 => z \in DOMAIN d.indir /\ \A k \in DOMAIN d.indir[z] : ZoneSound(d, i, d.indir[z][k])
DoubleSound(d, i, z) == z # 0 => z \in DOMAIN d.indir /\ \A k \in DOMAIN d.indir[z] : SingleSound(d, i, d.indir[z][k])
InodeSound(d, i) == LET zones == d.inode[i].zone
                    IN  /\ d.inode[i].size \in Nat /\ (d.inode[i].dir => d.inode[i].size # 0)
                        /\ d.inode[i].size <= MaxZones * 2 ^ d.log_zone_size * BLOCK_SIZE
                        /\ zones \in Seq(Nat) /\ Len(zones) = NDZONES + 2
                        /\ \A k \in 1 .. NDZONES : ZoneSound(d, i, zones[k])
                        /\ SingleSound(d, i, zones[NDZONES + 1]) /\ DoubleSound(d, i, zones[NDZONES + 2])
DiskSound(d) == /\ {d.log_zone_size, d.ninodes} \subseteq Nat
                /\ d.named \cup (d.imap \ {0}) \subseteq DOMAIN d.inode \cap (1 .. d.ninodes)
                /\ \A i \in DOMAIN d.inode : InodeSound(d, i)
                /\ \A z \in DOMAIN d.indir : d.indir[z] \in Seq(Nat) /\ Len(d.indir[z]) = NINDIRS
                /\ \A b \in DOMAIN d.entries : d.entries[b] \in Seq((DOMAIN d.inode \cap Nat) \cup {0})

ASSUME DisksAssumption == \A d \in Disks : DiskSound(d)
\* A power of two is a number; the provers know nothing of powers.
ASSUME PowersAssumption == \A d \in Disks : LET n == d.log_zone_size
                                           IN  {2 ^ n} \cup {2 ^ (n + k) : k \in 0 .. 2 ^ n} \subseteq Nat \ {0}

VARIABLES disk,      \* the disk, which no request changes
          req,       \* the request being served
          stack,     \* the inodes being walked, the innermost last
          EOF_reached,
          held,      \* blocks got and not put back, in that order
          runs,      \* the runs of blocks printed
          run,       \* starting_block_num and last_block_num
          visited,   \* history: the blocks listed
          stat,      \* the counters of the internal fragmentation
          scan,      \* the locals of FraginFS
          mfs,       \* "up", or "down" after a panic or a NULL dereference
          served     \* requests so far

listVars == <<EOF_reached, runs, run, visited>>
mfsVars == <<disk, req, stack, listVars, held, stat, scan, mfs, served>>

NO_ZONE == 0
ROOT_INODE == 1
NUM_FRAG_BINS == 8

\* inode i has disk.inode[i]; disk.indir is what indirect zones hold, disk.entries
\* the inode numbers in the slots of a block that is read as a directory.
Size(i) == disk.inode[i].size
Zone(i) == disk.inode[i].zone
Scale == disk.log_zone_size
blocksPerZone == 2 ^ Scale

\* ceil(i_size / s_block_size), and what the last block leaves unused.
\* A slip FragVal avoids: a full last block counts as empty.
Blocks(i) == (Size(i) + BLOCK_SIZE - 1) \div BLOCK_SIZE
FragValFull(i) == BLOCK_SIZE - (Size(i) % BLOCK_SIZE)
FragVal(i) == IF Size(i) % BLOCK_SIZE = 0 THEN 0 ELSE BLOCK_SIZE - (Size(i) % BLOCK_SIZE)

NoRun == [first |-> -1, last |-> -2]
NoStat == [entries |-> 0, dirs |-> 0, total |-> 0, blocks |-> 0,
           min |-> BLOCK_SIZE, max |-> 0, bin |-> [b \in 0 .. NUM_FRAG_BINS - 1 |-> 0]]
NoScan == [block |-> 0, off |-> 0, scanned |-> 0, total |-> 0, max |-> 0, min |-> 0]

MfsInit == /\ disk \in Disks
           /\ req = "idle" /\ stack = <<>> /\ EOF_reached = FALSE /\ held = <<>>
           /\ runs = <<>> /\ run = NoRun /\ visited = <<>>
           /\ stat = NoStat /\ scan = NoScan /\ mfs = "up" /\ served = 0

Requests == {"blocks", "frag", "scan"}
Ops == {"direct", "zone", "single", "double", "block", "entry", "put", "done"}

MfsTypeOK ==
  /\ req \in Requests \cup {"idle"} /\ mfs \in {"up", "down"} /\ served \in 0 .. MaxReq
  /\ EOF_reached \in BOOLEAN
  /\ \A n \in DOMAIN stack : /\ stack[n].ip \in DOMAIN disk.inode
                             /\ stack[n].left \in 0 .. Blocks(stack[n].ip)
                             /\ \A t \in DOMAIN stack[n].todo : stack[n].todo[t].op \in Ops
  /\ held \in Seq(Nat) /\ visited \in Seq(Nat)
  /\ stat.min \in 0 .. BLOCK_SIZE /\ stat.max \in 0 .. BLOCK_SIZE - 1
  /\ scan.off \in 0 .. BITS - 1
-----------------------------------------------------------------------------
(* Walks.                                                                  *)

Items(op, zones) == [n \in DOMAIN zones |-> [op |-> op, at |-> zones[n]]]

\* The zones of an inode in the order of the file; op is what its direct zones are for.
Frame(i, op) == [ip |-> i, left |-> Blocks(i),
                 todo |-> Items(op, SubSeq(Zone(i), 1, NDZONES))
                          \o <<[op |-> "single", at |-> Zone(i)[NDZONES + 1]],
                               [op |-> "double", at |-> Zone(i)[NDZONES + 2]]>>]
\* Of a file, find_int_frag looks at the size only.
FragFrame(i) == IF disk.inode[i].dir THEN Frame(i, "direct")
                ELSE [ip |-> i, left |-> Blocks(i), todo |-> <<>>]

Top == Last(stack)
At(op) == /\ mfs = "up" /\ req \in {"blocks", "frag"} /\ stack # <<>>
          /\ Top.todo # <<>> /\ Head(Top.todo).op = op
Here == Head(Top.todo).at

\* The item is done, and there are others to be looked at first.
Instead(items) ==
  stack' = [stack EXCEPT ![Len(stack)].todo = items \o Tail(@)]

Panics == mfs' = "down" /\ UNCHANGED <<disk, req, stack, listVars, held, stat, scan, served>>

HasBuffer(b) == Cardinality(ToSet(held) \cup {b}) <= NR_BUFS
HasInode(i) == Cardinality({stack[n].ip : n \in DOMAIN stack} \cup {i}) <= NR_INODES

\* The loops end at EOF_reached or when blk_cnt is used up.
AtEnd == IF req = "blocks" THEN EOF_reached ELSE Top.left = 0

\* The root and the directory itself are not followed, nor is a free slot.
Followed(d) == d > ROOT_INODE /\ d # Top.ip

\* A loop that has ended, a zone that is not there, an entry that is not followed.
Skip == /\ \/ \E op \in {"direct", "zone", "single", "double", "block"} :
                At(op) /\ (AtEnd \/ (op # "direct" /\ Here = NO_ZONE))
           \/ At("entry") /\ ~Followed(Here)
        /\ Instead(<<>>)
        /\ UNCHANGED <<disk, req, listVars, held, stat, scan, mfs, served>>

\* What an indirect zone adds: its entries, and the end of its loop.
\* Slips Entries avoids: the last entry is missed; the indirect block is not put back.
EntriesShort(op, z) == Items(IF op = "single" THEN "zone" ELSE "single", Front(disk.indir[z]))
                       \o <<[op |-> "put", at |-> z]>>
EntriesKept(op, z) == Items(IF op = "single" THEN "zone" ELSE "single", disk.indir[z])
Entries(op, z) == Items(IF op = "single" THEN "zone" ELSE "single", disk.indir[z])
                  \o <<[op |-> "put", at |-> z]>>

\* An indirect zone: its first block is kept while its entries are walked.
Indirect ==
  \E op \in {"single", "double"} :
    /\ At(op) /\ ~AtEnd /\ Here # NO_ZONE
    /\ IF HasBuffer(Here * blocksPerZone)
       THEN /\ Instead(Entries(op, Here))
            /\ held' = Append(held, Here * blocksPerZone)
            /\ UNCHANGED <<disk, req, listVars, stat, scan, mfs, served>>
       ELSE Panics

PutIndirect == /\ At("put") /\ Instead(<<>>) /\ held' = Front(held)
               /\ UNCHANGED <<disk, req, listVars, stat, scan, mfs, served>>

\* The blocks of a zone.  get_frag_for_dir_zone shifts by scale + i (line 905), so of
\* a zone of several blocks it reads the first, and then blocks from elsewhere.
Address(z, n) == IF req = "blocks" THEN z * 2 ^ Scale + n ELSE z * 2 ^ (Scale + n)

WalkZone == /\ At("zone") /\ ~AtEnd /\ Here # NO_ZONE
            /\ Instead([n \in 1 .. blocksPerZone |-> [op |-> "block", at |-> Address(Here, n - 1)]])
            /\ UNCHANGED <<disk, req, listVars, held, stat, scan, mfs, served>>
-----------------------------------------------------------------------------
(* The blocks of a file.                                                   *)

fs_get_inode_blocks(i) ==
  /\ req' = "blocks" /\ stack' = <<Frame(i, "zone")>>
  /\ EOF_reached' = (Blocks(i) = 0)
  /\ runs' = <<>> /\ run' = NoRun /\ visited' = <<>>
  /\ UNCHANGED <<disk, held, stat, scan, mfs>>

\* A run is printed when the next block does not follow it; -1 is no run yet.
\* A slip Printed avoids: the block itself is compared, not the one before it.
PrintedEach(b) == IF run.last = b \/ run.first = -1 THEN <<>> ELSE <<run>>
Printed(b) == IF run.last = b - 1 \/ run.first = -1 THEN <<>> ELSE <<run>>

ListBlock ==
  /\ At("block") /\ req = "blocks" /\ Top.left # 0
  /\ IF HasBuffer(Here)
     THEN /\ runs' = runs \o Printed(Here)
          /\ run' = [first |-> IF run.last = Here - 1 THEN run.first ELSE Here, last |-> Here]
          /\ visited' = Append(visited, Here)
          /\ stack' = [stack EXCEPT ![Len(stack)].todo = Tail(@), ![Len(stack)].left = @ - 1]
          /\ EOF_reached' = (Top.left = 1)
          /\ UNCHANGED <<disk, req, held, stat, scan, mfs, served>>
     ELSE Panics
-----------------------------------------------------------------------------
(* The internal fragmentation of a tree.                                   *)

Lesser(a, b) == IF a < b THEN a ELSE b
Greater(a, b) == IF a > b THEN a ELSE b
Bin(v) == (v * NUM_FRAG_BINS) \div BLOCK_SIZE

\* One more entry of the statistics.
\* A slip Counted avoids: min_frag_val starts at zero, in effect.
CountedFromZero(s, v) ==
  [s EXCEPT !.entries = @ + 1, !.total = @ + v, !.min = 0, !.max = Greater(v, @), !.bin[Bin(v)] = @ + 1]
Counted(s, v) ==
  [s EXCEPT !.entries = @ + 1, !.total = @ + v, !.min = Lesser(v, @), !.max = Greater(v, @),
            !.bin[Bin(v)] = @ + 1]

\* find_int_frag up to its loops: a file is an entry.
Measured(s, i) ==
  LET used == [s EXCEPT !.blocks = @ + Blocks(i)]
  IN  IF disk.inode[i].dir THEN [used EXCEPT !.dirs = @ + 1] ELSE Counted(used, FragVal(i))

fs_get_int_frag(i) ==
  /\ req' = "frag" /\ stack' = <<FragFrame(i)>>
  /\ EOF_reached' = (Blocks(i) = 0)
  /\ stat' = Measured(NoStat, i)
  /\ UNCHANGED <<disk, held, runs, run, visited, scan, mfs>>

\* A directory is an entry once per direct zone.
MeasureDir == /\ At("direct") /\ ~AtEnd
              /\ stat' = Counted(stat, FragVal(Top.ip))
              /\ Instead(<<[op |-> "zone", at |-> Here]>>)
              /\ UNCHANGED <<disk, req, listVars, held, scan, mfs, served>>

\* A block of a directory is kept while what it names is measured; the first two slots
\* of every block are passed over.
DirBlock ==
  /\ At("block") /\ req = "frag" /\ Top.left # 0
  /\ IF HasBuffer(Here)
     THEN /\ Instead(Items("entry", SubSeq(disk.entries[Here], 3, Len(disk.entries[Here])))
                     \o <<[op |-> "done", at |-> Here]>>)
          /\ held' = Append(held, Here)
          /\ UNCHANGED <<disk, req, listVars, stat, scan, mfs, served>>
     ELSE Panics

\* find_int_frag of an entry.  get_inode's NULL, when its table is full, is not looked at.
Descend ==
  /\ At("entry") /\ Followed(Here)
  /\ IF HasInode(Here)
     THEN /\ stack' = Append([stack EXCEPT ![Len(stack)].todo = Tail(@)], FragFrame(Here))
          /\ stat' = Measured(stat, Here)
          /\ UNCHANGED <<disk, req, listVars, held, scan, mfs, served>>
     ELSE Panics

DirBlockDone == /\ At("done")
                /\ stack' = [stack EXCEPT ![Len(stack)].todo = Tail(@), ![Len(stack)].left = @ - 1]
                /\ held' = Front(held)
                /\ UNCHANGED <<disk, req, listVars, stat, scan, mfs, served>>

\* put_inode, and the reply when it is the inode of the request.  The list of blocks
\* ends with its last run, which for an empty file is the sentinels.
\* A slip Ascend avoids: MFS does not reply.
AscendSilently ==
  /\ mfs = "up" /\ stack # <<>> /\ Top.todo = <<>>
  /\ stack' = Front(stack)
  /\ UNCHANGED <<disk, req, listVars, held, stat, scan, mfs, served>>
Ascend ==
  /\ mfs = "up" /\ stack # <<>> /\ Top.todo = <<>>
  /\ stack' = Front(stack)
  /\ IF Len(stack) = 1
     THEN /\ req' = "idle"
          /\ runs' = IF req = "blocks" THEN Append(runs, run) ELSE runs
     ELSE UNCHANGED <<req, runs>>
  /\ UNCHANGED <<disk, EOF_reached, run, visited, held, stat, scan, mfs, served>>
-----------------------------------------------------------------------------
(* The external fragmentation of the file system.                          *)

map_bits == disk.ninodes + 1
bit_blocks == (map_bits + BITS - 1) \div BITS
BitmapBlock(n) == 2 + n

fs_getfrag ==
  /\ req' = "scan" /\ scan' = NoScan
  /\ held' = Append(held, BitmapBlock(0))
  /\ UNCHANGED <<disk, stack, listVars, stat, mfs>>

\* Blocks of the last zone that the file leaves unused.
FragInInode(i) == IF Blocks(i) % blocksPerZone = 0 THEN 0
                  ELSE blocksPerZone - (Blocks(i) % blocksPerZone)

\* The next bit of the bitmap; the inode is the one inodesScanned counts.
BitNumber == scan.block * BITS + scan.off
Scanned == LET v == IF BitNumber \in disk.imap /\ scan.scanned # 0 THEN FragInInode(scan.scanned) ELSE 0
           IN  [scan EXCEPT !.scanned = @ + 1, !.total = @ + v,
                            !.max = Greater(v, @), !.min = Lesser(v, @)]

ScanBit == /\ mfs = "up" /\ req = "scan" /\ BitNumber < map_bits /\ scan.off < BITS - 1
           /\ scan' = [Scanned EXCEPT !.off = @ + 1]
           /\ UNCHANGED <<disk, req, stack, listVars, held, stat, mfs, served>>

\* The last bit of a block; after the last block FraginFS returns without its report.
\* A slip ScanBlockEnds avoids: inodesScanned starts again in every block.
ScanBlockRestarts ==
  /\ mfs = "up" /\ req = "scan" /\ BitNumber < map_bits /\ scan.off = BITS - 1
  /\ scan' = [Scanned EXCEPT !.off = 0, !.block = @ + 1, !.scanned = 0]
  /\ IF scan.block + 1 < bit_blocks
     THEN held' = Append(Front(held), BitmapBlock(scan.block + 1)) /\ UNCHANGED req
     ELSE held' = Front(held) /\ req' = "idle"
  /\ UNCHANGED <<disk, stack, listVars, stat, mfs, served>>
ScanBlockEnds ==
  /\ mfs = "up" /\ req = "scan" /\ BitNumber < map_bits /\ scan.off = BITS - 1
  /\ scan' = [Scanned EXCEPT !.off = 0, !.block = @ + 1]
  /\ IF scan.block + 1 < bit_blocks
     THEN held' = Append(Front(held), BitmapBlock(scan.block + 1)) /\ UNCHANGED req
     ELSE held' = Front(held) /\ req' = "idle"
  /\ UNCHANGED <<disk, stack, listVars, stat, mfs, served>>

\* Past the map: the report is printed and the block is not put back.
ScanReports == /\ mfs = "up" /\ req = "scan" /\ BitNumber >= map_bits
               /\ req' = "idle"
               /\ UNCHANGED <<disk, stack, listVars, held, stat, scan, mfs, served>>
-----------------------------------------------------------------------------
MfsStep == \/ Skip \/ Indirect \/ PutIndirect \/ WalkZone
           \/ ListBlock
           \/ MeasureDir \/ DirBlock \/ Descend \/ DirBlockDone \/ Ascend
           \/ ScanBit \/ ScanBlockEnds \/ ScanReports
-----------------------------------------------------------------------------
(* What a file and a tree are, whatever way they are walked.               *)

\* Zone n of a file, from 0, through its indirect zones.
Entry(z, n) == IF z = NO_ZONE THEN NO_ZONE ELSE disk.indir[z][n + 1]
ZoneOf(i, n) ==
  LET m == n - NDZONES
      k == m - NINDIRS
  IN  IF m < 0 THEN Zone(i)[n + 1]
      ELSE IF k < 0 THEN Entry(Zone(i)[NDZONES + 1], m)
      ELSE Entry(Entry(Zone(i)[NDZONES + 2], k \div NINDIRS), k % NINDIRS)

\* Block n of a file, from 0; a hole has none.
BlockOf(i, n) == ZoneOf(i, n \div blocksPerZone) * blocksPerZone + (n % blocksPerZone)
Hole(i, n) == ZoneOf(i, n \div blocksPerZone) = NO_ZONE
NoHoles(i) == \A n \in 0 .. Blocks(i) - 1 : ~Hole(i, n)

\* What a directory names: its first two slots are dot and dot-dot.
Slots(i) == FlattenSeq([n \in 1 .. Blocks(i) |-> disk.entries[BlockOf(i, n - 1)]])
Entered(i) == IF disk.inode[i].dir THEN {k \in 3 .. Len(Slots(i)) : Slots(i)[k] # 0} ELSE {}
Names(i) == {Slots(i)[k] : k \in Entered(i)}
Closed(S) == \A i \in S : Names(i) \subseteq S
Under(i) == {d \in DOMAIN disk.inode : \A S \in SUBSET DOMAIN disk.inode : i \in S /\ Closed(S) => d \in S}

\* A tree whose directories have one block each: nothing is named twice, nor its top,
\* nor the root of the disk.
PlainTree(i) ==
  /\ \A d \in Under(i) : disk.inode[d].dir => Blocks(d) = 1 /\ ~Hole(d, 0)
  /\ \A d \in Under(i) : \A j, k \in Entered(d) : Slots(d)[j] = Slots(d)[k] => j = k
  /\ \A d, e \in Under(i) : d # e => Names(d) \cap Names(e) = {}
  /\ \A d \in Under(i) : Names(d) \cap {i, ROOT_INODE} = {}
-----------------------------------------------------------------------------
(* Properties.                                                             *)

(* The runs printed, the open one included, are the blocks as they were    *)
(* visited: the sentinels of the first run, a run of one block and the     *)
(* last run, printed after the loops, lose and repeat nothing              *)
(* (get_dir_zone, fs_get_inode_blocks).                                    *)
RunsAreVisits ==
  FlattenSeq([n \in DOMAIN runs |-> [k \in 1 .. runs[n].last - runs[n].first + 1 |-> runs[n].first + k - 1]])
    \o (IF req = "blocks" THEN [k \in 1 .. run.last - run.first + 1 |-> run.first + k - 1] ELSE <<>>)
    = visited

(* When the list ends, it has every block of the file, and for a file      *)
(* without holes it is the blocks of the file in their order: a hole does  *)
(* not lower block_count, so the loops go on past the end of the file, but *)
(* never miss a block of it.                                               *)
ListsTheFile ==
  [][req = "blocks" /\ req' = "idle" =>
       LET i == stack[1].ip
           blocks == {n \in 0 .. Blocks(i) - 1 : ~Hole(i, n)}
       IN  /\ {BlockOf(i, n) : n \in blocks} \subseteq ToSet(visited)
           /\ NoHoles(i) => visited = [n \in 1 .. Blocks(i) |-> BlockOf(i, n - 1)]]_mfsVars

(* A tree in which nothing is named twice and whose directories have one   *)
(* block each is measured whole and once: number of directories and        *)
(* entries, blocks, total, extremes and distribution (find_int_frag and    *)
(* its recursion).                                                         *)
TreeMeasured ==
  [][req = "frag" /\ req' = "idle" /\ PlainTree(stack[1].ip) =>
       LET U == Under(stack[1].ip)
       IN  /\ stat.dirs = Cardinality({d \in U : disk.inode[d].dir})
           /\ stat.entries = Cardinality(U)
           /\ stat.blocks = MapThenSumSet(Blocks, U)
           /\ stat.total = MapThenSumSet(FragVal, U)
           /\ stat.min = Min({FragVal(d) : d \in U}) /\ stat.max = Max({FragVal(d) : d \in U})
           /\ \A b \in DOMAIN stat.bin :
                stat.bin[b] = Cardinality({d \in U : Bin(FragVal(d)) = b})]_mfsVars

(* However the scan of the bitmap ends, it has measured each allocated     *)
(* inode once: the inode inodesScanned counts is the one whose bit is      *)
(* looked at, through all blocks of the bitmap (FraginFS).                 *)
ScanMeasuresAll ==
  [][req = "scan" /\ req' = "idle" =>
       LET unused(i) == (((Blocks(i) + blocksPerZone - 1) \div blocksPerZone) * blocksPerZone) - Blocks(i)
       IN  /\ scan'.total = MapThenSumSet(unused, disk.imap \ {0})
           /\ scan'.max = Max({0} \cup {unused(i) : i \in disk.imap \ {0}})]_mfsVars

(* Every buffer is put back: between requests only the last block of the   *)
(* bitmap may still be held, which FraginFS leaves behind (line 140).      *)
BuffersReturned ==
  req = "idle" /\ mfs = "up" => ToSet(held) \subseteq {BitmapBlock(bit_blocks - 1)}
==============================================================================
