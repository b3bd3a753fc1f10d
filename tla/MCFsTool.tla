------------------------------ MODULE MCFsTool ------------------------------
(* Disks for FsTool: one file of every size and pattern of holes, its      *)
(* zones one after another but for one break; and small trees.             *)
EXTENDS FsDevices

\* A file of n blocks with zones where p is in used, on a disk of scale s.
NZones(n, s) == (n + 2 ^ s - 1) \div 2 ^ s
ZoneAt(p, used, break) == IF p \notin used THEN NO_ZONE ELSE IF p < break THEN 10 + p ELSE 20 + p
IndirOf(ps, used, z) == IF ps \cap used = {} THEN NO_ZONE ELSE z

FileInode(n, used, break) ==
  [dir |-> FALSE, size |-> IF n = 0 THEN 0 ELSE n * BLOCK_SIZE - 1,
   zone |-> <<ZoneAt(1, used, break), ZoneAt(2, used, break),
              IndirOf({3, 4}, used, 40), IndirOf({5, 6, 7, 8}, used, 41)>>]
Empty == [dir |-> FALSE, size |-> 0, zone |-> <<0, 0, 0, 0>>]

FileDisk(n, s, used, break, ni) ==
  [log_zone_size |-> s, ninodes |-> ni, imap |-> {0, 2}, named |-> {2},
   inode |-> [i \in 1 .. ni |-> IF i = 2 THEN FileInode(n, used, break) ELSE Empty],
   indir |-> [z \in 40 .. 43 |->
                [k \in 1 .. 2 |-> CASE z = 40 -> ZoneAt(2 + k, used, break)
                                    [] z = 41 -> IndirOf({3 + 2 * k, 4 + 2 * k}, used, 41 + k)
                                    [] OTHER -> ZoneAt(2 * (z - 40) + k, used, break)]],
   entries |-> <<>>]

FileDisks == UNION {{FileDisk(c[1], c[2], used, c[3], 2) : used \in SUBSET (1 .. NZones(c[1], c[2]))} :
                      c \in ((0 .. 6) \X {0} \X {2, 4}) \cup ((0 .. 7) \X {1} \X {3}) \cup {<<7, 0, 6>>}}

\* Trees: inode 1 is the root, inodes with entries are directories.
Ino(dir, size, z) == [dir |-> dir, size |-> size, zone |-> z]
One(z) == <<z, 0, 0, 0>>
TreeDisk(s, inodes, entries, indir, n) ==
  [log_zone_size |-> s, ninodes |-> Len(inodes), imap |-> 0 .. Len(inodes), named |-> n,
   inode |-> inodes, indir |-> indir, entries |-> entries]
NoIndir == [z \in {} |-> <<>>]

\* A directory in a directory, two files, a free slot.
Plain == TreeDisk(0, <<Ino(TRUE, 4, One(5)), Ino(FALSE, 9, One(6)), Ino(TRUE, 3, One(7)), Ino(FALSE, 2, One(8))>>,
                  [b \in {5, 7} |-> IF b = 5 THEN <<1, 1, 2, 3>> ELSE <<3, 1, 4, 0>>], NoIndir, {1, 3})
\* The same on zones of two blocks; an allocation map that ends with its block.
Wide == TreeDisk(1, <<Ino(TRUE, 4, One(5)), Ino(FALSE, 9, <<6, 7, 0, 0>>), Ino(FALSE, 0, One(0))>>,
                 [b \in {10, 20} |-> IF b = 10 THEN <<1, 1, 2, 3>> ELSE <<>>], NoIndir, {1})
\* A directory of two blocks, in two zones; and one of two blocks in one zone, the
\* second of which is read from the block 4 times the zone, once a directory's.
Long == TreeDisk(0, <<Ino(TRUE, 8, <<5, 6, 0, 0>>), Ino(FALSE, 9, One(7)), Ino(FALSE, 2, One(8))>>,
                 [b \in {5, 6} |-> IF b = 5 THEN <<1, 1, 2, 0>> ELSE <<0, 0, 3, 0>>], NoIndir, {1})
Shifted == TreeDisk(1, <<Ino(TRUE, 8, One(5)), Ino(FALSE, 9, One(7)), Ino(FALSE, 2, One(8))>>,
                    [b \in {10, 11, 20} |-> CASE b = 10 -> <<1, 1, 2, 0>> [] b = 11 -> <<3, 0, 0, 0>>
                                              [] b = 20 -> <<2, 1, 3, 3>>], NoIndir, {1})
\* A directory long enough for double indirect zones.
Huge == TreeDisk(0, <<Ino(TRUE, 24, <<5, 6, 40, 41>>), Ino(FALSE, 9, One(30))>>,
                 [b \in {5, 6, 11, 12, 13, 14} |-> IF b = 5 THEN <<1, 1, 2, 0>> ELSE <<0, 0, 0, 0>>],
                 [z \in 40 .. 42 |-> CASE z = 40 -> <<11, 12>> [] z = 41 -> <<42, 0>> [] z = 42 -> <<13, 14>>], {1})
\* A tree deeper than the table of inodes.
Deep == TreeDisk(0, [i \in 1 .. 5 |-> IF i < 5 THEN Ino(TRUE, 4, One(4 + i)) ELSE Empty],
                 [b \in 5 .. 8 |-> <<b - 4, (IF b = 5 THEN 1 ELSE b - 5), b - 3, 0>>], NoIndir, {1, 2})

TreeDisks == {Plain, Wide, Long, Shifted, Huge, Deep}
\* ThisDev is "1".
DevListsDef == {<<"1", "1", "2", "3">>, <<"2", "3", "3">>, <<"11", "1">>}
DisksDef == FileDisks \cup TreeDisks
=============================================================================
