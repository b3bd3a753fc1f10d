------------------------------- MODULE FsTool -------------------------------
(***************************************************************************)
(* The two system calls of project 3: VFS (fs_tool.c) finds who has a file *)
(* open and sends MFS its requests, one after another; the caller's mode   *)
(* says which.  A call whose name is not found changes nothing and has no  *)
(* step.  The call holds the mount for writing, so that there is one such  *)
(* call at a time; open and close, of other processes, are external.       *)
(***************************************************************************)
EXTENDS Mfs

CONSTANTS Proc, OPEN_MAX, \* processes, and descriptors of each
          NR_PROCS        \* entries of pid_info

ASSUME TablesAssumption == {OPEN_MAX, NR_PROCS} \subseteq Nat /\ IsFiniteSet(Proc)

VARIABLES filp,     \* fp_filp: the inode behind each descriptor, or NoFile
          job,      \* the call being served: its inode, the requests still to send, retVal
          openers,  \* what was printed as "Number of processes using file"
          vfs       \* "up", or "undefined" after a write past pid_info

vfsVars == <<filp, job, openers, vfs>>
vars == <<mfsVars, vfsVars>>

NoFile == 0
NoJob == [ip |-> 0, todo |-> <<>>]
OK == 0

Inodes == 1 .. disk.ninodes

TypeOK == /\ MfsTypeOK
          /\ filp \in [Proc \X (1 .. OPEN_MAX) -> Inodes \cup {NoFile}]
          /\ job.ip \in Inodes \cup {0} /\ ToSet(job.todo) \subseteq Requests
          /\ openers \in 0 .. Cardinality(DOMAIN filp)
          /\ vfs \in {"up", "undefined"}

Init == /\ MfsInit
        /\ filp = [d \in Proc \X (1 .. OPEN_MAX) |-> NoFile]
        /\ job = NoJob /\ openers = 0 /\ vfs = "up"

\* Every descriptor is counted, and each takes two entries of pid_info; two more end them.
Opened(i) == {d \in DOMAIN filp : filp[d] = i}
Overflows(i) == 2 * Cardinality(Opened(i)) + 2 > NR_PROCS

\* The bits of the mode, in the order in which they are looked at.
Wanted(mode) == (IF "blocks" \in mode THEN <<"blocks">> ELSE <<>>)
                \o (IF "frag" \in mode THEN <<"frag">> ELSE <<>>)

Free == vfs = "up" /\ job = NoJob

do_fileinfo(i, mode) ==
  /\ Free
  /\ job' = [ip |-> i, todo |-> Wanted(mode)]
  /\ IF "pids" \in mode
     THEN /\ openers' = Cardinality(Opened(i))
          /\ vfs' = IF Overflows(i) THEN "undefined" ELSE vfs
     ELSE UNCHANGED <<openers, vfs>>
  /\ UNCHANGED <<mfsVars, filp>>

do_fraginfo(i) == /\ Free
                  /\ job' = [ip |-> i, todo |-> <<"scan">>]
                  /\ UNCHANGED <<mfsVars, filp, openers, vfs>>

\* req_inode_blocks, req_int_frag, req_frag: the handler starts in MFS.
Send == /\ job.todo # <<>> /\ req = "idle" /\ mfs = "up" /\ vfs = "up"
        /\ \/ Head(job.todo) = "blocks" /\ fs_get_inode_blocks(job.ip)
           \/ Head(job.todo) = "frag" /\ fs_get_int_frag(job.ip)
           \/ Head(job.todo) = "scan" /\ fs_getfrag
        /\ job' = [job EXCEPT !.todo = Tail(@)]
        /\ served' = served + 1
        /\ UNCHANGED <<filp, openers, vfs>>

\* The last request is answered: the locks are released, the caller gets its reply.
Return == /\ job # NoJob /\ job.todo = <<>> /\ req = "idle" /\ mfs = "up" /\ vfs = "up"
          /\ job' = NoJob
          /\ UNCHANGED <<mfsVars, filp, openers, vfs>>

\* External: descriptors come, when no call holds the mount, and go.
Open(d, i) == /\ Free /\ filp[d] = NoFile
              /\ filp' = [filp EXCEPT ![d] = i]
              /\ UNCHANGED <<mfsVars, job, openers, vfs>>
Close(d) == /\ vfs = "up" /\ filp[d] # NoFile
            /\ filp' = [filp EXCEPT ![d] = NoFile]
            /\ UNCHANGED <<mfsVars, job, openers, vfs>>

Call == \E i \in disk.named :
          \/ \E mode \in SUBSET {"pids", "blocks", "frag"} :
               served + Len(Wanted(mode)) <= MaxReq /\ do_fileinfo(i, mode)
          \/ served < MaxReq /\ do_fraginfo(i)

Descriptors == \E d \in DOMAIN filp : Close(d) \/ \E i \in disk.named : Open(d, i)

MfsGoesOn == vfs = "up" /\ MfsStep /\ UNCHANGED vfsVars
ServerStep == Send \/ Return \/ MfsGoesOn
Next == Call \/ Descriptors \/ ServerStep

\* The servers go on with the call they serve; nobody has to make one.
Spec == Init /\ [][Next]_vars /\ WF_vars(ServerStep)
-----------------------------------------------------------------------------
(* Every call comes back: the loops over zones, the recursion over a tree  *)
(* and the scan of the bitmap end, unless VFS has written past pid_info or *)
(* MFS is out of a table, which only a tree can do to it: the list of the  *)
(* blocks of a file does with the four buffers of CacheAssumption, whatever*)
(* requests came before and left behind.                                   *)
CallReturns ==
  job # NoJob ~> (job = NoJob \/ vfs = "undefined" \/ (mfs = "down" /\ req = "frag"))
=============================================================================
