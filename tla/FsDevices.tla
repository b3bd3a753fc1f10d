------------------------------ MODULE FsDevices ------------------------------
(***************************************************************************)
(* The tools of project 3 on top of the calls of FsTool: fileinfo and      *)
(* fraginfo read their options and make a call; fraginfo without a name    *)
(* goes through the list of devices that list_dev makes and has the tree   *)
(* of each measured once.                                                  *)
(*                                                                         *)
(* An argument is the set of letters of an option, or Name.  A line of the *)
(* list is its device; what it names is some file of that device.  Only    *)
(* ThisDev is on the disk of Mfs, the trees of others are measured by      *)
(* other servers.  One fraginfo at a time goes through the list, which is  *)
(* in one place for all of them.                                           *)
(***************************************************************************)
EXTENDS FsTool

CONSTANTS DevLists,  \* what list_dev may write: the device of each line
          ThisDev,   \* the device that is the disk of Mfs
          MaxArgs,   \* bound: arguments of a tool
          ListDisks  \* bound: disks with which fraginfo goes through the list

NoDev == ""
SkippedDev == "2"

\* sort has put the lines of a device together; none is empty.
Sorted(l) == \A i, j \in DOMAIN l : \A k \in i .. j : l[i] = l[j] => l[k] = l[i]
ASSUME DevListsAssumption == \A l \in DevLists : l \in Seq(STRING) /\ Sorted(l) /\ NoDev \notin ToSet(l)

VARIABLE frag  \* the fraginfo that reads the list

toolVars == <<vars, frag>>

NoFrag == [pc |-> "idle", list |-> <<>>, at |-> 0, last_dev |-> NoDev, asked |-> <<>>]

ToolTypeOK == /\ TypeOK
              /\ frag.pc \in {"idle", "reading", "calling"}
              /\ frag.list \in DevLists \cup {<<>>} /\ frag.at \in 0 .. Len(frag.list)
              /\ frag.last_dev \in ToSet(frag.list) \cup {NoDev}

ToolInit == Init /\ frag = NoFrag
-----------------------------------------------------------------------------
(* Options.                                                                *)

Name == {"name"}
Arguments(letters) == UNION {[1 .. n -> SUBSET letters \cup {Name}] : n \in 0 .. MaxArgs}

\* A second name gets the help, as -h does; what follows is not looked at.
Named(s) == [s EXCEPT !.help = s.got_f_name, !.got_f_name = TRUE]

fileinfo_arg(s, a) ==
  IF s.help THEN s
  ELSE IF a = Name THEN Named(s)
  ELSE [s EXCEPT !.got_opt = TRUE, !.help = "h" \in a,
                 !.mode = @ \cup {r \in {"pids", "blocks"} : (IF r = "pids" THEN "p" ELSE "b") \in a}]

\* -i and -e exclude each other, and themselves; -d changes nothing.
fraginfo_arg(s, a) ==
  LET kinds == a \cap {"i", "e"}
  IN  IF s.help THEN s
      ELSE IF a = Name THEN Named(s)
      ELSE [s EXCEPT !.help = "h" \in a \/ kinds = {"i", "e"} \/ (kinds # {} /\ s.kinds # {}),
                     !.kinds = @ \cup kinds]

NoArgs == [help |-> FALSE, got_f_name |-> FALSE, got_opt |-> FALSE, mode |-> {}, kinds |-> {}]
fileinfo_runs == {s \in {FoldLeft(fileinfo_arg, NoArgs, argv) : argv \in Arguments({"p", "b", "h"})} : ~s.help}
fraginfo_runs == {s \in {FoldLeft(fraginfo_arg, NoArgs, argv) : argv \in Arguments({"i", "e", "d", "h"})} : ~s.help}

\* What fileinfo asks for: without an option, processes and blocks.
fileinfo_modes == {IF s.got_opt THEN s.mode ELSE {"pids", "blocks"} : s \in fileinfo_runs}

\* The file is the one named, or sample.txt, if there is one.
fileinfo_tool == \E mode \in fileinfo_modes, i \in disk.named :
                   /\ served + Len(Wanted(mode)) <= MaxReq
                   /\ do_fileinfo(i, mode)
                   /\ UNCHANGED frag

\* A file is enough for -e, and is named otherwise; with neither the list is read.
Listing(s) == s.kinds # {"e"} /\ ~s.got_f_name
fraginfo_kinds == {s.kinds : s \in {r \in fraginfo_runs : ~Listing(r)}}

fraginfo_tool == \E kinds \in fraginfo_kinds, i \in disk.named :
                   /\ served < MaxReq
                   /\ IF kinds = {"e"} THEN do_fraginfo(i) ELSE do_fileinfo(i, {"frag"})
                   /\ UNCHANGED frag
-----------------------------------------------------------------------------
(* The list of devices.                                                    *)

\* list_dev writes the list.
ListDevices == /\ frag = NoFrag /\ disk \in ListDisks
               /\ \E s \in fraginfo_runs : Listing(s)
               /\ \E l \in DevLists : frag' = [NoFrag EXCEPT !.pc = "reading", !.list = l]
               /\ UNCHANGED vars

Line == frag.list[frag.at + 1]
HasLine == frag.pc = "reading" /\ frag.at < Len(frag.list)

\* A line of the device before it, or of device 2, which does not count as read.
SkipLine == /\ HasLine /\ Line \in {frag.last_dev, SkippedDev}
            /\ frag' = [frag EXCEPT !.at = @ + 1]
            /\ UNCHANGED vars

\* Another device: its tree is measured.
\* A slip MeasureDevice avoids: the device is not noted.
MeasureUnnoted ==
  /\ HasLine /\ Line \notin {frag.last_dev, SkippedDev}
  /\ frag' = [frag EXCEPT !.at = @ + 1, !.asked = Append(@, Line),
                          !.pc = IF Line = ThisDev THEN "calling" ELSE "reading"]
  /\ IF Line = ThisDev THEN served < MaxReq /\ \E i \in disk.named : do_fileinfo(i, {"frag"})
     ELSE UNCHANGED vars
MeasureDevice ==
  /\ HasLine /\ Line \notin {frag.last_dev, SkippedDev}
  /\ frag' = [frag EXCEPT !.at = @ + 1, !.asked = Append(@, Line), !.last_dev = Line,
                          !.pc = IF Line = ThisDev THEN "calling" ELSE "reading"]
  /\ IF Line = ThisDev THEN served < MaxReq /\ \E i \in disk.named : do_fileinfo(i, {"frag"})
     ELSE UNCHANGED vars

EndOfList == /\ frag.pc = "reading" /\ frag.at = Len(frag.list)
             /\ frag' = NoFrag
             /\ UNCHANGED vars

\* The call that is served is fraginfo's while it waits for one.
Answer == /\ Return
          /\ frag' = IF frag.pc = "calling" THEN [frag EXCEPT !.pc = "reading"] ELSE frag
-----------------------------------------------------------------------------
ToolNext == \/ fileinfo_tool \/ fraginfo_tool
            \/ ListDevices \/ SkipLine \/ MeasureDevice \/ EndOfList
            \/ Answer
            \/ (Call \/ Descriptors \/ Send \/ MfsGoesOn) /\ UNCHANGED frag

ToolSpec == ToolInit /\ [][ToolNext]_toolVars /\ WF_vars(ServerStep)
-----------------------------------------------------------------------------
(* fraginfo for the whole system measures every device of the list but 2   *)
(* and none twice, whatever other calls come in between: last_dev is all   *)
(* it remembers of the lines before (fraginfo.c).                          *)
DevicesMeasuredOnce ==
  [][frag.pc = "reading" /\ frag' = NoFrag =>
       /\ ToSet(frag.asked) = ToSet(frag.list) \ {SkippedDev}
       /\ IsInjective(frag.asked)]_toolVars
=============================================================================
