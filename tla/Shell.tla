-------------------------------- MODULE Shell --------------------------------
(***************************************************************************)
(* The main loop of mrpsh and what it shares with its children: the lines  *)
(* of PROFILE, of the alias file and of the prompt, the forked commands    *)
(* and the wait for them, the alias table of AliasTable, the exit handler  *)
(* bye that rewrites the alias file, and the SIGINT handler that asks      *)
(* whether to exit.                                                        *)
(*                                                                         *)
(* A command is known by what the loop does with it, not by its text.  The *)
(* kernel's part (fork, exec, exit, waitpid, signals to the process group) *)
(* is modelled from how the shell uses it.                                 *)
(***************************************************************************)
EXTENDS AliasTable

CONSTANTS Profiles,     \* PROFILE: sequences of commands
          AliasFiles,   \* the alias file a first shell finds
          MAX_JOBS,     \* bound: commands forked by one shell
          MAX_PROCS,    \* children the kernel gives a shell at a time
          MAX_INTS,     \* bound: SIGINTs
          MAX_SHELLS    \* bound: shells run one after another

ASSUME BoundsAssumption == {MAX_JOBS, MAX_PROCS, MAX_INTS} \subseteq Nat /\ MAX_SHELLS \in Nat \ {0}

VARIABLES mode,        \* cmd_mode: "profile", "alias" or "prompt"
          pc,          \* "read", "wait" (waitpid), "save" (bye), "down"
          asking,      \* the SIGINT handler waits for an answer
          line,        \* "null" or "buffer": what the loop finds in its own line
          line_full,   \* the last line read was not empty
          profile,     \* lines of PROFILE not read yet
          alias_pos,   \* lines of the alias file already read
          file,        \* the alias file
          to_write,    \* lines bye has still to write
          jobs,        \* the children, in the order they were forked
          waiting_for, \* the child that waitpid is called for
          exit_reg,    \* exit_reg_once: bye is registered
          clean,       \* history: "yes" once the end went through all of exit
          ints, shells \* SIGINTs and shells so far

readVars == <<mode, line, line_full, profile, alias_pos>>
loopVars == <<readVars, pc, asking>>
vars == <<tableVars, loopVars, file, to_write, jobs, waiting_for, exit_reg, clean, ints, shells>>

Simple == {"fg", "bg", "builtin", "exit", "invalid", "empty", "bare"}
Commands == [kind : Simple] \cup [kind : {"alias"}, key : Key, val : Val]

ASSUME FilesAssumption == Profiles \subseteq Seq(Commands) /\ AliasFiles \subseteq Seq(Entries)

NoJob == 0
JobStates == {"forked", "running", "zombie", "reaped"}
\* registered: the child inherited bye; copy: its copy of the alias table.
Jobs == [state : JobStates, fg : BOOLEAN, registered : BOOLEAN, copy : Tables]

TypeOK == /\ TableOK
          /\ mode \in {"profile", "alias", "prompt"}
          /\ pc \in {"read", "wait", "save", "down"}
          /\ asking \in BOOLEAN /\ line \in {"null", "buffer"} /\ line_full \in BOOLEAN
          /\ profile \in Seq(Commands)
          /\ file \in Seq(Entries) /\ to_write \in Seq(Entries)
          /\ alias_pos \in Nat
          /\ jobs \in Seq(Jobs) /\ Len(jobs) <= MAX_JOBS
          /\ waiting_for \in 0 .. Len(jobs)
          /\ exit_reg \in BOOLEAN /\ clean \in BOOLEAN
          /\ ints \in 0 .. MAX_INTS /\ shells \in 1 .. MAX_SHELLS

\* main up to the loop.  line_full is 1 before anything is read.  The loop declares a
\* line of its own and never initialises it; either it happens to point at memory that
\* can be written, or it is NULL and is taken for the end of PROFILE.
LoopInit == /\ mode = "profile" /\ pc = "read" /\ asking = FALSE
            /\ line \in {"null", "buffer"} /\ line_full = TRUE
            /\ profile \in Profiles /\ alias_pos = 0
            /\ to_write = <<>> /\ jobs = <<>> /\ waiting_for = NoJob
            /\ exit_reg = FALSE /\ clean = FALSE

Init == /\ TableInit /\ LoopInit
        /\ file \in AliasFiles /\ ints = 0 /\ shells = 1

Unreaped == {j \in DOMAIN jobs : jobs[j].state # "reaped"}
Zombies == {j \in DOMAIN jobs : jobs[j].state = "zombie"}
Reading == pc = "read" /\ ~asking
-----------------------------------------------------------------------------
(* Lines.                                                                  *)

HasLines == line = "buffer" /\ line_full

\* The end of PROFILE is its end or its first empty line.
EndOfProfile == profile # <<>> => Head(profile).kind = "empty"

\* An empty read ends the mode, in the pass after it.
LastLine == /\ Reading /\ HasLines
            /\ \/ mode = "profile" /\ EndOfProfile
               \/ mode = "alias" /\ alias_pos = Len(file)
            /\ line_full' = FALSE
            /\ UNCHANGED <<tableVars, mode, line, pc, asking, profile, alias_pos, file, to_write,
                           jobs, waiting_for, exit_reg, clean, ints, shells>>

\* The shell dies of a signal: no handler runs.
Crashes == pc' = "down" /\ UNCHANGED <<file, to_write, clean>>

\* cmd_mode++.  Entering the alias file reads its first line, through NULL if that is
\* what line is, and the next pass reads the second line over it.
NextMode == /\ Reading /\ ~HasLines /\ mode # "prompt"
            /\ IF mode = "profile"
               THEN /\ mode' = "alias" /\ line_full' = (file # <<>>)
                    /\ alias_pos' = IF file = <<>> THEN 0 ELSE 1
               ELSE mode' = "prompt" /\ UNCHANGED <<line_full, alias_pos>>
            /\ IF mode = "profile" /\ line = "null" /\ file # <<>> THEN Crashes
               ELSE UNCHANGED <<pc, file, to_write, clean>>
            /\ UNCHANGED <<tableVars, asking, line, profile, jobs, waiting_for, exit_reg, ints, shells>>

AliasCommand(e) == [kind |-> "alias", key |-> e.key, val |-> e.val]

\* The command of the next line.
Obtain(c) ==
  /\ Reading
  /\ \/ /\ mode = "prompt" /\ c \in Commands
        /\ UNCHANGED <<profile, alias_pos>>
     \/ /\ mode = "profile" /\ HasLines /\ ~EndOfProfile
        /\ c = Head(profile) /\ profile' = Tail(profile)
        /\ UNCHANGED alias_pos
     \/ /\ mode = "alias" /\ HasLines /\ alias_pos < Len(file)
        /\ c = AliasCommand(file[alias_pos + 1]) /\ alias_pos' = alias_pos + 1
        /\ UNCHANGED profile
  /\ UNCHANGED <<mode, asking, line, line_full, shells, ints>>
-----------------------------------------------------------------------------
(* The end of the shell.                                                   *)

\* bye saves in the process that is the shell, and returns in its children.
\* A slip is_shell avoids: my_pid is not compared.
any_process(pid) == TRUE
is_shell(pid) == pid = NoJob

\* exit: the handlers run in the shell if they are registered.
ShellExits(t) == IF exit_reg /\ is_shell(NoJob)
                 THEN pc' = "save" /\ file' = <<>> /\ to_write' = write_alias(t) /\ UNCHANGED clean
                 ELSE pc' = "down" /\ clean' = TRUE /\ UNCHANGED <<file, to_write>>

-----------------------------------------------------------------------------
(* Commands.                                                               *)

\* cd, a set that has its arguments, a refused command, an empty line: the next pass.
NoChild == /\ \E c \in Commands : c.kind \in {"builtin", "invalid", "empty"} /\ Obtain(c)
           /\ UNCHANGED <<tableVars, pc, file, to_write, jobs, waiting_for, exit_reg, clean>>

\* alias: the table is written past when it overruns.
SetAlias == /\ \E k \in Key, v \in Val :
                 /\ Obtain([kind |-> "alias", key |-> k, val |-> v])
                 /\ Add(k, v)
            /\ IF overrun' THEN Crashes ELSE UNCHANGED <<pc, file, to_write, clean>>
            /\ UNCHANGED <<jobs, waiting_for, exit_reg>>

\* alias or set without its arguments: set_alias or set_config is given NULL.
Bare == /\ Obtain([kind |-> "bare"]) /\ Crashes
        /\ UNCHANGED <<tableVars, jobs, waiting_for, exit_reg>>

Exit == /\ Obtain([kind |-> "exit"]) /\ ShellExits(ar)
        /\ UNCHANGED <<tableVars, jobs, waiting_for, exit_reg>>

NewJob(fg) == [state |-> "forked", fg |-> fg, registered |-> exit_reg, copy |-> ar]

\* fork.  The first one makes the shell register bye; a foreground command is waited for.
Fork(fg) == /\ Obtain([kind |-> IF fg THEN "fg" ELSE "bg"])
            /\ Len(jobs) < MAX_JOBS /\ Cardinality(Unreaped) < MAX_PROCS
            /\ jobs' = Append(jobs, NewJob(fg))
            /\ exit_reg' = TRUE
            /\ IF fg THEN pc' = "wait" /\ waiting_for' = Len(jobs')
               ELSE UNCHANGED <<pc, waiting_for>>
            /\ UNCHANGED <<tableVars, file, to_write, clean>>

\* The process table is full: exit(EXIT_FAILURE).
ForkFails == /\ \E k \in {"fg", "bg"} : Obtain([kind |-> k])
             /\ Cardinality(Unreaped) >= MAX_PROCS
             /\ ShellExits(ar)
             /\ UNCHANGED <<tableVars, jobs, waiting_for, exit_reg>>

\* waitpid(-1): any child that has ended, not the one that was forked last.
\* A slip Reaps avoids: the shell waits until all its children have ended.
ReapsWhenAllEnded(j) == j \in Zombies /\ Zombies = Unreaped
Reaps(j) == j \in Zombies

\* A slip Reap avoids: every child that has ended is taken.
ReapEveryone == /\ pc = "wait" /\ ~asking /\ Zombies # {}
                /\ jobs' = [j \in DOMAIN jobs |->
                              IF j \in Zombies THEN [jobs[j] EXCEPT !.state = "reaped"] ELSE jobs[j]]
                /\ pc' = "read" /\ waiting_for' = NoJob
                /\ UNCHANGED <<tableVars, readVars, asking, file, to_write,
                               exit_reg, clean, ints, shells>>

\* And a slip of the account: the child is unlinked under the wait for it.
ReapUnlinks == /\ pc = "wait" /\ ~asking
               /\ \E j \in DOMAIN jobs : Reaps(j) /\ jobs' = RemoveAt(jobs, j)
               /\ UNCHANGED <<tableVars, loopVars, waiting_for, file, to_write,
                              exit_reg, clean, ints, shells>>
Reap == /\ pc = "wait" /\ ~asking
        /\ \E j \in DOMAIN jobs : Reaps(j) /\ jobs' = [jobs EXCEPT ![j].state = "reaped"]
        /\ pc' = "read" /\ waiting_for' = NoJob
        /\ UNCHANGED <<tableVars, readVars, asking, file, to_write,
                       exit_reg, clean, ints, shells>>
-----------------------------------------------------------------------------
(* bye, line by line, and the end of the process.                          *)

WriteLine == /\ pc = "save" /\ ~asking /\ to_write # <<>>
             /\ file' = Append(file, Head(to_write)) /\ to_write' = Tail(to_write)
             /\ UNCHANGED <<tableVars, loopVars, jobs, waiting_for, exit_reg, clean, ints, shells>>

Saved == /\ pc = "save" /\ ~asking /\ to_write = <<>>
         /\ pc' = "down" /\ clean' = TRUE
         /\ UNCHANGED <<tableVars, readVars, asking, file, to_write,
                        jobs, waiting_for, exit_reg, ints, shells>>

Restart == /\ pc = "down" /\ shells < MAX_SHELLS
           /\ shells' = shells + 1
           /\ ar' = init /\ overrun' = FALSE
           /\ mode' = "profile" /\ pc' = "read" /\ asking' = FALSE
           /\ line' \in {"null", "buffer"} /\ line_full' = TRUE
           /\ profile' \in Profiles /\ alias_pos' = 0
           /\ to_write' = <<>> /\ jobs' = <<>> /\ waiting_for' = NoJob
           /\ exit_reg' = FALSE /\ clean' = FALSE
           /\ UNCHANGED <<file, ints>>
-----------------------------------------------------------------------------
(* Children.                                                               *)

ShellSame == UNCHANGED <<tableVars, loopVars, to_write, waiting_for, exit_reg, clean, shells>>

\* execv replaces the image, the handlers with it.
Exec(j) == /\ jobs[j].state = "forked"
           /\ jobs' = [jobs EXCEPT ![j].state = "running"]
           /\ ShellSame /\ UNCHANGED <<file, ints>>

Ends(j) == /\ jobs[j].state = "running"
           /\ jobs' = [jobs EXCEPT ![j].state = "zombie"]
           /\ ShellSame /\ UNCHANGED <<file, ints>>

\* A child whose execute returns, or that runs exit: main ends in the child, and the
\* handlers it inherited run there.
Returns(j) == /\ jobs[j].state = "forked"
              /\ jobs' = [jobs EXCEPT ![j].state = "zombie"]
              /\ file' = IF jobs[j].registered /\ is_shell(j) THEN write_alias(jobs[j].copy)
                         ELSE file
              /\ ShellSame /\ UNCHANGED ints

ChildStep == \E j \in DOMAIN jobs : Exec(j) \/ Ends(j) \/ Returns(j)
-----------------------------------------------------------------------------
(* SIGINT goes to the process group: programs end, or not as they please;  *)
(* the shell asks, even in the middle of bye, and goes on where it was.    *)
Interrupt == /\ pc # "down" /\ ~asking /\ ints < MAX_INTS
             /\ ints' = ints + 1 /\ asking' = TRUE
             /\ \E hit \in SUBSET {j \in DOMAIN jobs : jobs[j].state = "running"} :
                  jobs' = [j \in DOMAIN jobs |->
                             IF j \in hit THEN [jobs[j] EXCEPT !.state = "zombie"] ELSE jobs[j]]
             /\ UNCHANGED <<tableVars, readVars, pc, file, to_write,
                            waiting_for, exit_reg, clean, shells>>

\* y: exit, from wherever the shell was.  bye does not run a second time.
AnswerYes == /\ asking /\ asking' = FALSE
             /\ IF pc = "save" THEN Crashes ELSE ShellExits(ar)
             /\ UNCHANGED <<tableVars, readVars, jobs, waiting_for,
                            exit_reg, ints, shells>>

\* Any other answer; a waitpid that was interrupted may return with no child.
AnswerNo == /\ asking /\ asking' = FALSE
            /\ \/ UNCHANGED <<pc, waiting_for>>
               \/ pc = "wait" /\ pc' = "read" /\ waiting_for' = NoJob
            /\ UNCHANGED <<tableVars, readVars, file, to_write, jobs,
                           exit_reg, clean, ints, shells>>
-----------------------------------------------------------------------------
Loop == \/ LastLine \/ NextMode \/ NoChild \/ SetAlias \/ Bare \/ Exit
        \/ Fork(TRUE) \/ Fork(FALSE) \/ ForkFails
Next == Loop \/ Reap \/ WriteLine \/ Saved \/ Restart \/ ChildStep
        \/ Interrupt \/ AnswerYes \/ AnswerNo

\* A foreground command ends by itself; a background command may run for ever.
ForegroundEnds == \E j \in DOMAIN jobs : jobs[j].fg /\ (Exec(j) \/ Ends(j) \/ Returns(j))

Spec == Init /\ [][Next]_vars
LiveSpec == /\ Spec
            /\ WF_vars(Reap) /\ WF_vars(WriteLine) /\ WF_vars(Saved)
            /\ WF_vars(AnswerYes \/ AnswerNo) /\ WF_vars(ForegroundEnds)
-----------------------------------------------------------------------------
(* What a completed exit saved stays saved: the children inherit bye with  *)
(* their copy of the table, and whichever of them returns from main, even  *)
(* after the shell is gone, must leave the file alone (bye, my_pid).       *)
SavedStays == pc = "down" /\ clean /\ exit_reg => file = write_alias(ar)

(* waitpid(-1) takes any child, so the account must come out even: every   *)
(* background command leaves one child unreaped, and while the shell waits *)
(* there is one more, so that waitpid never fails for want of a child.     *)
EnoughChildren ==
  Cardinality(Unreaped) >= Cardinality({j \in DOMAIN jobs : ~jobs[j].fg})
                             + (IF pc = "wait" THEN 1 ELSE 0)

(* When the alias file has been read, its lines prevail over what PROFILE  *)
(* defined, and a later line over an earlier one, though names may share a *)
(* place of the table.  (The first line is read over before it is parsed.) *)
AliasFileWins ==
  [][mode = "alias" /\ mode' = "prompt" =>
       \A i \in 2 .. Len(file) :
         (\A n \in i + 1 .. Len(file) : file[n].key # file[i].key)
           => get(ar, file[i].key) = file[i].val]_vars

(* The shell comes back to its prompt from every foreground command, though*)
(* background commands may run for ever and zombies be in the way.         *)
PromptReturns == pc = "wait" ~> pc # "wait"

(* "Child %d exited properly", says the shell of the command it waited for *)
(* (mrpsh.c:263).  waitpid(-1) may have taken a background child.          *)
ForegroundEnded ==
  [][pc = "wait" /\ pc' = "read" /\ ~asking
       => jobs'[waiting_for].state \in {"zombie", "reaped"}]_vars
=============================================================================
