# A TLA+ model of cs551os

The repository holds three projects built on MINIX 3: `prj_1`, a shell called mrpsh; `prj_2`, mailboxes
as system calls of the file system server VFS; `prj_3`, calls and tools that report on files and on the
fragmentation of a file system. This directory models the logic of all three, checks it with TLC on small
instances and proves part of it with TLAPS. Paths below are relative to `src/`.

## 1. Inventory

| component | files | state | operations | how it interacts |
|---|---|---|---|---|
| mailbox calls | `prj_2/src/mailbox.c`, `mailbox_lib.c`, `callnr.h`, `table.c` | `mbList`, `mb_id_pool`, `senderDB`, `susContext` | create, destroy, register, get_av_mailboxes, get_senders, deposit, retrieve | processes call VFS and block; VFS serves one call at a time and answers later, or never |
| deadlock walks | `mailbox.c` 95–185 | `susContext`, a cursor | `check_dead_lock`, `indicate_deadlock` | called by deposit when a destination is full |
| alias table | `prj_1/assoc_ar.c` | main table, overflow table | `init`, `add`, `get`, `write_alias` | the shell's loop, the exit handler, the validator |
| shell main loop | `prj_1/mrpsh.c`, `signal.c` | mode, line, children, alias file, exit handler | read a line, set an alias, fork, wait, exit, SIGINT | children inherit the handler and a copy of the table; SIGINT reaches the whole group |
| line execution, validation | `prj_1/exe.c`, `valid.c` | processes and pipes of one line | `validateIfElseCondition`, `execute`, `execute_single` | fork, pipe, execv, waitpid, read |
| shell parser | `prj_1/parser.c` | none outlives a call | `parseCmd`, `cleanCmd` | gives the tokens of a line to the validator; reads what `write_alias` saved |
| MFS handlers | `prj_3/src/mfs/misc.c` | buffers held, counters, globals such as `EOF_reached` | `fs_get_inode_blocks`, `fs_get_int_frag`, `fs_getfrag` | requests from VFS; block cache and inode table of MFS |
| VFS calls fileinfo, fraginfo | `prj_3/src/fs_tool.c`, `fs_tool_lib.c`, `vfs/request.c` | `pid_info`, descriptors | `do_fileinfo`, `do_fraginfo`, three requests | processes call, MFS answers |
| tools fileinfo, fraginfo | `prj_3/tool/fileinfo.c`, `fraginfo.c`, `list_dev` | options; the list of devices, `last_dev` | read the options, make a call; measure each device of the list | make the two calls; all fraginfos share one list |
| tests, tables, documents, `scratch` | the rest, listed in `PROJECT.json` | none | | clients, exercises and text |

Hard behaviours, and what makes each component correct:

- **Mailboxes.** Calls of several processes interleave, callers stay blocked between a call and a reply that
  another call sends, contexts of suspended senders outlive their suspension, and slots change hands. Correct
  is: mail leaves a mailbox in the order it came and only from senders that may send; counters agree with
  lists; both walks end; no cycle of waiting senders is left.
- **Alias table.** Names collide in a one-byte hash, in any order of arrival. Correct is: it is a map.
- **Shell.** Children run concurrently with the loop, inherit its exit handler and outlive it; `waitpid(-1)`
  takes any of them; a signal comes anywhere, in the exit handler too. Correct is: what an exit saved stays;
  there is always a child to wait for; the prompt comes back; the alias file wins over PROFILE.
- **Line execution.** A condition's success is that nobody wrote to a pipe, over a tree of processes that
  inherited its write end. Correct is: the right programs run, no branch is taken early, the line ends.
- **Parser.** Keywords are looked for after every character of a growing token; two flags and a count decide what is
  dropped. Correct is: a line is split where it is written to be, no word is lost, saved aliases come back.
- **Fragmentation tools.** Nested loops with sentinels and early returns over indirect zones, holes, bitmap
  blocks and a recursion, each holding buffers of a small cache. Correct is: every block is listed, measures
  are those of the tree, buffers come back, calls return, a device is measured once.

The hazards are listed line by line in `PROJECT.json`, with the properties aimed at each.

## 2. Modules

```
WaitGraph  <-- Mailbox --(refines)--> MailQueues      AliasMap <--(refines)-- AliasTable <-- Shell
    ^             ^                       ^                                        ^           ^
WaitGraphProofs  MailboxProofs                                        AliasTableProofs <-- ShellProofs

Parser <-- ShellExec <-- ShellExecProofs --> ParserProofs --> Inductions <-- FsProofs --> FsDevices --> FsTool --> Mfs
```

`<--` is EXTENDS, `--(refines)-->` an INSTANCE with a refinement mapping. Every `MC*` module holds definitions
for TLC only: inputs and small constants. Comments that begin "A slip ... avoids" mark operators that no
specification uses: mutated forms of the definition that follows, kept to show that a property can fail.

### WaitGraph (the deadlock walks)

`susContext` maps a local id to the context of the sender suspended under it; `proc` says which call a process
is blocked in; `handler` is the program counter of VFS, which runs one handler at a time and never blocks in
one. `SuspendSender` stores a context, over whatever was there, and starts the check; `CheckStep` and
`IndicateStep` are one iteration of each loop, with the double hop of `indicate_deadlock`. The rest of the
calls is an environment (`EnterDeposit`, `WakeReceiver`, ...), more liberal than the real one: it does not fix
which local id a caller has. `Mailbox` implements it.

### Mailbox, MailQueues

One action per call, except deposit, which is one action per destination and per iteration of the walks. A
failing call that changes nothing has no action. `MailQueues` is the abstract promise: bounded lists, posted
to at the rear, taken from the front, passed by only when empty. The mapping (`ShownList`, `ShownOut`) forgets
permissions, senders and blocking.

What C leaves undefined is a choice over what the build can do: a read through an unused slot (NULL) or
outside a table either finds no match or ends the defined behaviour (`vfs = "undefined"`); a write through a
wild pointer (local id -1, `sus_sender_idx` past its array) ends it. Fresh heap memory is taken to be zero.
Left out because nothing ever reads them: `num_active_mailboxes` and the contents of `suspended_sender`. A
receiver's `sus_end_p` is the owner's. External: `reply`, `fp_flags` and the return to VFS's main loop.

### AliasTable, AliasMap

`get_hash` is computed on character codes, so that collisions come from the code and not from an assumption;
`added` and `get` follow the two tables. A write past the overflow table sets `overrun`, after which nothing
is claimed. `AliasMap` is a plain map.

### Shell

`Shell` extends `AliasTable`: the table is the shell's own. A command is what the loop does with it (foreground,
background, built-in, alias, exit, invalid, empty, and bare: an alias or set without its arguments, which crashes it). `LastLine` and `NextMode` are the modes PROFILE, alias file
and prompt; `Fork`, `Reap`, `ForkFails` the children; `ShellExits`, `WriteLine`, `Saved` the exit handler, line by
line; `Interrupt`, `AnswerYes`, `AnswerNo` SIGINT. The line pointer that the loop never initialises is chosen at
the start, NULL or memory. A child that returns from `main` runs the handlers it inherited. `Restart` is the next
shell on the file the last one left.

### Parser

A text is a sequence of pieces: blanks, quotes, operators, `=`, the words the parser looks for, other words. Pieces that
touch are one word, so `file` is `fi` and `le` and the search of `parser.c:149` finds in it what it finds in the code. `Scan`
is one character of `parseCmd`: the flags `q_st` and `space_encountered`, the count since the last operator, and
`SplitAtKeyword` for the four searches, which drop what follows the keyword in the token. `aliasCmd` is the other
way through `parseCmd`; `split` of `exe.c` makes arguments of a token. `AsWritten` and `Arguments` say what a text means without a scan: where it is
cut, and what lies between the cuts.

### ShellExec

The line comes first. `Parse` is `parseCmd` and what `validateCommand` makes of the tokens: aliases replaced in those it looks
at (`replaced`), each token of a kind. `status` goes from "typed" to "parsed", or to "set" for a line of alias, and from there to
"refused" (`Refuse`), to "not_found" when the last token looked at names no program (`NotFound`), to "built_in" for the alias
and set of the shell itself (`BuiltIn`), or to "running" (`Accept`). A line of cd or exit is executed by the shell itself, every
other by its first child; either is process 1.

`validateCommand` goes through the tokens and replaces as it goes, so what it judges is partly typed and partly replaced. `Looked` are the tokens
it comes to: it passes over the file behind a `>` (`Passes`, `passed`) and ends at a cd, an alias or a set (`Stops`). `Misplaced` is what it
refuses at a token: an if in front with the rest of the line as it was typed, an operator with the token before it
replaced and the one behind it not. What is executed is all of `replaced`.

All the processes a line becomes. `conds` is the stack of pipes whose writes lie on a process's way back
through the frames it was forked in; they are also the write ends it holds open, before and after `execv`.
`ExecuteIf` forks a condition and waits (`Wait`, `Read`), `ExecutePipe` forks the left command, `ExecuteSingle`
becomes a program or returns, `ExecuteRedirect` opens the file of a `>` before it looks at the command, `Return` is one return of `execute`, `Fails` a failed
`pipe` or `fork`. The reader's end closes when it has read, and a later writer is killed. A process that comes to a place behind the last token dies (`Read`).
`Meaning` is a reference meaning of a line, by recursion on its structure, used in one property.

### Mfs, FsTool, FsDevices

`Mfs` is the walk through a disk given as a constant record: inodes with direct, single and double indirect
zones, directory blocks, the inode bitmap; `MaxZones` is what an inode has room for. The nested loops and the recursion are a stack of frames; a step
is one block, zone or directory entry, with the `get_block`/`put_block` pairs in `held`. What a walk may find is `DiskSound`: indirect
zones hold `NINDIRS` zones, a directory is not empty (it has dot and dot-dot) and its blocks hold entries, named and allocated inodes are in the inode table, no file is
longer than its zones reach. `FsTool` is VFS: the two calls, their
requests in order, the descriptors counted into `pid_info`. VFS holds the mount's lock for the whole call, so one
call runs at a time, while other processes close descriptors. The second copy of the scan in `misc.c` is dead code.

`FsDevices` adds the two tools. Their options are folds over the arguments (`fileinfo_arg`, `fraginfo_arg`), and only the
calls they come to are made. `frag` is a fraginfo that goes through the list of devices: `ListDevices` writes the list,
`SkipLine` passes over a line, `MeasureDevice` makes the call and `Answer` is its return; other programs call in between.

## 3. Runs

| run | question | bounds | size |
|---|---|---|---|
| `wait_graph` | do the walks end, and break every cycle | 2 processes, 4 local ids, lists of 1 | 519 000 states, 27 s |
| `wait_graph_release` | is everyone in a deadlock released (a comment says so) | as above | violated |
| `mailbox` | counters, authorisation, order, table, promise | 2 processes, 2 mailboxes of 2 messages, 3 deposits, two permission words, ids outside the table | 748 000 states, 32 s |
| `mailbox_deadlock` | are the handlers an instance of WaitGraph, and do they return | 2 processes, 2 mailboxes of 1 message, lists of 2 | 195 000 states, 24 s |
| `mailbox_lost_mail` | is mail handed only to a waiting receiver (man page) | 2 processes, 3 deposits | violated |
| `mailbox_wakeup` | does a deposit block only while the mailbox is full (man page) | 2 processes, 3 deposits | violated |
| `alias_table` | is it a map, up to the overflow's limit | six names, two of them at one place and three at another, 2 overflow entries | 4 200 states, 15 s |
| `shell` | saved aliases, children, modes, the prompt | 2 names at one place, 1 overflow entry, 2 children, 1 SIGINT, 2 shells | 377 000 states, 18 s |
| `shell_foreground` | does the wait end with the foreground command | as above, 1 shell | violated |
| `fs_tool` | lists, measures, buffers, return, devices | files of 0 to 7 blocks with every pattern of holes, zones of 1 and 2 blocks; six trees; 2 requests; tools with up to 2 arguments; 3 lists of devices on the six trees | 605 000 states, 110 s |
| `if_else` | split as written, right arguments and programs, no early branch, end | every text of up to 3 pieces, of 4 and 5 over seven pieces; every if line up to 10 tokens, ifs nested two deep, redirections, in four ways of writing; an alias of words, and ten aliases for keywords, operators and built-ins; 2 failed calls | 527 000 states, 85 s |
| `if_else_condition` | does something to read mean that the child failed (a comment says so) | an if as condition of an if | violated |

Why the bounds are enough to mean something:

- Four local ids give wait cycles of one to four senders: a cycle through the caller, beside it, and one that
  the double hop jumps over. Processes are not tied to local ids in `WaitGraph`, so two are enough to have
  contexts of the same and of different senders.
- Two mailboxes of two messages and three deposits fill a list, refuse, hand over, reuse a slot and leave
  mail behind a destroyed mailbox. `MaxMsg` bounds deposits, so that state is finite.
- Two children at a time, two commands and two shells let a background child end a foreground wait, a fork fail,
  a child return after its shell has saved the aliases, and the next shell read and save them again. `MAX_JOBS`, `MAX_INTS`, `MAX_SHELLS` are the bounds.
- Two direct zones, two entries per indirect block and seven blocks reach every kind of zone, the first and the
  last entry of each, a break in the numbering at each border, and holes everywhere. Bitmap blocks of three bits
  make the scan cross blocks. `NR_BUFS`, `NR_INODES` are small, so that deep trees exhaust them.
- Ten tokens (`MaxLen`) are an if with a pipeline, and lines with odd tails that the check of valid.c lets pass; deeper
  lines are given one by one in `NestedLines`. Five pieces (`MaxText`) hold each flag of the scan set and reset around a
  quote, an operator and a keyword; four ways of writing put blanks, quotes and aliases into the longer lines. `AliasLines` have an alias
  for a keyword, an operator or a built-in in each place where the check and the execution see different tokens.
- Lists of four lines hold a device in two lines, the device that is passed over, and names of which one begins with another.

Deadlock is not checked where the system really stops: VFS after undefined behaviour or with every process
blocked, a table overrun, a shell that is down, MFS down, a line that is finished.

**Fairness.** `HandlerReturns`, `WalkReturns`: VFS never blocks inside a handler, so weak fairness of its steps
is the scheduler running VFS. `CallReturns`: the same of VFS and MFS; it excepts
undefined behaviour of VFS and, while a tree is measured, the end of MFS: only a tree may exhaust its tables. `PromptReturns`: the shell is scheduled, a
foreground command ends by itself and the user answers the question of the SIGINT handler; background commands may
run for ever. `LineEnds`: every process is scheduled and the programs of a line end. No process has to make
a call, no line has to be typed or accepted, and no tool has to run.

## 4. Proofs

TLAPS checks these for all values of the constants, under the named assumptions (`MAX_MAILBOXES` positive and so on). Three
say what the provers cannot compute for every value: `PlacesAssumption`, that `get_hash` of a name is a place of the table;
`PowersAssumption`, that the powers of two by which `Mfs` shifts are numbers; `FilesAssumption` and `TextsAssumption`, that
files and lines are sequences of entries and of words. The others are about the environment:

- `DisksAssumption`: every disk can be walked (`DiskSound`). A disk that `fsck` accepts is one.
- `DevListsAssumption`: the list of devices is sorted lines, none empty: `list_dev` sorts two fields of each line of `stat`, the
  device first. An empty line would end the loop of `fraginfo.c:122` early, as `get_non_empty_line` returns its length; and `last_dev` starts as the empty string (`fraginfo.c:114`).
- `TablesAssumption`: VFS's tables have a size and there are finitely many processes (the `fproc` table).
- `IfsChecked`, in `BranchesExist`, and no assumption: the line starts with an `if` and no alias stands for a keyword behind it or was
  one, or it starts otherwise and has no `if` behind a `|`. Other ifs are executed without being checked (`valid.c:167`), and section 5 says what becomes of them.
- `NoneAliased`, in `SentencesAccepted`: the keywords and operators behind the first token were typed and are no aliases' doing.
- `AliasesAreWords`, in `AliasIsItsText`: the values of aliases are words, see below.

TLC evaluates the assumptions in every run of their modules.

**Induction over data.** `Inductions` has the means: `Induction` for a set of numbers with 0 and all successors (from
`LeastNumber`, by a CHOOSE of the least counterexample), `Recursion` and what follows from it for functions that
are defined by the value before, and sums over finite sets (`Sums`, `SumExists`, `SumAdds`), by induction on the cardinality. They are
stated about sets, so no lemma with an operator for a parameter is needed; a property is made a set where it is used.

- **`WaitGraphProofs`**: `WGTypeCorrect`; `WaitCyclesAreBroken` (`NoWaitCycle` is invariant). `NoWaitCycle` is not
  inductive: while a walk runs the table may hold a cycle. `WalkOnEveryCycle` is the strengthening: the cursor stands
  on each. A suspension changes one edge, so every new cycle runs through the caller, where the cursor starts; a step of
  the check moves along the only edge out; `indicate_deadlock` cuts the edge it stands on. That the walks *end* is
  liveness and stays with TLC.
- **`MailboxProofs`**: `TypeCorrect`, and through the inductive invariant `MailboxInv` (types; every mailbox record is
  coherent, `BoxOK`; the table is filled from below; the deposit in progress) `PoolAgrees`, `OwnersAreAlwaysFound`,
  `QueuesAreCounted`, `MailInOrder`, `MailIsAlwaysAuthorised`. `MailInOrder` needs the strengthening that every id in a
  list is at most the newest, and that a mailbox with a waiting receiver is empty; `NobodyWaitsBeforeMail` is the half that
  a waiting owner would notice. `ImplementsWaitGraph` shows the safety part of
  WaitGraph of the real callers, so `NoCycleIsLeft` follows without a second proof.
  `ImplementsMailQueues`: every step of the handlers is a step or a stutter of the abstract lists.
- **`AliasTableProofs`**: `TableCorrect`, `NamesAreHeldOnce`, `TableIsAMap`. `Settled` is the inductive part: an overflow
  entry's place is taken by another name, and no name is there twice. `AddSets` says what an addition does to every `get`.
- **`ShellProofs`**: `TypeCorrect`, which needs `Settled` of the table beside the types (`ShellTypes`) and that
  `write_alias` returns a list of entries: the places in use are a finite set of numbers, which has an increasing enumeration.
  `SavedStaysSaved`: `SavedStays` speaks of the end only; `Saving` adds that while bye writes, the file and the lines left
  together are what is to be written, that nothing is clean before the end, and that no question is open after it.
  `AlwaysEnoughChildren`: `EnoughChildren` is inductive with the types, a fork adds one child to the account, waitpid takes
  one from it together with the wait. `AliasFileAlwaysWins`: the action property is about the last step of the reading, `ReadSoFar`
  says the same of the lines read so far, and `AddSets` what one more line does to it. Nothing else touches table or file meanwhile.
- **`ShellExecProofs`**: ten theorems of what the runs check or rest on, most from one invariant, `ExecInv`. `LineInv`: what runs was accepted. `ProcsInv`: processes, pipes
  and the programs that ran have their types. `WaitInv`: who waits or reads stands on an if, and its child is younger. `PipeInv`: whoever has
  the write end of a pipe is younger than its reader. `PlacesInv`, for `BranchesAlwaysExist`: if a process stands on an if, the if is
  within what `valid.c` has looked at.
  - `BranchesAlwaysExist` is the deepest: `valid.c` keeps a stack of keywords, `execute` counts ifs and fis from each if on, and the
    two must agree. `ScanAgrees` says that they do up to the fi that unwinds an if, by induction over the line: what is on the stack above the
    if was met where the count is 0, in the order if, then, else, so that `execute` finds both (`IfIsComplete`). A then or an else is
    before the fi, so the process that takes a branch is again at such a place.
  - `NobodyStuck`: among the processes that are not over the youngest can go on: its child, if it waits, and all who could still
    write, if it reads, are younger and so over. It is the safety half of `LineEnds`, without which fairness would be of no use.
  - `ExecIsTyped`, whatever the aliases are: a branch that would be behind the last token is not entered (`Read`), all other steps
    look ahead before they move (`Piped`, `Nested`). Where nothing is assumed of a line, that is all there is to say.
  - `SentencesAlwaysAccepted` goes the other way than `BranchesAlwaysExist`: from what a line means to what the check does. `AfterIs` shows
    that `After` is a function that unfolds as it is written (descending induction from the end of the line, which `Then` and the places
    behind a token never leave). `LetThrough` says of the command at a place that it leaves the stack of `valid.c` as it was,
    whatever lies on it, and has its operators placed; `CommandsLetThrough` proves it of every command at once, from the
    end of the line, as an if's three parts are commands behind it. `FiRestores` is the fi, which takes if, then and else off.
  - `LinesRunTheirBranches` joins the two: a line that is a command runs the programs its nested ifs and pipelines call for, whatever the
    nesting and however the processes take turns. `FoundAsMeant` is about the scan: the then and the else `execute` finds by
    counting are where `After` says they are, as a command leaves the count as it was and has its keywords deeper
    (`CommandsCounted`). `MeaningIs` shows that `Meaning` unfolds as it is written. The rest is `Doing`, an invariant of clean lines without
    failed calls. `AllPlaced`: each process stands on a command of the line, and has at most one pipe to fail into if it will fail.
    `AllAwait`: of all who could write to the pipe of a waiting process only its own child may fail, and it writes before it is over.
    `AllDue`: what ran and what each process has still to run is, at any time, the meaning of the line. A clean line has neither `cd`
    nor `exit` and is one of `NoStrayReturns`, without which the failure of one condition reaches another (section 5).
  - `ConditionsAreOver` proves `ThenAfterCondition` of all lines that mean something, also when calls fail. `Orderly` says of any two processes
    that one is behind the whole command on which the other stands (`Before`), or in the condition for which it waits (`Within`); that who is in
    such a condition is over, has written or still has the pipe open (`CanWrite`); and that nobody is left in a condition in whose then branch
    somebody is (`Late`). A process that goes on, or is made, stays between the two ends of the command it comes from (`EntersFacts`), so
    `Apart` is kept (`GoingOnIsApart`). A then branch is entered from its if only, and so is a condition (`EntersThen`, `EntersCond`, which rest on
    `CommandsNest`: a command that begins in another ends in it). `Read` enters a then branch when nothing was written and the pipe is open nowhere,
    which is where the inherited write ends count.
    `MeansStep` has a lemma for each action; `Started` says that a running line has processes. An
    earlier form of `NoStrayReturns` spoke only of an if that is a condition itself, and the inductive step failed at ifs
    deeper inside one; the line in section 5 is the counterexample that was behind it.
  - `ArgumentsAreTheWords`: `split` goes through a token piece by piece, `Arguments` cuts it all at once. `SplitSoFar` relates the two
    for every beginning of the token (`SplitInvStep`): the list is the chunks up to the last break, `tstr` the rest without quotes, and
    `skip` is whether an odd number of quotes was passed. `TokensInv` ties the tokens to the line they are of.
  - `LinesParseAsWritten` says of `parseCmd` what its two lemmas of `ParserProofs` say of `scanned`, the text without blanks at its
    ends. `ScanSays` names the six things a piece can do to the scan; `Pattern` is looked for in the whole token after every piece,
    but can only be at its end, where it was completed (`OnlyAtEnd`), and there only one of them (`OneKeyword`).
    `ScanLosesNothing`: tokens and open token together hold, without blanks, what was read without blanks (`ToldSoFar`).
    `PlainIsAsWritten`: `AsWritten` squeezes the blanks, cuts the text at its separators and cleans the parts, the scan
    does all three as it goes; `WrittenAtStep` tells what is written up to each place, and `PlainSoFar` relates it to the scan. A
    keyword is cut off when the blank behind it is read, one place after it was written: at that place alone (`Pending`) the invariant speaks
    of the place before (`CutIsNext`). Whether a blank is dropped depends on a flag set by the piece before, for which
    `BlankKept`, `SpaceMeant` and `ClosingLast` say what that piece was.
  - `AliasesAreTheirText` compares the scans of two lines, the one typed and the one with each alias that stands spelled out.
    `AliasesAreWords` is a hypothesis of `AliasIsItsText`: values are words with single blanks between them, and neither in them nor among the names
    is an operator, a keyword, a quote, `=`, `alias`, `set` or `cd`; nor is one of the last four in the line. The alias `al = w w` of the runs is such a one. It is not for the proof's
    sake: a value is not split again (section 5), so one with an operator in it is not what its text means. `SameCourse` (in `ParserProofs`, with what else holds of the scan alone): a
    piece that stays takes both scans the same way; `ValueKept`: a value is kept whole where its name is. After each piece the two
    states are `Alike`: the same flags, the tokens of one mean those of the other (`Meant`), and the token being filled is the
    same or has its alias spelled out. Whether an alias stands is decided by the piece behind it (`OpenSpelt`,
    `MayGrow`), which `Alike` looks at before the scans reach it. What `validateCommand` replaces is then what was meant (`AllReplaced`): a token
    that begins with `>` is a `>` alone and never behind another (`Marked`, `Unmarked`), so the tokens it passes over are the files,
    in which no alias stands either.
  - `AliasesAreReadBack`: a line with one equals sign is `AliasText` of a name and a value (`IsAliasText`), and `aliasCmd` splits
    that text there and drops the quotes (`AliasTextSplit`); so it does with the line that was saved, which begins and ends in
    a word and is not changed by `cleanCmd`. That a value does not end in a blank is needed here and nowhere else.
- **`FsProofs`**: eight layers over one model, each an inductive invariant that uses those before it.
  - `BuffersAreReturned` (`FsInv`). `BuffersReturned` speaks of the time between requests; `FsInv` says what is held meanwhile: each
    item "put" or "done" that waits in a frame owes one block (`Pending`, a finite set of places), the blocks held are as many as are
    owed, and under them lie only last blocks of the bitmap, which earlier scans left (`HeldOK`). Items are counted from the end of a
    frame, where a step that puts others in front does not move them. The rest of `FsInv` is what a walk needs to go on: items point
    to zones, blocks and inodes that are there (`FrameSound`), and a scan that runs out of bits is in the last block of the map.
  - `RunsAreTheVisits` (`RunsInv`): the runs are flattened by a recursive fold, so a printed run adds its blocks at the end.
  - `ToolIsTyped` (`TypeInv`). That `left` is never below 0 needs `LeftInv`: the entries of a directory's block come before its "done",
    and until that `left` is above 0.
  - `DevicesAreMeasuredOnce` (in `TypeInv`): the devices asked for are those of the lines passed, and as the list is sorted all lines
    of a device that were passed are the last ones, which `last_dev` stands for.
  - `ScanMeasuresTheDisk` (`ScanInv`): `inodesScanned` is the bit number, and the total is the sum over the allocated inodes below it;
    `UnusedIsFragmented` shows that what the code adds for one is what is left of its last zone.
  - `FilesAreListed` (`ListInv`): the items that wait in the only frame stand, end to end, for the blocks from `p` up to the room of
    an inode (`Laid`): a zone for its blocks, an indirect zone for those of its entries, through `div` and `%` of the zone's number.
    What is listed are the blocks below `p` that are no holes, or the file is at its end (`ListedTo`). A hole moves `p` and not the
    count, so that the loops run past the end of the file, but never stop before it.
  - `TreesAreMeasured` (`TreeInv`): at any time of a walk there is a set M of measured inodes (`TreeWalk`). All of M was reached from
    the top; whatever an inode of M names is in M, or still waits in the one frame of that inode (`Rest`); and the statistics are those
    of M (`Stats`), but for a directory at its first item, whose blocks are added while it is not yet an entry. Nothing that waits is
    in M, since nothing is named twice, so no inode is counted twice; at the end nothing waits, so M is closed under `Names`
    and is the tree (`TreeDone`). `SumAdds` and `Inductions`' `SumOver` carry the totals, and the bins, extremes and counts have a lemma each.
    Several blocks of a directory are excluded because the code passes over two slots of each (section 5).

Only model-checked: all liveness (`WalkReturns`, `HandlerReturns`, `PromptReturns`, `LineEnds`, `CallReturns`), which needs ENABLED.
Every invariant and every action property of the passing runs is stated by a theorem, and the refinements by theorems about
their safety part.

## 5. Where code and documents disagree

Shown by a run (`PROJECT.json`, findings):

1. `indicate_deadlock` does not release every process of the deadlock (`DeadlockReleasesAll`).
2. A deposit hands its message to a receiver that no longer waits: `mailbox.c:306` compares `rx_suspended` where it
   means to assign (`HandedToWaitingReceiver`).
3. A retrieve makes room and wakes nobody (`BlockedOnlyWhileFull`).
4. The wait for a foreground command ends with any child (`ForegroundEnded`).
5. With an if anywhere in a condition, the inner condition's failure is taken for the outer one's (`ConditionFailed`); so is
   a failing left command of a pipeline. `NoStrayReturns`, the hypothesis of `RunsTheBranches`, excludes both, at any depth:
   `if if c then if c then c else c fi else c fi then c else c fi` goes wrong too, with 19 tokens, more than the runs' lines have.

Met while modelling, kept in the model as the code has them, without a run:

- Mailboxes: anybody may destroy a mailbox (`design_apis.txt:44`, `mailbox.c:552`). Destroyed mailboxes are listed as
  (-1, -1), which ends the list for the reader (`design_apis.txt:47`, `mailbox.c:621`). A deadlock may be reported on
  the ground of contexts of senders long released (`mailbox.c:162`), and is missed when it goes through the second
  destination of a list. `senderDB` starts as zeros while -1 means free (`mailbox.c:231`), so senders without a
  mailbox have no local id. A receiver of a destroyed mailbox is never answered.
- Shell: a bare `alias` or `set` gives `set_alias` or `set_config` a NULL, which ends the shell (`mrpsh.c:239`, `242`). `write_alias` leaves out the overflow table (`assoc_ar.c:119`). The first line of the alias file is lost
  (`mrpsh.c:167`). The exit handler is registered by the first fork only (`mrpsh.c:257`), and an exit before the alias
  file was read empties it (`mrpsh.c:58`). The loop's own `line` is never initialised (`mrpsh.c:151`); at the end of
  the input the prompt repeats for ever. `cd` as a condition does nothing and fails (`exe.c:291`), and `cd | ls` turns the shell
  itself into `ls` (`mrpsh.c:247`).
- Validation and execution: after a `|` an if is executed although `valid.c` checks only lines that start with one (`valid.c:167`):
  without an else it starts the line again from its first token, for ever. `IfsAreChecked` of MCShellExec leaves such lines out.
  The value of an alias is put into a token after the line was split (`valid.c:142`) and is not split again, so an operator among other words
  of it is passed as an argument. A value that is exactly one keyword or operator acts as one when the line is executed, but the check of an if line
  runs at its first token (`valid.c:167`), before the others are replaced: with `x` for `if`, `if x then w else w fi` is accepted and, having
  no then for its first if, starts over for ever; with `z` for `fi`, `if w then w else if w then w else w fi z` is refused. `if x | w then w else w fi y` with `y` for `else` comes
  to a branch behind its last token, and the process dies. Behind an operator, too, a token is looked at before it is replaced
  (`valid.c:234`), so `w | x` with `x` for `|` is refused for its last token, and not where the first one is. An alias for `alias`, `set` or
  `cd` ends the check where it is met (`valid.c:187`). All of this is in the model, and the runs have such
  lines, but for those that start over; `BranchesExist` and `SentencesAccepted` except them.
  `ls| | ls` is accepted, because of the empty token between the operators (`valid.c:230`). `a > f | b` never
  runs `b` (`exe.c:163`).
- Parser: the ` fi` of `cat file` is taken for a keyword (`parser.c:149`). A line that ends in fi gets an empty token more,
  which becomes `/bin/`. What follows a keyword inside of quotes is lost (`parser.c:76`), and so is the last token of a line whose quote is
  not closed. Tokens after the first are gathered in 30 bytes (`parser.c:78`), one less than a line of `demo_1.txt` needs; the
  array of tokens has 18 entries (`mrpsh.c:149`), which nothing counts. Blank strings are scanned below their start (`parser.c:185`).
  Alias values with an equals sign, a trailing blank or blanks around the `=` do not come back from the file (`assoc_ar.c:117`).
- File system: the scan leaves a bitmap block held (`misc.c:140`), reports a least fragmentation of 0 and an average per
  block, and no report when the bitmap ends with its block (`misc.c:159`). Of a directory of several blocks the first
  two entries of each are passed over (`misc.c:914`), the blocks of a zone are computed with the wrong shift
  (`misc.c:905`), and the number of files is too high (`misc.c:660`, `817`). `pid_info` can overflow and counts descriptors
  as processes (`fs_tool.c:90`); each call leaks 256 bytes (`fs_tool.c:45`); `do_fraginfo` ignores its result. The option -d of fraginfo does nothing, and two
  fraginfos at a time write the same list (`fraginfo.c:108`).

## 6. Not modelled

The sizes of the parser's buffers and of the array of tokens: words are short and lines that would overrun are left out; the two strings
`set_config` keeps; the search for a program in `/bin` and `/usr/bin`: which programs exist is a choice, of the last token's
in the check (`NotFound`) and of every token's in the execution (`Accept`), and names that pass without a program (`var`, `print`, `expr`) are like any other;
two fraginfos at a time on the one list, and the drafts `get_dev.c` and `frag.c`; what the tools print beyond
the numbers in the properties; kills and exits of processes inside VFS calls, which belong to VFS; MINIX's own functions in `misc.c`,
`request.c` and the headers; tests, demonstration scripts, documents, build scripts and `scratch`. `PROJECT.json` names the
component and the reason for each.

## 7. Plan

Done: WaitGraph, Mailbox, MailQueues and their proofs; AliasTable, Shell and their proofs; Parser and ShellExec, with the proofs about
processes, branches and the meaning of a line; Mfs, FsTool, FsDevices and the proofs of all their safety and action properties.

Left to model: the composition of Shell and ShellExec at `Returns`, so that the children that run an inherited exit handler are those
ShellExec produces; two fraginfos on one list.
