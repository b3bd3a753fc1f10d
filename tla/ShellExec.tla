------------------------------ MODULE ShellExec ------------------------------
(***************************************************************************)
(* What mrpsh does with a line: it is parsed (module Parser), the aliases  *)
(* in it are replaced and it is checked (valid.c), and execute of exe.c    *)
(* runs it, with if .. then .. else .. fi, pipelines and redirections.     *)
(* The process that executes first is a child of the shell, or the shell   *)
(* itself for cd and exit; a line of alias or set executes nothing.        *)
(*                                                                         *)
(* A condition is executed by a process of its own, which returns from     *)
(* execute only if it could not become a program, and then writes to a     *)
(* pipe; the parent waits for it and reads: nothing to read is success.    *)
(* A process that returns does so through the calls it was forked in.  Of  *)
(* those only the ones that write matter: conds is their pipes, which are  *)
(* also the write ends the process, or the program it became, has open.    *)
(*                                                                         *)
(* What is executed is the kinds of the tokens; a command is "cmd", and    *)
(* whether its program exists depends on its place.  The kernel's part     *)
(* (fork, pipe, open, execv, waitpid, read) is modelled from how exe.c     *)
(* uses it.                                                                *)
(***************************************************************************)
EXTENDS Parser

CONSTANTS Lines,       \* texts that are typed or read from a file
          Aliases,     \* tables of aliases, functions from words to texts
          MAX_PARAMS,  \* the room of the array of tokens, its NULL included
          MAX_FAULTS   \* bound: calls of pipe or fork that fail

ASSUME FaultsAssumption == MAX_FAULTS \in Nat
ASSUME TextsAssumption == /\ \A t \in Lines : t \in Seq(STRING)
                          /\ \A a \in Aliases : \A name \in DOMAIN a : a[name] \in Seq(STRING)

VARIABLES in_cmd,    \* the text
          alias_s,   \* the aliases that are set
          status,    \* what main has done with it
          cmd_list,  \* the kinds of its tokens
          exists,    \* the places of programs that exist and of files that can be opened
          procs,     \* the processes, the child of the shell first
          data,      \* for each pipe, whether something was written
          ran,       \* the places that were executed
          faults     \* failed calls of pipe or fork so far

line == <<in_cmd, alias_s, status, cmd_list, exists>>
vars == <<line, procs, data, ran, faults>>

\* "mixed" is a keyword or an operator and more; an empty token becomes /bin/, no program.
Tokens == Keywords \cup Operators \cup {"cmd", "cd", "exit", "set", "mixed", ""}
-----------------------------------------------------------------------------
(* validateCommand, one token after the other: its first word may be an    *)
(* alias, whose value is not parsed again.                                 *)

FirstWord(tok) == IF Blank \in ToSet(tok) THEN SubSeq(tok, 1, Min({i \in DOMAIN tok : tok[i] = Blank}) - 1) ELSE tok

\* A slip Substituted avoids: what follows the alias is lost.
SubstitutedAlone(tok) ==
  IF Len(FirstWord(tok)) = 1 /\ tok[1] \in DOMAIN alias_s THEN alias_s[tok[1]] ELSE tok
Substituted(tok) ==
  IF Len(FirstWord(tok)) = 1 /\ tok[1] \in DOMAIN alias_s
  THEN alias_s[tok[1]] \o SubSeq(tok, 2, Len(tok)) ELSE tok

Begins(tok, S) == tok # <<>> /\ tok[1] \in S

Kind(tok) ==
  CASE tok = <<>> -> ""
    [] Len(tok) = 1 /\ tok[1] \in Keywords \cup Operators -> tok[1]
    [] Len(tok) > 1 /\ tok[1] = "&" -> "&"
    [] \/ tok = <<"=">>
       \/ Len(tok) > 1 /\ (tok[1] \in {">", "|", "="} \/ FirstWord(tok) \in {<<t>> : t \in Keywords}) -> "mixed"
    [] FirstWord(tok) \in {<<"cd">>, <<"exit">>, <<"set">>} -> tok[1]
    [] OTHER -> "cmd"
kinds(toks) == [k \in DOMAIN toks |-> Kind(toks[k])]

\* The token behind one that starts with > or is = is passed over; nothing is looked at
\* behind a cd, an alias or a set that has its arguments.  (Behind a token that is refused
\* nothing is replaced either, which nobody sees.)
Passes(toks, k) == Begins(Substituted(toks[k]), {">"}) \/ Substituted(toks[k]) = <<"=">>
passed(toks) == LET upTo[k \in 0 .. Len(toks)] ==
                      IF k < 2 THEN {}
                      ELSE LET before == upTo[k - 1]
                           IN  IF k - 1 \notin before /\ Passes(toks, k - 1) THEN before \cup {k} ELSE before
                IN  upTo[Len(toks)]
Stops(toks, k) == LET cmd == FirstWord(Substituted(toks[k]))
                  IN  cmd = <<"cd">> \/ (cmd \in {<<"alias">>, <<"set">>} /\ k + 2 <= Len(toks))
Looked(toks) == LET skipped == passed(toks)
                IN  {k \in DOMAIN toks \ skipped : \A j \in 1 .. k - 1 : Stops(toks, j) => j \in skipped}
replaced(toks) == LET looked == Looked(toks)
                  IN  [k \in DOMAIN toks |-> IF k \in looked THEN Substituted(toks[k]) ELSE toks[k]]
-----------------------------------------------------------------------------
(* validateIfElseCondition: a stack of keywords, unwound at each fi.       *)

Opens(t) == t \in {"if", "then", "else"}

\* The three rounds of the loop at fi; an empty stack ends it early.
\* prev is what the next keyword down has to be followed by.
Follows == [fi |-> "else", else |-> "then", then |-> "if"]
PopOne(s) == IF s.stk = <<>> \/ ~s.valid THEN s
             ELSE IF Last(s.stk) # Follows[s.prev] THEN [s EXCEPT !.valid = FALSE]
             ELSE [s EXCEPT !.stk = Front(@), !.prev = IF Last(s.stk) = "if" THEN "fi" ELSE Last(s.stk)]

\* A nested if comes after a keyword, the others after a command or a fi.
\* Slips Validated avoids: fi takes what is on the stack unseen; a fi is no command.
ValidatedLoosely(l, s, i) ==
  LET t == l[i]
      placed == IF t = "if" THEN i = 1 \/ Opens(l[i - 1]) ELSE ~Opens(l[i - 1])
  IN  IF t \notin Keywords THEN s
      ELSE IF ~placed THEN [s EXCEPT !.valid = FALSE]
      ELSE IF t = "fi" THEN [s EXCEPT !.stk = <<>>]
      ELSE [s EXCEPT !.stk = Append(@, t)]
ValidatedStrictly(l, s, i) ==
  LET t == l[i]
      placed == IF t = "if" THEN i = 1 \/ Opens(l[i - 1]) ELSE l[i - 1] \notin Keywords
  IN  IF t \notin Keywords THEN s
      ELSE IF ~placed THEN [s EXCEPT !.valid = FALSE]
      ELSE IF t = "fi" THEN PopOne(PopOne(PopOne(s)))
      ELSE [s EXCEPT !.stk = Append(@, t)]
Validated(l, s, i) ==
  LET t == l[i]
      placed == IF t = "if" THEN i = 1 \/ Opens(l[i - 1]) ELSE ~Opens(l[i - 1])
  IN  IF t \notin Keywords THEN s
      ELSE IF ~placed THEN [s EXCEPT !.valid = FALSE]
      ELSE IF t = "fi" THEN PopOne(PopOne(PopOne(s)))
      ELSE [s EXCEPT !.stk = Append(@, t)]

\* The check after the first k tokens is checked(l)[k].
checked(l) == LET after[k \in 0 .. Len(l)] == IF k = 0 THEN [stk |-> <<>>, prev |-> "fi", valid |-> TRUE]
                                              ELSE Validated(l, after[k - 1], k)
              IN  after
validateIfElseCondition(l) == LET s == checked(l)[Len(l)] IN s.valid /\ s.stk = <<>>

\* An operator is neither first nor last, and none is behind it: what is behind is looked
\* at before its alias is replaced, and so is all of an if line but its first token.
Misplaced(toks, k) ==
  LET tok == Substituted(toks[k])
  IN  IF k = 1 /\ FirstWord(tok) = <<"if">>
      THEN Len(toks) = 1 \/ ~validateIfElseCondition(kinds([toks EXCEPT ![1] = tok]))
      ELSE \/ /\ Begins(tok, {">", "|"}) \/ tok = <<"=">>
              /\ \/ k = 1 \/ k = Len(toks) \/ Begins(toks[k + 1], Operators \cup {"="})
                 \/ tok = <<"=">> /\ replaced(toks)[k - 1] \in {<<"alias">>, <<"set">>}
           \/ Begins(tok, {"&"}) /\ k # Len(toks)

validateCommand(toks) == toks # <<>> /\ \A k \in Looked(toks) : ~Misplaced(toks, k)

\* A line also ends well only if its last token looked at has a program in /bin or /usr/bin;
\* a few names, and those that start with . or $, pass without one.
NeedsProgram(toks) == LET tok == Substituted(toks[Max(Looked(toks))])
                      IN  \/ Kind(tok) = "cmd" /\ FirstWord(tok) # <<"alias">>
                          \/ Begins(tok, {"="}) /\ tok # <<"=">>
-----------------------------------------------------------------------------
(* Processes.                                                              *)

Process(at, pc, conds) == [at |-> at, pc |-> pc, conds |-> conds, child |-> 0, mb |-> 0]
Init == /\ in_cmd \in Lines /\ alias_s \in Aliases /\ status = "typed"
        /\ cmd_list = <<>> /\ exists = {} /\ procs = <<>>
        /\ data = <<>> /\ ran = {} /\ faults = 0

\* The loop of main up to the check, and what the check replaces.  Lines with more tokens
\* than the array has room for are left out.
Parse == /\ status = "typed"
         /\ LET toks == parseCmd(in_cmd)
            IN  Len(toks) < MAX_PARAMS /\ cmd_list' = kinds(replaced(toks))
         /\ status' = IF IsAliasCmd(cleanCmd(in_cmd)) THEN "set" ELSE "parsed"
         /\ UNCHANGED <<in_cmd, alias_s, exists, procs, data, ran, faults>>

Refuse == /\ status \in {"parsed", "set"} /\ ~validateCommand(parseCmd(in_cmd))
          /\ status' = "refused"
          /\ UNCHANGED <<in_cmd, alias_s, cmd_list, exists, procs, data, ran, faults>>

NotFound == /\ status \in {"parsed", "set"} /\ validateCommand(parseCmd(in_cmd))
            /\ NeedsProgram(parseCmd(in_cmd))
            /\ status' = "not_found"
            /\ UNCHANGED <<in_cmd, alias_s, cmd_list, exists, procs, data, ran, faults>>

\* set_alias and set_config, which keep their arguments.
IsBuiltIn(toks) == replaced(toks)[1] \in {<<"alias">>, <<"set">>}
BuiltIn == /\ status \in {"parsed", "set"} /\ validateCommand(parseCmd(in_cmd)) /\ IsBuiltIn(parseCmd(in_cmd))
           /\ status' = "built_in"
           /\ UNCHANGED <<in_cmd, alias_s, cmd_list, exists, procs, data, ran, faults>>

Accept == /\ status \in {"parsed", "set"} /\ validateCommand(parseCmd(in_cmd)) /\ ~IsBuiltIn(parseCmd(in_cmd))
          /\ status' = "running"
          /\ exists' \in SUBSET {i \in DOMAIN cmd_list : cmd_list[i] = "cmd"}
          /\ procs' = <<Process(1, "execute", <<>>)>>
          /\ UNCHANGED <<in_cmd, alias_s, cmd_list, data, ran, faults>>

\* "program" has been replaced by execv; "ended" was one, "returned" never was.
States == {"execute", "single", "return", "wait", "read", "program", "ended", "returned"}
Over == {"ended", "returned"}

TypeOK == /\ status \in {"typed", "set", "parsed", "refused", "not_found", "built_in", "running"}
          /\ cmd_list \in Seq(Tokens) /\ exists \subseteq DOMAIN cmd_list
          /\ \A p \in DOMAIN procs :
               /\ procs[p].pc \in States /\ procs[p].at \in DOMAIN cmd_list
               /\ procs[p].child \in 0 .. Len(procs) /\ procs[p].mb \in 0 .. Len(data)
               /\ ToSet(procs[p].conds) \subseteq DOMAIN data
          /\ data \in Seq(BOOLEAN) /\ ran \subseteq exists /\ faults \in 0 .. MAX_FAULTS

\* The token at start_idx, and what execute sees from there on.
Token(p) == cmd_list[procs[p].at]
Rest(p) == Len(cmd_list) - procs[p].at + 1
Piped(p) == Rest(p) > 2 /\ cmd_list[procs[p].at + 1] = "|"
Redirected(p) == Rest(p) > 2 /\ cmd_list[procs[p].at + 1] = ">"
Nested(p) == Rest(p) > 2 /\ ~Piped(p) /\ ~Redirected(p) /\ Token(p) = "if"

\* The scan from the if at i for its keywords: if_cnt at k, the first fi it finds at 0, and
\* the last then or else before that (0 for the -1 of the code).
Between(t, i, k) == Cardinality({n \in i + 1 .. k - 1 : cmd_list[n] = t})
\* A slip if_cnt avoids: nested ifs are not counted.
Uncounted(i, k) == 0
if_cnt(i, k) == Between("if", i, k) - Between("fi", i, k)
At0(t, i, limit) == {k \in i + 1 .. limit : cmd_list[k] = t /\ if_cnt(i, k) = 0}
fi_locn(i) == Min(At0("fi", i, Len(cmd_list)) \cup {Len(cmd_list) + 1})
then_locn(i) == Max(At0("then", i, fi_locn(i) - 1) \cup {0})
else_locn(i) == Max(At0("else", i, fi_locn(i) - 1) \cup {0})

\* pipe or fork fails: execute returns.
Fails(p) == /\ procs[p].pc = "execute" /\ (Nested(p) \/ Piped(p)) /\ faults < MAX_FAULTS
            /\ faults' = faults + 1
            /\ procs' = [procs EXCEPT ![p].pc = "return"]
            /\ UNCHANGED <<line, data, ran>>

\* a | b: the child becomes a, the process goes on with b.
\* Slips ExecutePipe avoids: the child closes the pipes it inherits; an operator is taken
\* for two tokens.
ExecutePipeClosing(p) ==
  /\ procs[p].pc = "execute" /\ Piped(p)
  /\ procs' = Append([procs EXCEPT ![p].at = @ + 2], Process(procs[p].at, "single", <<>>))
  /\ UNCHANGED <<line, data, ran, faults>>
ExecutePipeFar(p) ==
  /\ procs[p].pc = "execute" /\ Piped(p)
  /\ procs' = Append([procs EXCEPT ![p].at = @ + 3],
                     Process(procs[p].at, "single", procs[p].conds))
  /\ UNCHANGED <<line, data, ran, faults>>
ExecutePipe(p) ==
  /\ procs[p].pc = "execute" /\ Piped(p)
  /\ procs' = Append([procs EXCEPT ![p].at = @ + 2],
                     Process(procs[p].at, "single", procs[p].conds))
  /\ UNCHANGED <<line, data, ran, faults>>

\* a > f: the file is created or emptied before a is looked at.  What follows f is ignored.
ExecuteRedirect(p) ==
  /\ procs[p].pc = "execute" /\ Redirected(p)
  /\ procs' = [procs EXCEPT ![p].pc = IF procs[p].at + 2 \in exists THEN "single" ELSE "return"]
  /\ UNCHANGED <<line, data, ran, faults>>

\* if: the child executes the condition, the parent closes its write end and waits.
\* A slip ExecuteIf avoids: the parent keeps the write end.
ExecuteIfOpen(p) ==
  /\ procs[p].pc = "execute" /\ Nested(p)
  /\ data' = Append(data, FALSE)
  /\ procs' = Append([procs EXCEPT ![p].pc = "wait", ![p].child = Len(procs) + 1, ![p].mb = Len(data'),
                                  ![p].conds = Append(@, Len(data'))],
                     Process(procs[p].at + 1, "execute", Append(procs[p].conds, Len(data'))))
  /\ UNCHANGED <<line, ran, faults>>
ExecuteIf(p) ==
  /\ procs[p].pc = "execute" /\ Nested(p)
  /\ data' = Append(data, FALSE)
  /\ procs' = Append([procs EXCEPT ![p].pc = "wait", ![p].child = Len(procs) + 1, ![p].mb = Len(data')],
                     Process(procs[p].at + 1, "execute", Append(procs[p].conds, Len(data'))))
  /\ UNCHANGED <<line, ran, faults>>

\* execute_single: a program that exists replaces the process.  cd returns, chdir done or
\* (in a line of more than two tokens) not; exit ends the process without a word, and so
\* does a set without its arguments.
ExecuteSingle(p) ==
  /\ \/ procs[p].pc = "single"
     \/ procs[p].pc = "execute" /\ ~Piped(p) /\ ~Redirected(p) /\ ~Nested(p)
  /\ IF procs[p].at \in exists
     THEN ran' = ran \cup {procs[p].at} /\ procs' = [procs EXCEPT ![p].pc = "program"]
     ELSE /\ \E pc \in CASE Token(p) = "exit" -> {"returned"}
                         [] Token(p) = "set" -> {"return", "returned"}
                         [] OTHER -> {"return"} : procs' = [procs EXCEPT ![p].pc = pc]
          /\ UNCHANGED ran
  /\ UNCHANGED <<line, data, faults>>

\* The read end of a pipe is open until its parent has read: writing later kills.
HasReader(m) == \E q \in DOMAIN procs : procs[q].mb = m /\ procs[q].pc \in {"wait", "read"}

\* One call of execute returns: to where a condition was executed, or to main.
Return(p) ==
  /\ procs[p].pc = "return"
  /\ IF procs[p].conds = <<>> \/ ~HasReader(Last(procs[p].conds))
     THEN procs' = [procs EXCEPT ![p].pc = "returned"] /\ UNCHANGED data
     ELSE /\ data' = [data EXCEPT ![Last(procs[p].conds)] = TRUE]
          /\ procs' = [procs EXCEPT ![p].conds = Front(@)]
  /\ UNCHANGED <<line, ran, faults>>

\* External: a program ends.
Ends(p) == /\ procs[p].pc = "program"
           /\ procs' = [procs EXCEPT ![p].pc = "ended"]
           /\ UNCHANGED <<line, data, ran, faults>>

Wait(p) == /\ procs[p].pc = "wait" /\ procs[procs[p].child].pc \in Over
           /\ procs' = [procs EXCEPT ![p].pc = "read"]
           /\ UNCHANGED <<line, data, ran, faults>>

\* read returns with what was written, or when no process has the write end open.
Open(m) == \E q \in DOMAIN procs : procs[q].pc \notin Over /\ m \in ToSet(procs[q].conds)

Branch(p) == IF data[procs[p].mb] THEN else_locn(procs[p].at) ELSE then_locn(procs[p].at)

\* With nothing behind the keyword execute_single is given NULL, and the process dies.
Read(p) == /\ procs[p].pc = "read"
           /\ data[procs[p].mb] \/ ~Open(procs[p].mb)
           /\ procs' = IF Branch(p) < Len(cmd_list) THEN [procs EXCEPT ![p].pc = "execute", ![p].at = Branch(p) + 1]
                                                    ELSE [procs EXCEPT ![p].pc = "returned"]
           /\ UNCHANGED <<line, data, ran, faults>>

Step(p) == \/ ExecutePipe(p) \/ ExecuteRedirect(p) \/ ExecuteIf(p) \/ ExecuteSingle(p) \/ Return(p)
           \/ Ends(p) \/ Wait(p) \/ Read(p)
Next == \/ Parse \/ Refuse \/ NotFound \/ BuiltIn \/ Accept
        \/ \E p \in DOMAIN procs : Step(p) \/ Fails(p)

\* The kernel runs every process; the programs of a line end by themselves.
Spec == Init /\ [][Next]_vars /\ WF_vars(\E p \in DOMAIN procs : Step(p))
-----------------------------------------------------------------------------
(* What a line means, whatever way it is executed.                         *)

\* The place after a token t at i, and after the command at i; 0 if there is none.
Then(i, t) == IF At(cmd_list, i) = t THEN i + 1 ELSE 0
Simple(i) == At(cmd_list, i) \in {"cmd", "cd", "exit"}
After[i \in 0 .. Len(cmd_list) + 1] ==
  CASE At(cmd_list, i) = "if" ->
         Then(After[Then(After[Then(After[i + 1], "then")], "else")], "fi")
    [] Simple(i) /\ At(cmd_list, i + 1) = "|" -> IF Simple(i + 2) THEN After[i + 2] ELSE 0
    [] Simple(i) /\ At(cmd_list, i + 1) = ">" -> IF Simple(i + 2) THEN i + 3 ELSE 0
    [] Simple(i) /\ At(cmd_list, i + 1) \notin {"|", ">"} -> i + 1
    [] OTHER -> 0

\* One command, perhaps an &; the parser may leave an empty token behind a fi.
Sentence == /\ cmd_list # <<>> /\ After[1] # 0
            /\ \A i \in After[1] .. Len(cmd_list) :
                 \/ cmd_list[i] = "" /\ cmd_list[i - 1] = "fi"
                 \/ cmd_list[i] = "&" /\ i = Len(cmd_list)

\* The programs the command at i has to run, and its success.
Meaning[i \in 1 .. Len(cmd_list)] ==
  CASE cmd_list[i] = "if" ->
         LET cond == Meaning[i + 1]
             then == After[i + 1]
             arm == Meaning[IF cond.ok THEN then + 1 ELSE After[then + 1] + 1]
         IN  [ran |-> cond.ran \cup arm.ran, ok |-> arm.ok]
    [] cmd_list[i] # "if" /\ At(cmd_list, i + 1) = "|" ->
         [ran |-> (exists \cap {i}) \cup Meaning[i + 2].ran, ok |-> Meaning[i + 2].ok]
    [] cmd_list[i] # "if" /\ At(cmd_list, i + 1) = ">" ->
         IF {i, i + 2} \subseteq exists THEN [ran |-> {i}, ok |-> TRUE] ELSE [ran |-> {}, ok |-> FALSE]
    [] OTHER -> [ran |-> exists \cap {i}, ok |-> i \in exists]

\* The first command of a pipeline is a program that exists, and so is the condition of
\* an if that is part of a condition: the cases ConditionFailed is about.
NoStrayReturns ==
  \A i \in DOMAIN cmd_list :
    /\ cmd_list[i] = "|" => i - 1 \in exists
    /\ cmd_list[i] = "if" => \A k \in i + 1 .. After[i + 1] - 1 : cmd_list[k] = "if" => Meaning[k + 1].ok

Finished == \A p \in DOMAIN procs : procs[p].pc \in Over
-----------------------------------------------------------------------------
(* Properties.                                                             *)

Typed == cleanCmd(in_cmd)

\* No alias stands for, or replaces, a token of one of the kinds S behind the first.
NoneAliased(S) ==
  \A k \in 2 .. Len(cmd_list) :
    LET kind == Kind(parseCmd(in_cmd)[k]) IN {kind, cmd_list[k]} \cap S # {} => kind = cmd_list[k]

(* A line is split as it is written (parseCmd).  Where keywords and        *)
(* operators are where they may be it is split at them and nowhere else,   *)
(* whatever its blanks and quotes; and whatever is typed, no word and no   *)
(* operator is lost or moved, as long as quotes are closed and no keyword  *)
(* is quoted (substr drops the rest of a token when one is found in it).   *)
ParsesAsWritten ==
  status = "parsed" =>
    /\ Plain(Typed) => NonEmpty(parseCmd(in_cmd)) = AsWritten(Typed)
    /\ Balanced(Typed) => FlattenSeq([k \in DOMAIN parseCmd(in_cmd) |-> NoBlank(parseCmd(in_cmd)[k])])
                            = NoBlank(in_cmd)

(* An alias means its text: replacing it in a token after the line was     *)
(* split (validateCommand) is replacing it in the line.  Of lines that     *)
(* leave tokens behind them alone (cd, set, alias, =), and of values that  *)
(* mean something to the parser, this is not claimed.                      *)
Special == Operators \cup Keywords \cup {Quote, "alias", "set", "cd", "="}
IsWords(v) == /\ v # <<>> /\ v[1] # Blank /\ v[Len(v)] # Blank
              /\ \A i \in 1 .. Len(v) : v[i] \notin Special
              /\ \A i \in 1 .. Len(v) - 1 : v[i] # Blank \/ v[i + 1] # Blank
AliasesAreWords == \A name \in DOMAIN alias_s : name \notin Special \cup {Blank} /\ IsWords(alias_s[name])
Stands(t, i) == /\ t[i] \in DOMAIN alias_s /\ i \notin Quoted(t)
                /\ At(t, i - 1) \in Operators \cup {Blank} /\ At(t, i + 1) \in Operators \cup {Blank}
                /\ Previous(t, i) \in {"&", "|", Blank} \cup Keywords
AliasIsItsText ==
  status = "parsed" /\ Plain(Typed) /\ {"cd", "set", "alias", "="} \cap ToSet(Typed) = {} /\ AliasesAreWords =>
    LET spelled == FlattenSeq([i \in DOMAIN Typed |-> IF Stands(Typed, i) THEN alias_s[Typed[i]] ELSE <<Typed[i]>>])
    IN  replaced(parseCmd(in_cmd)) = parseCmd(spelled)

(* The aliases survive the shell: the line write_alias saves for one is    *)
(* read back as the name and the value that were typed, quotes or not, if  *)
(* the value has no equals sign and does not end in a blank.               *)
AliasReadBack ==
  status = "set" /\ Typed[1] = "alias" =>
    \A e \in DOMAIN Typed :
      /\ {i \in DOMAIN Typed : Typed[i] = "="} = {e} /\ 3 < e /\ e < Len(Typed)
      /\ Quotes(Typed) = {} \/ (Quotes(Typed) = {e + 1, Len(Typed)} /\ e + 2 < Len(Typed))
      /\ Last(Typed) # Quote \/ Typed[Len(Typed) - 1] # Blank
      => LET toks == parseCmd(in_cmd)
         IN  Len(toks) = 3 /\ parseCmd(Saved(toks[2], toks[3])) = toks

(* A program gets the words of its token, those in quotes as one: execv is *)
(* given what was typed, also where a quote is left open.                  *)
ArgumentsAsTyped ==
  status = "parsed" =>
    \A k \in DOMAIN cmd_list : cmd_list[k] = "cmd" =>
      split(replaced(parseCmd(in_cmd))[k]) = Arguments(replaced(parseCmd(in_cmd))[k])

(* The check of the line refuses no line that means something: nesting,    *)
(* pipelines and redirections in any place of an if are let through.  It   *)
(* sees keywords and operators as they were typed, so that they must be    *)
(* no aliases' doing; a last program that is nowhere is NotFound.          *)
SentencesAccepted == status = "refused" /\ NoneAliased(Keywords \cup Operators \cup {"mixed"}) => ~Sentence

(* When all processes are over, the programs that ran are those the nested *)
(* ifs and pipelines call for: each process found the then and the else of *)
(* its own if and took the branch its condition called for.                *)
RunsTheBranches ==
  Finished /\ status = "running" /\ faults = 0 /\ Sentence /\ ToSet(cmd_list) \cap {"cd", "exit"} = {} =>
    (NoStrayReturns => ran = Meaning[1].ran)

(* The check of valid.c is enough for execute: no if of an accepted line   *)
(* lacks a then or an else, for which execute would start again from the   *)
(* first token (then_locn and else_locn are -1).  Of the ifs only those of *)
(* a line that starts with one are checked, as they were typed.            *)
IfsChecked == IF At(cmd_list, 1) = "if" THEN NoneAliased(Keywords)
              ELSE \A k \in DOMAIN cmd_list : cmd_list[k] = "if" => At(cmd_list, k - 1) # "|"
BranchesExist ==
  \A p \in DOMAIN procs : procs[p].pc \in {"wait", "read"} =>
    (then_locn(procs[p].at) # 0 /\ else_locn(procs[p].at) # 0) \/ ~IfsChecked

(* While the then branch of an if is executed no program of its condition  *)
(* runs any more: neither the last of a pipeline, which was waited for,    *)
(* nor its writers, nor the processes of an if in the condition, which     *)
(* nobody waits for.                                                       *)
ThenAfterCondition ==
  \A p, q \in DOMAIN procs : \A i \in 1 .. procs[p].at :
    cmd_list[i] = "if" /\ procs[q].pc \notin Over =>
      ~(procs[p].at \in then_locn(i) + 1 .. else_locn(i) - 1 /\ procs[q].at \in i + 1 .. then_locn(i) - 1) \/ ~Sentence

(* A line comes to its end when its programs do: nobody waits for a child  *)
(* that waits for it, and no pipe is kept open by its reader.              *)
LineEnds == status = "running" ~> Finished

(* "if child process runs successfully it wont return anything else it     *)
(* returns erorr value" (exe.c:216): something to read means that the      *)
(* child that was waited for did not become a program.                     *)
ConditionFailed ==
  [][\A p \in DOMAIN procs :
       procs[p].pc = "read" /\ procs'[p].pc = "execute" /\ data[procs[p].mb]
         => procs[procs[p].child].pc = "returned"]_vars
=============================================================================
