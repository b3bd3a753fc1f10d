--------------------------- MODULE ShellExecProofs ---------------------------
(***************************************************************************)
(* What holds of every line mrpsh is given (module ShellExec).             *)
(***************************************************************************)
EXTENDS ShellExec, ParserProofs

-----------------------------------------------------------------------------
(* The kinds of the tokens.                                                *)

LEMMA FirstWordPart ==
  ASSUME NEW t \in Texts, t # <<>>
  PROVE  FirstWord(t) \in Texts /\ (FirstWord(t) # <<>> => FirstWord(t)[1] = t[1])
<1> DEFINE blanks == {i \in DOMAIN t : t[i] = Blank}
           m == Min(blanks) - 1
<1>1. DOMAIN t = 1 .. Len(t) /\ Len(t) \in Nat
  BY DEF Texts
<1>2. CASE Blank \notin ToSet(t)
  BY <1>2 DEF FirstWord
<1>3. CASE Blank \in ToSet(t)
  <2>1. FirstWord(t) = SubSeq(t, 1, m)
    BY <1>3 DEF FirstWord
  <2>2. blanks \subseteq 1 .. Len(t) /\ blanks \subseteq Nat /\ blanks # {}
    BY <1>1, <1>3 DEF ToSet
  <2>3. m \in 0 .. Len(t)
    <3> HIDE DEF blanks
    <3>1. Min(blanks) \in 1 .. Len(t)
      BY <2>2, MinIsLeast
    <3> QED BY <1>1, <3>1
  <2> HIDE DEF m
  <2>4. SubSeq(t, 1, m) \in Texts /\ (m >= 1 => SubSeq(t, 1, m)[1] = t[1]) /\ (m < 1 => SubSeq(t, 1, m) = <<>>)
    BY <1>1, <2>3 DEF Texts
  <2> QED
    BY <2>1, <2>3, <2>4
<1> QED
  BY <1>2, <1>3

LEMMA KindTyped ==
  ASSUME NEW t \in Texts
  PROVE  Kind(t) \in Tokens
<1>1. Len(t) \in Nat
  BY DEF Texts
<1>2. CASE t = <<>>
  <2>1. Len(t) = 0 /\ ToSet(t) = {}
    BY <1>2 DEF ToSet
  <2>2. FirstWord(t) \notin {<<"cd">>, <<"exit">>, <<"set">>}
    <3>1. FirstWord(t) = t
      BY <2>1 DEF FirstWord
    <3> QED
      BY <1>2, <3>1
  <2>3. Kind(t) = ""
    <3>1. ~ (Len(t) = 1) /\ ~ (Len(t) > 1)
      BY <2>1
    <3>2. t # <<"=">>
      BY <1>2
    <3> QED
      BY <1>2, <2>2, <3>1, <3>2, Zenon DEF Kind
  <2> QED
    BY <2>3 DEF Tokens
<1>3. CASE t # <<>>
  <2>1. FirstWord(t) \in {<<"cd">>, <<"exit">>, <<"set">>} => t[1] \in {"cd", "exit", "set"}
    BY <1>3, FirstWordPart
  <2>2. Len(t) = 1 /\ t[1] \in Keywords \cup Operators => t[1] \in Tokens
    BY DEF Tokens
  <2>3. {"mixed", "cmd", "&", "cd", "exit", "set"} \subseteq Tokens
    BY DEF Tokens, Operators
  <2>4. Kind(t) \in {t[1], "&", "mixed", "cmd"}
    BY <1>3, Zenon DEF Kind
  <2>5. ASSUME Kind(t) \notin {"&", "mixed", "cmd"}
        PROVE  (Len(t) = 1 /\ t[1] \in Keywords \cup Operators) \/ FirstWord(t) \in {<<"cd">>, <<"exit">>, <<"set">>}
    BY <1>3, <2>5, Zenon DEF Kind
  <2> QED
    BY <2>1, <2>2, <2>3, <2>4, <2>5
<1> QED
  BY <1>2, <1>3

-----------------------------------------------------------------------------
(* The inductive invariant.  Its last two conjuncts say who waits for whom *)
(* and who has which pipe open: always a younger process.                  *)

Processes == [at : Nat, pc : States, conds : Seq(Nat), child : Nat, mb : Nat]

LineInv == /\ in_cmd \in Lines /\ alias_s \in Aliases
           /\ status \in {"typed", "set", "parsed", "refused", "not_found", "built_in", "running"}
           /\ cmd_list \in Seq(Tokens) /\ exists \subseteq DOMAIN cmd_list
           /\ status # "running" => procs = <<>> /\ data = <<>> /\ exists = {}
           /\ status # "typed" => cmd_list = kinds(replaced(parseCmd(in_cmd)))
           /\ status = "running" => validateCommand(parseCmd(in_cmd))

ProcsInv == /\ procs \in Seq(Processes) /\ data \in Seq(BOOLEAN) /\ ran \subseteq exists
            /\ faults \in 0 .. MAX_FAULTS
            /\ \A p \in DOMAIN procs :
                 /\ procs[p].child \in 0 .. Len(procs) /\ procs[p].mb \in 0 .. Len(data)
                 /\ \A k \in DOMAIN procs[p].conds : procs[p].conds[k] \in DOMAIN data

WaitInv == \A p \in DOMAIN procs :
             procs[p].pc \in {"wait", "read"} =>
               procs[p].child > p /\ procs[p].mb \in DOMAIN data /\ Token(p) = "if"

PipeInv == \A p, q \in DOMAIN procs : \A k \in DOMAIN procs[q].conds : procs[q].conds[k] = procs[p].mb => q > p

ExecInv == LineInv /\ ProcsInv /\ WaitInv /\ PipeInv

\* The place i is before the fi that ends the if the line begins with.
Reached(l, i) == \A k \in 1 .. i : checked(l)[k].stk # <<>>

\* A place execute may come to.
InPlace(a) == /\ a \in DOMAIN cmd_list
              /\ cmd_list[a] = "if" => cmd_list[1] = "if" /\ Reached(cmd_list, a)

MayBeAt(a) == a \in DOMAIN cmd_list /\ (IfsChecked => InPlace(a))
PlacesInv == \A p \in DOMAIN procs : MayBeAt(procs[p].at)

\* Somebody can go on.
CanStep(p) == \/ procs[p].pc \in {"execute", "single", "return", "program"}
              \/ procs[p].pc = "wait" /\ procs[procs[p].child].pc \in Over
              \/ procs[p].pc = "read" /\ (data[procs[p].mb] \/ ~ Open(procs[p].mb))
NobodyIsStuck == ~ Finished => \E p \in DOMAIN procs : CanStep(p)

-----------------------------------------------------------------------------
(* Steps keep the invariant.                                               *)

LEMMA InvFacts ==
  ASSUME ExecInv
  PROVE  /\ DOMAIN procs = 1 .. Len(procs) /\ Len(procs) \in Nat
         /\ \A q \in DOMAIN procs : procs[q] \in Processes
         /\ DOMAIN data = 1 .. Len(data) /\ Len(data) \in Nat
         /\ DOMAIN cmd_list = 1 .. Len(cmd_list) /\ Len(cmd_list) \in Nat
         /\ MAX_FAULTS \in Nat
BY FaultsAssumption DEF ExecInv, ProcsInv, LineInv

LEMMA Running ==
  ASSUME ExecInv, NEW p \in DOMAIN procs
  PROVE  status = "running"
BY DEF ExecInv, ProcsInv, LineInv

\* What is made of a line depends on its text and on the aliases.
LEMMA SameLine ==
  ASSUME UNCHANGED <<in_cmd, alias_s>>
  PROVE  /\ kinds(replaced(parseCmd(in_cmd)))' = kinds(replaced(parseCmd(in_cmd)))
         /\ validateCommand(parseCmd(in_cmd))' <=> validateCommand(parseCmd(in_cmd))
<1>1. kinds(replaced(parseCmd(in_cmd)))' = kinds(replaced(parseCmd(in_cmd)))
  BY DEF kinds, replaced, Looked, passed, Passes, Stops, Substituted
<1>2. validateCommand(parseCmd(in_cmd))' <=> validateCommand(parseCmd(in_cmd))
  BY DEF validateCommand, Misplaced, replaced, Looked, passed, Passes, Stops, Substituted
<1> QED
  BY <1>1, <1>2

LEMMA SameLineInv ==
  ASSUME ExecInv, UNCHANGED <<in_cmd, alias_s, cmd_list>>, status # "typed",
         status' \in {"set", "parsed", "refused", "not_found", "built_in", "running"},
         exists' \subseteq DOMAIN cmd_list,
         status' # "running" => procs' = <<>> /\ data' = <<>> /\ exists' = {},
         status' = "running" => validateCommand(parseCmd(in_cmd))
  PROVE  LineInv'
<1>1. cmd_list = kinds(replaced(parseCmd(in_cmd))) /\ in_cmd \in Lines /\ alias_s \in Aliases /\ cmd_list \in Seq(Tokens)
  BY DEF ExecInv, LineInv
<1>2. status' = "running" => validateCommand(parseCmd(in_cmd))'
  BY SameLine
<1>3. cmd_list' = kinds(replaced(parseCmd(in_cmd)))'
  BY <1>1, SameLine
<1> QED
  BY <1>1, <1>2, <1>3 DEF LineInv

LEMMA LineKept ==
  ASSUME ExecInv, NEW p \in DOMAIN procs, UNCHANGED line
  PROVE  LineInv' /\ IfsChecked' = IfsChecked
<1>1. status = "running"
  BY Running
<1>2. UNCHANGED <<in_cmd, alias_s, status, cmd_list, exists>>
  BY DEF line
<1>3. LineInv'
  <2>1. exists \subseteq DOMAIN cmd_list /\ validateCommand(parseCmd(in_cmd))
    BY <1>1 DEF ExecInv, LineInv
  <2> QED
    BY <1>1, <1>2, <2>1, SameLineInv
<1>4. IfsChecked' = IfsChecked
  BY <1>2 DEF IfsChecked, NoneAliased, At
<1> QED
  BY <1>3, <1>4

(* A process goes on, without a new pipe or child.                         *)
OneGoesOn(p, r) ==
  /\ procs' = [procs EXCEPT ![p] = r]
  /\ r.child = procs[p].child /\ r.mb = procs[p].mb
  /\ \A k \in DOMAIN r.conds : \E j \in DOMAIN procs[p].conds : r.conds[k] = procs[p].conds[j]
  /\ r.pc \in {"wait", "read"} => procs[p].pc \in {"wait", "read"} /\ r.at = procs[p].at
  /\ data' \in Seq(BOOLEAN) /\ Len(data') = Len(data)
  /\ UNCHANGED line /\ ran' \subseteq exists /\ faults' \in 0 .. MAX_FAULTS

LEMMA GoingOnKeepsInv ==
  ASSUME ExecInv, NEW p \in DOMAIN procs, NEW r \in Processes, OneGoesOn(p, r)
  PROVE  ExecInv'
<1>1. /\ DOMAIN procs = 1 .. Len(procs) /\ Len(procs) \in Nat
      /\ \A q \in DOMAIN procs : procs[q] \in Processes
      /\ DOMAIN data = 1 .. Len(data) /\ Len(data) \in Nat
  BY InvFacts
<1>2. UNCHANGED <<cmd_list, exists>>
  BY DEF OneGoesOn, line
<1>3. LineInv'
  BY LineKept DEF OneGoesOn
<1>4. procs' \in Seq(Processes) /\ Len(procs') = Len(procs) /\ DOMAIN procs' = DOMAIN procs
  <2>1. procs \in Seq(Processes)
    BY DEF ExecInv, ProcsInv
  <2> QED
    BY <1>1, <2>1 DEF OneGoesOn
<1>5. \A q \in DOMAIN procs : procs'[q] = IF q = p THEN r ELSE procs[q]
  BY <1>1 DEF OneGoesOn
<1>6. DOMAIN data' = DOMAIN data /\ data' \in Seq(BOOLEAN) /\ Len(data') = Len(data)
  BY <1>1 DEF OneGoesOn
<1>7. ASSUME NEW q \in DOMAIN procs
      PROVE  /\ procs'[q].child = procs[q].child /\ procs'[q].mb = procs[q].mb
             /\ \A k \in DOMAIN procs'[q].conds :
                  \E j \in DOMAIN procs[q].conds : procs'[q].conds[k] = procs[q].conds[j]
             /\ procs'[q].pc \in {"wait", "read"} =>
                  procs[q].pc \in {"wait", "read"} /\ procs'[q].at = procs[q].at
  BY <1>5 DEF OneGoesOn
<1>8. ProcsInv'
  <2>1. \A q \in DOMAIN procs : /\ procs[q].child \in 0 .. Len(procs) /\ procs[q].mb \in 0 .. Len(data)
                                /\ \A k \in DOMAIN procs[q].conds : procs[q].conds[k] \in DOMAIN data
    BY DEF ExecInv, ProcsInv
  <2>2. ran' \subseteq exists' /\ faults' \in 0 .. MAX_FAULTS
    BY <1>2 DEF OneGoesOn
  <2>3. \A q \in DOMAIN procs : /\ procs'[q].child \in 0 .. Len(procs) /\ procs'[q].mb \in 0 .. Len(data)
                                /\ \A k \in DOMAIN procs'[q].conds : procs'[q].conds[k] \in DOMAIN data
    BY <1>7, <2>1
  <2> QED
    BY <1>4, <1>6, <2>2, <2>3 DEF ProcsInv
<1>9. WaitInv'
  <2>1. \A q \in DOMAIN procs : procs[q].pc \in {"wait", "read"} =>
          procs[q].child > q /\ procs[q].mb \in DOMAIN data /\ cmd_list[procs[q].at] = "if"
    BY DEF ExecInv, WaitInv, Token
  <2>2. \A q \in DOMAIN procs : procs'[q].pc \in {"wait", "read"} =>
          procs'[q].child > q /\ procs'[q].mb \in DOMAIN data /\ cmd_list[procs'[q].at] = "if"
    BY <1>7, <2>1
  <2> QED
    BY <1>2, <1>4, <1>6, <2>2 DEF WaitInv, Token
<1>10. PipeInv'
  <2>1. \A o, q \in DOMAIN procs : \A k \in DOMAIN procs[q].conds : procs[q].conds[k] = procs[o].mb => q > o
    BY DEF ExecInv, PipeInv
  <2>2. \A o, q \in DOMAIN procs : \A k \in DOMAIN procs'[q].conds : procs'[q].conds[k] = procs'[o].mb => q > o
    BY <1>7, <2>1
  <2> QED
    BY <1>4, <2>2 DEF PipeInv
<1> QED
  BY <1>3, <1>8, <1>9, <1>10 DEF ExecInv

(* Setting pc, or at, of a process.                                        *)
LEMMA SameConds ==
  ASSUME ExecInv, NEW p \in DOMAIN procs, NEW a \in Nat, NEW v \in States, UNCHANGED line,
         procs' = [procs EXCEPT ![p].pc = v, ![p].at = a] \/ (procs' = [procs EXCEPT ![p].pc = v] /\ a = procs[p].at),
         v \in {"wait", "read"} => procs[p].pc \in {"wait", "read"} /\ a = procs[p].at,
         UNCHANGED data, ran' \subseteq exists, faults' \in 0 .. MAX_FAULTS
  PROVE  ExecInv'
<1> DEFINE r == [procs[p] EXCEPT !.pc = v, !.at = a]
<1>1. procs[p] \in Processes
  BY InvFacts
<1>2. /\ r \in Processes /\ r.pc = v /\ r.at = a /\ r.child = procs[p].child /\ r.mb = procs[p].mb
      /\ r.conds = procs[p].conds
  BY <1>1 DEF Processes
<1>3. procs' = [procs EXCEPT ![p] = r]
  <2>1. CASE procs' = [procs EXCEPT ![p].pc = v, ![p].at = a]
    BY <2>1
  <2>2. CASE procs' = [procs EXCEPT ![p].pc = v] /\ a = procs[p].at
    <3>1. r = [procs[p] EXCEPT !.pc = v]
      BY <1>1, <2>2 DEF Processes
    <3> QED
      BY <2>2, <3>1
  <2> QED
    BY <2>1, <2>2
<1> HIDE DEF r
<1>4. data' \in Seq(BOOLEAN) /\ Len(data') = Len(data)
  BY DEF ExecInv, ProcsInv
<1>5. OneGoesOn(p, r)
  BY <1>2, <1>3, <1>4 DEF OneGoesOn
<1> QED
  BY <1>2, <1>5, GoingOnKeepsInv

LEMMA KeptFaults ==
  ASSUME ExecInv
  PROVE  faults \in 0 .. MAX_FAULTS /\ ran \subseteq exists
BY DEF ExecInv, ProcsInv

LEMMA FailsInv ==
  ASSUME ExecInv, NEW p \in DOMAIN procs, Fails(p)
  PROVE  ExecInv'
<1>1. /\ procs' = [procs EXCEPT ![p].pc = "return"] /\ faults' \in 0 .. MAX_FAULTS /\ UNCHANGED <<line, data, ran>>
  BY KeptFaults, InvFacts DEF Fails
<1>2. "return" \in States /\ procs[p].at \in Nat
  BY InvFacts DEF States, Processes
<1> QED
  BY <1>1, <1>2, KeptFaults, SameConds

LEMMA RedirectInv ==
  ASSUME ExecInv, NEW p \in DOMAIN procs, ExecuteRedirect(p)
  PROVE  ExecInv'
<1>1. PICK v \in {"single", "return"} : procs' = [procs EXCEPT ![p].pc = v]
  BY DEF ExecuteRedirect
<1>2. UNCHANGED <<line, data, ran, faults>>
  BY DEF ExecuteRedirect
<1>3. v \in States /\ v \notin {"wait", "read"} /\ procs[p].at \in Nat
  BY InvFacts DEF States, Processes
<1> QED
  BY <1>1, <1>2, <1>3, KeptFaults, SameConds

LEMMA SingleInv ==
  ASSUME ExecInv, NEW p \in DOMAIN procs, ExecuteSingle(p)
  PROVE  ExecInv'
<1>1. PICK v \in {"program", "returned", "return"} : procs' = [procs EXCEPT ![p].pc = v]
  BY DEF ExecuteSingle
<1>2. UNCHANGED <<line, data, faults>> /\ ran' \subseteq exists
  BY KeptFaults DEF ExecuteSingle
<1>3. v \in States /\ v \notin {"wait", "read"} /\ procs[p].at \in Nat
  BY InvFacts DEF States, Processes
<1> QED
  BY <1>1, <1>2, <1>3, KeptFaults, SameConds

LEMMA EndsInv ==
  ASSUME ExecInv, NEW p \in DOMAIN procs, Ends(p)
  PROVE  ExecInv'
<1>1. procs' = [procs EXCEPT ![p].pc = "ended"] /\ UNCHANGED <<line, data, ran, faults>>
  BY DEF Ends
<1>2. "ended" \in States /\ procs[p].at \in Nat
  BY InvFacts DEF States, Processes
<1> QED
  BY <1>1, <1>2, KeptFaults, SameConds

LEMMA WaitKeepsInv ==
  ASSUME ExecInv, NEW p \in DOMAIN procs, Wait(p)
  PROVE  ExecInv'
<1>1. procs' = [procs EXCEPT ![p].pc = "read"] /\ UNCHANGED <<line, data, ran, faults>> /\ procs[p].pc = "wait"
  BY DEF Wait
<1>2. "read" \in States /\ procs[p].at \in Nat
  BY InvFacts DEF States, Processes
<1> QED
  BY <1>1, <1>2, KeptFaults, SameConds

(* The places of the keywords of an if.                                    *)
LEMMA FiTyped ==
  ASSUME ExecInv, NEW i \in Nat
  PROVE  /\ fi_locn(i) \in Nat /\ fi_locn(i) <= Len(cmd_list) + 1
         /\ \A k \in At0("fi", i, Len(cmd_list)) : fi_locn(i) <= k
         /\ fi_locn(i) # Len(cmd_list) + 1 => fi_locn(i) \in At0("fi", i, Len(cmd_list))
<1> DEFINE T == At0("fi", i, Len(cmd_list)) \cup {Len(cmd_list) + 1}
<1>1. Len(cmd_list) \in Nat
  BY InvFacts
<1>2. T \subseteq Nat /\ T # {} /\ Len(cmd_list) + 1 \in T /\ \A k \in T : k <= Len(cmd_list) + 1
  BY <1>1 DEF At0
<1>3. fi_locn(i) = Min(T)
  BY DEF fi_locn
<1>4. At0("fi", i, Len(cmd_list)) \subseteq T /\ T \ At0("fi", i, Len(cmd_list)) \subseteq {Len(cmd_list) + 1}
  OBVIOUS
<1> HIDE DEF T
<1>5. Min(T) \in T /\ \A k \in T : Min(T) <= k
  BY <1>2, MinIsLeast
<1> QED
  BY <1>1, <1>2, <1>3, <1>4, <1>5

LEMMA ArmTyped ==
  ASSUME ExecInv, NEW i \in Nat, NEW t
  PROVE  LET S == At0(t, i, fi_locn(i) - 1)
         IN  /\ S \subseteq i + 1 .. fi_locn(i) - 1
             /\ Max(S \cup {0}) \in S \cup {0} /\ (S # {} => Max(S \cup {0}) \in S)
<1> DEFINE S == At0(t, i, fi_locn(i) - 1)
<1>1. fi_locn(i) \in Nat
  BY FiTyped
<1>2. S \subseteq i + 1 .. fi_locn(i) - 1
  BY DEF At0
<1>3. S \cup {0} \subseteq Nat /\ S \cup {0} # {} /\ \A k \in S \cup {0} : k <= fi_locn(i)
  BY <1>1, <1>2
<1> HIDE DEF S
<1>4. Max(S \cup {0}) \in S \cup {0} /\ \A k \in S \cup {0} : Max(S \cup {0}) >= k
  BY <1>1, <1>3, MaxIsGreatest
<1>5. ASSUME S # {} PROVE Max(S \cup {0}) \in S
  <2>1. PICK k \in S : TRUE
    BY <1>5
  <2>2. Max(S \cup {0}) >= k /\ k >= i + 1
    BY <1>1, <1>2, <1>4, <2>1
  <2>3. k \in Nat
    BY <1>3
  <2> QED
    BY <1>3, <1>4, <2>2, <2>3
<1> QED
  BY <1>2, <1>4, <1>5 DEF S

LEMMA BranchTyped ==
  ASSUME ExecInv, NEW p \in DOMAIN procs
  PROVE  Branch(p) \in Nat
<1>1. procs[p].at \in Nat
  BY InvFacts DEF Processes
<1>2. fi_locn(procs[p].at) \in Nat
  BY <1>1, FiTyped
<1>3. then_locn(procs[p].at) \in Nat
  BY <1>1, <1>2, ArmTyped DEF then_locn
<1>4. else_locn(procs[p].at) \in Nat
  BY <1>1, <1>2, ArmTyped DEF else_locn
<1> QED
  BY <1>3, <1>4 DEF Branch

LEMMA ReadInv ==
  ASSUME ExecInv, NEW p \in DOMAIN procs, Read(p)
  PROVE  ExecInv'
<1>1. /\ \/ procs' = [procs EXCEPT ![p].pc = "execute", ![p].at = Branch(p) + 1]
         \/ procs' = [procs EXCEPT ![p].pc = "returned"]
      /\ UNCHANGED <<line, data, ran, faults>>
  BY DEF Read
<1>2. /\ "execute" \in States /\ "returned" \in States /\ "execute" \notin {"wait", "read"}
      /\ Branch(p) + 1 \in Nat /\ procs[p].at \in Nat
  BY BranchTyped, InvFacts DEF States, Processes
<1>3. CASE procs' = [procs EXCEPT ![p].pc = "execute", ![p].at = Branch(p) + 1]
  <2>1. UNCHANGED <<line, data, ran, faults>>
    BY <1>1
  <2> QED
    BY <1>2, <1>3, <2>1, KeptFaults, SameConds
<1>4. CASE procs' = [procs EXCEPT ![p].pc = "returned"]
  <2>1. UNCHANGED <<line, data, ran, faults>> /\ "returned" \notin {"wait", "read"}
    BY <1>1
  <2> QED
    BY <1>2, <1>4, <2>1, KeptFaults, SameConds
<1> QED
  BY <1>1, <1>3, <1>4

LEMMA ReturnInv ==
  ASSUME ExecInv, NEW p \in DOMAIN procs, Return(p)
  PROVE  ExecInv'
<1>1. UNCHANGED <<line, ran, faults>>
  BY DEF Return
<1>2. procs[p] \in Processes /\ procs[p].conds \in Seq(Nat) /\ procs[p].at \in Nat
  BY InvFacts DEF Processes
<1>3. CASE procs' = [procs EXCEPT ![p].pc = "returned"] /\ UNCHANGED data
  <2>1. "returned" \in States
    BY DEF States
  <2> QED
    BY <1>1, <1>2, <1>3, <2>1, KeptFaults, SameConds
<1>4. CASE /\ procs[p].conds # <<>> /\ procs[p].pc = "return"
           /\ data' = [data EXCEPT ![Last(procs[p].conds)] = TRUE]
           /\ procs' = [procs EXCEPT ![p].conds = Front(@)]
  <2> DEFINE c == procs[p].conds
             r == [procs[p] EXCEPT !.conds = Front(c)]
  <2>1. Front(c) \in Seq(Nat) /\ \A k \in DOMAIN Front(c) : k \in DOMAIN c /\ Front(c)[k] = c[k]
    <3>1. Len(c) \in Nat /\ Len(c) - 1 \in 0 .. Len(c)
      BY <1>2, <1>4
    <3>2. SubSeq(c, 1, Len(c) - 1) \in Seq(Nat)
      BY <1>2, <3>1, PartTyped
    <3>3. \A k \in DOMAIN SubSeq(c, 1, Len(c) - 1) : k \in DOMAIN c /\ SubSeq(c, 1, Len(c) - 1)[k] = c[k]
      BY <1>2, <3>1
    <3> QED
      BY <3>2, <3>3 DEF Front
  <2>2. /\ r \in Processes /\ r.child = procs[p].child /\ r.mb = procs[p].mb /\ r.pc = procs[p].pc
        /\ r.at = procs[p].at /\ r.conds = Front(c)
    BY <1>2, <2>1 DEF Processes
  <2>3. procs' = [procs EXCEPT ![p] = r]
    BY <1>4
  <2>4. \A k \in DOMAIN r.conds : \E j \in DOMAIN procs[p].conds : r.conds[k] = procs[p].conds[j]
    BY <2>1, <2>2
  <2>5. data' \in Seq(BOOLEAN) /\ Len(data') = Len(data)
    <3>1. data \in Seq(BOOLEAN) /\ DOMAIN data = 1 .. Len(data) /\ Len(data) \in Nat
      BY DEF ExecInv, ProcsInv
    <3>2. PICK x : data' = [data EXCEPT ![x] = TRUE]
      BY <1>4
    <3>3. DOMAIN data' = 1 .. Len(data)
      BY <3>1, <3>2
    <3>5. ASSUME NEW i \in 1 .. Len(data) PROVE data'[i] \in BOOLEAN
      <4>1. data[i] \in BOOLEAN
        BY <3>1
      <4>2. CASE i = x
        <5>1. data'[i] = TRUE
          BY <3>1, <3>2, <4>2
        <5> QED BY <5>1
      <4>3. CASE i # x
        <5>1. data'[i] = data[i]
          BY <3>1, <3>2, <4>3
        <5> QED BY <4>1, <5>1
      <4> QED BY <4>2, <4>3
    <3>4. data' = [i \in 1 .. Len(data) |-> data'[i]]
      BY <3>1, <3>2, <3>3
    <3> HIDE DEF c, r
    <3>6. [i \in 1 .. Len(data) |-> data'[i]] \in Seq(BOOLEAN)
      BY <3>1, <3>5
    <3> QED
      BY <3>1, <3>3, <3>4, <3>6
  <2> HIDE DEF r, c
  <2>6. OneGoesOn(p, r)
    BY <1>1, <2>2, <2>3, <2>4, <2>5, KeptFaults DEF OneGoesOn
  <2> QED
    BY <2>2, <2>6, GoingOnKeepsInv
<1>5. procs[p].pc = "return"
  BY DEF Return
<1> QED
  BY <1>3, <1>4, <1>5 DEF Return

(* A process goes on and makes another one, which inherits its pipes.      *)
Forks(p, r, s) ==
  /\ procs' = Append([procs EXCEPT ![p] = r], s)
  /\ s.child = 0 /\ s.mb = 0 /\ s.pc \notin {"wait", "read"}
  /\ data' \in Seq(BOOLEAN) /\ Len(data') >= Len(data)
  /\ r.conds = procs[p].conds
  /\ \/ r.child = procs[p].child /\ r.mb = procs[p].mb /\ r.pc \notin {"wait", "read"}
     \/ r.child = Len(procs) + 1 /\ r.mb = Len(data) + 1 /\ cmd_list[r.at] = "if" /\ Len(data') = Len(data) + 1
  /\ \A k \in DOMAIN s.conds : \/ \E j \in DOMAIN procs[p].conds : s.conds[k] = procs[p].conds[j]
                               \/ s.conds[k] = Len(data) + 1 /\ Len(data') = Len(data) + 1
  /\ UNCHANGED <<line, ran, faults>>

LEMMA ForkingKeepsInv ==
  ASSUME ExecInv, NEW p \in DOMAIN procs, NEW r \in Processes, NEW s \in Processes, Forks(p, r, s)
  PROVE  ExecInv'
<1> DEFINE n == Len(procs)
           m == Len(data)
<1>1. /\ DOMAIN procs = 1 .. n /\ n \in Nat
      /\ \A q \in DOMAIN procs : procs[q] \in Processes
      /\ DOMAIN data = 1 .. m /\ m \in Nat
  BY InvFacts
<1>2. UNCHANGED <<cmd_list, exists, ran, faults>>
  BY DEF Forks, line
<1>3. LineInv'
  BY LineKept DEF Forks
<1>4. procs' \in Seq(Processes) /\ Len(procs') = n + 1 /\ DOMAIN procs' = 1 .. n + 1
  <2>1. procs \in Seq(Processes)
    BY DEF ExecInv, ProcsInv
  <2> DEFINE q == [procs EXCEPT ![p] = r]
  <2>2. q \in Seq(Processes) /\ Len(q) = n
    BY <1>1, <2>1
  <2> HIDE DEF q, n
  <2>3. Append(q, s) \in Seq(Processes) /\ Len(Append(q, s)) = n + 1
    BY <2>2
  <2>4. procs' = Append(q, s)
    BY DEF Forks, q
  <2> QED
    BY <1>1, <2>3, <2>4
<1>5. /\ \A q \in 1 .. n : procs'[q] = IF q = p THEN r ELSE procs[q]
      /\ procs'[n + 1] = s
  <2> DEFINE t == [procs EXCEPT ![p] = r]
  <2>1. t \in Seq(Processes) /\ Len(t) = n /\ \A q \in 1 .. n : t[q] = IF q = p THEN r ELSE procs[q]
    <3>1. procs \in Seq(Processes)
      BY DEF ExecInv, ProcsInv
    <3> QED BY <1>1, <3>1
  <2>2. procs' = Append(t, s)
    BY DEF Forks
  <2> HIDE DEF t, n
  <2> QED
    BY <1>1, <2>1, <2>2
<1>6. data' \in Seq(BOOLEAN) /\ Len(data') >= m /\ DOMAIN data' = 1 .. Len(data') /\ Len(data') \in Nat
  BY <1>1 DEF Forks
<1>7. \A q \in 1 .. n : /\ procs[q].child \in 0 .. n /\ procs[q].mb \in 0 .. m
                        /\ \A k \in DOMAIN procs[q].conds : procs[q].conds[k] \in 1 .. m
  BY <1>1 DEF ExecInv, ProcsInv
<1>8. ASSUME NEW q \in 1 .. n
      PROVE  /\ procs'[q].conds = procs[q].conds
             /\ \/ /\ procs'[q].child = procs[q].child /\ procs'[q].mb = procs[q].mb
                   /\ procs'[q].pc \in {"wait", "read"} => q # p
                \/ /\ procs'[q].child = n + 1 /\ procs'[q].mb = m + 1 /\ Len(data') = m + 1
                   /\ cmd_list[procs'[q].at] = "if" /\ q = p
             /\ q # p => procs'[q] = procs[q]
  BY <1>5 DEF Forks
<1>9. ASSUME NEW k \in DOMAIN s.conds
      PROVE  \/ \E j \in DOMAIN procs[p].conds : s.conds[k] = procs[p].conds[j]
             \/ s.conds[k] = m + 1 /\ Len(data') = m + 1
  BY DEF Forks
<1>10. s.child = 0 /\ s.mb = 0 /\ s.pc \notin {"wait", "read"}
  BY DEF Forks
<1> HIDE DEF n, m
<1>11. ProcsInv'
  <2>1. ran' \subseteq exists' /\ faults' \in 0 .. MAX_FAULTS
    BY <1>2, KeptFaults
  <2>2. ASSUME NEW q \in 1 .. n + 1
        PROVE  /\ procs'[q].child \in 0 .. n + 1 /\ procs'[q].mb \in 0 .. Len(data')
               /\ \A k \in DOMAIN procs'[q].conds : procs'[q].conds[k] \in 1 .. Len(data')
    <3> DEFINE d == Len(data')
    <3>01. d \in Nat /\ d >= m
      BY <1>6
    <3> HIDE DEF d
    <3>02. 1 .. m \subseteq 1 .. d /\ 0 .. m \subseteq 0 .. d /\ 0 .. n \subseteq 0 .. n + 1 /\ n + 1 \in 0 .. n + 1
      BY <1>1, <3>01
    <3>03. d = m + 1 => m + 1 \in 0 .. d /\ m + 1 \in 1 .. d
      BY <1>1, <3>01
    <3>0. 1 .. m \subseteq 1 .. Len(data') /\ 0 .. m \subseteq 0 .. Len(data') /\ 0 .. n \subseteq 0 .. n + 1
          /\ (Len(data') = m + 1 => m + 1 \in 0 .. Len(data') /\ m + 1 \in 1 .. Len(data')) /\ n + 1 \in 0 .. n + 1
      BY <3>02, <3>03 DEF d
    <3>1. CASE q \in 1 .. n
      <4>1. \A k \in DOMAIN procs[q].conds : procs[q].conds[k] \in 1 .. Len(data')
        BY <1>7, <3>0, <3>1
      <4>2. procs[q].child \in 0 .. n + 1 /\ procs[q].mb \in 0 .. Len(data')
        BY <1>7, <3>0, <3>1
      <4> QED
        BY <1>8, <3>0, <3>1, <4>1, <4>2
    <3>2. CASE q = n + 1
      <4>1. p \in 1 .. n
        BY <1>1
      <4>2. ASSUME NEW k \in DOMAIN s.conds PROVE s.conds[k] \in 1 .. Len(data')
        <5>1. CASE \E j \in DOMAIN procs[p].conds : s.conds[k] = procs[p].conds[j]
          BY <1>7, <3>0, <4>1, <5>1
        <5>2. CASE s.conds[k] = m + 1 /\ Len(data') = m + 1
          BY <3>0, <5>2
        <5> QED
          BY <1>9, <5>1, <5>2
      <4> QED
        BY <1>1, <1>5, <1>6, <1>10, <3>2, <4>2
    <3> QED
      BY <1>1, <3>1, <3>2
  <2> QED
    BY <1>4, <1>6, <2>1, <2>2 DEF ProcsInv
<1>12. WaitInv'
  <2>1. \A q \in 1 .. n : procs[q].pc \in {"wait", "read"} =>
          procs[q].child > q /\ procs[q].mb \in 1 .. m /\ cmd_list[procs[q].at] = "if"
    BY <1>1 DEF ExecInv, WaitInv, Token
  <2>2. ASSUME NEW q \in 1 .. n + 1, procs'[q].pc \in {"wait", "read"}
        PROVE  procs'[q].child > q /\ procs'[q].mb \in 1 .. Len(data') /\ cmd_list[procs'[q].at] = "if"
    <3>1. q \in 1 .. n
      BY <1>1, <1>5, <1>10, <2>2
    <3>2. CASE q # p
      <4>1. procs'[q] = procs[q]
        BY <1>8, <3>1, <3>2
      <4> QED
        BY <1>1, <1>6, <2>1, <2>2, <3>1, <4>1
    <3>3. CASE q = p
      <4>1. procs'[q].child = n + 1 /\ procs'[q].mb = m + 1 /\ Len(data') = m + 1 /\ cmd_list[procs'[q].at] = "if"
        BY <1>8, <2>2, <3>1, <3>3
      <4> QED
        BY <1>1, <3>1, <4>1
    <3> QED
      BY <3>2, <3>3
  <2> QED
    BY <1>2, <1>4, <1>6, <2>2 DEF WaitInv, Token
<1>13. PipeInv'
  <2>1. \A o, q \in 1 .. n : \A k \in DOMAIN procs[q].conds : procs[q].conds[k] = procs[o].mb => q > o
    BY <1>1 DEF ExecInv, PipeInv
  <2>2. ASSUME NEW o \in 1 .. n + 1, NEW q \in 1 .. n + 1, NEW k \in DOMAIN procs'[q].conds,
               procs'[q].conds[k] = procs'[o].mb
        PROVE  q > o
    <3>1. CASE o = n + 1
      <4>1. procs'[o].mb = 0
        BY <1>5, <1>10, <3>1
      <4>2. procs'[q].conds[k] \in 1 .. Len(data')
        BY <1>4, <1>6, <1>11 DEF ProcsInv
      <4> QED
        BY <1>6, <2>2, <4>1, <4>2
    <3>2. CASE o \in 1 .. n /\ q = n + 1
      BY <1>1, <3>2
    <3>3. CASE o \in 1 .. n /\ q \in 1 .. n
      <4>1. procs'[q].conds = procs[q].conds /\ procs[q].conds[k] \in 1 .. m
        BY <1>7, <1>8, <3>3
      <4>2. procs'[o].mb = procs[o].mb \/ procs'[o].mb = m + 1
        BY <1>8, <3>3
      <4>3. procs'[o].mb = procs[o].mb
        BY <1>1, <2>2, <4>1, <4>2
      <4> QED
        BY <2>1, <2>2, <3>3, <4>1, <4>3
    <3> QED
      BY <1>1, <3>1, <3>2, <3>3
  <2> QED
    BY <1>4, <2>2 DEF PipeInv
<1> QED
  BY <1>3, <1>11, <1>12, <1>13 DEF ExecInv

LEMMA PipeKeepsInv ==
  ASSUME ExecInv, NEW p \in DOMAIN procs, ExecutePipe(p)
  PROVE  ExecInv'
<1> DEFINE r == [procs[p] EXCEPT !.at = procs[p].at + 2]
           s == Process(procs[p].at, "single", procs[p].conds)
<1>1. procs[p] \in Processes /\ procs[p].at \in Nat /\ procs[p].pc = "execute"
  BY InvFacts DEF Processes, ExecutePipe
<1>2. /\ r \in Processes /\ r.child = procs[p].child /\ r.mb = procs[p].mb /\ r.pc = "execute"
      /\ r.conds = procs[p].conds
  BY <1>1 DEF Processes
<1>3. /\ s \in Processes /\ s.child = 0 /\ s.mb = 0 /\ s.pc = "single" /\ s.conds = procs[p].conds
  BY <1>1 DEF Processes, Process, States
<1>4. procs' = Append([procs EXCEPT ![p] = r], s)
  BY DEF ExecutePipe
<1>5. UNCHANGED <<line, data, ran, faults>>
  BY DEF ExecutePipe
<1>6. data' \in Seq(BOOLEAN) /\ Len(data') >= Len(data)
  BY <1>5, InvFacts DEF ExecInv, ProcsInv
<1> HIDE DEF r, s
<1>7. Forks(p, r, s)
  BY <1>2, <1>3, <1>4, <1>5, <1>6 DEF Forks
<1> QED
  BY <1>2, <1>3, <1>7, ForkingKeepsInv

Waiting(o, c, b) == [o EXCEPT !.pc = "wait", !.child = c, !.mb = b]

LEMMA WaitingTyped ==
  ASSUME NEW o \in Processes, NEW c \in Nat, NEW b \in Nat
  PROVE  /\ Waiting(o, c, b) \in Processes /\ Waiting(o, c, b).child = c /\ Waiting(o, c, b).mb = b
         /\ Waiting(o, c, b).at = o.at /\ Waiting(o, c, b).conds = o.conds
<1>1. "wait" \in States
  BY DEF States
<1> QED
  BY <1>1 DEF Processes, Waiting

LEMMA IfKeepsInv ==
  ASSUME ExecInv, NEW p \in DOMAIN procs, ExecuteIf(p)
  PROVE  ExecInv'
<1> DEFINE n == Len(procs)
           m == Len(data)
           r == Waiting(procs[p], n + 1, m + 1)
           s == Process(procs[p].at + 1, "execute", Append(procs[p].conds, m + 1))
<1>1. /\ procs[p] \in Processes /\ procs[p].at \in Nat /\ procs[p].conds \in Seq(Nat)
      /\ n \in Nat /\ m \in Nat /\ data \in Seq(BOOLEAN)
  BY InvFacts DEF Processes, ExecInv, ProcsInv
<1> HIDE DEF n, m
<1>2. /\ r \in Processes /\ r.child = n + 1 /\ r.mb = m + 1 /\ r.at = procs[p].at /\ r.conds = procs[p].conds
  <2>1. n + 1 \in Nat /\ m + 1 \in Nat
    BY <1>1
  <2>2. \A o \in Processes : \A c, b \in Nat :
          /\ Waiting(o, c, b) \in Processes /\ Waiting(o, c, b).child = c /\ Waiting(o, c, b).mb = b
          /\ Waiting(o, c, b).at = o.at /\ Waiting(o, c, b).conds = o.conds
    BY WaitingTyped
  <2>3. procs[p] \in Processes
    BY <1>1
  <2> DEFINE u == n + 1
             v == m + 1
  <2>4. r = Waiting(procs[p], u, v) /\ u \in Nat /\ v \in Nat
    BY <2>1
  <2> HIDE DEF u, v, r, s
  <2>5. /\ r \in Processes /\ r.child = u /\ r.mb = v /\ r.at = procs[p].at /\ r.conds = procs[p].conds
    BY <2>2, <2>3, <2>4
  <2> QED
    BY <2>5 DEF u, v
<1>3. Append(procs[p].conds, m + 1) \in Seq(Nat)
  BY <1>1
<1>4. /\ s \in Processes /\ s.child = 0 /\ s.mb = 0 /\ s.pc = "execute" /\ s.conds = Append(procs[p].conds, m + 1)
  BY <1>1, <1>3 DEF Processes, Process, States
<1>5. data' = Append(data, FALSE)
  BY DEF ExecuteIf
<1>6. data' \in Seq(BOOLEAN) /\ Len(data') = m + 1
  BY <1>1, <1>5 DEF m
<1>7. procs' = Append([procs EXCEPT ![p] = r], s)
  <2>1. procs' = Append([procs EXCEPT ![p].pc = "wait", ![p].child = Len(procs) + 1, ![p].mb = Len(data')],
                        Process(procs[p].at + 1, "execute", Append(procs[p].conds, Len(data'))))
    BY DEF ExecuteIf
  <2>2. procs' = Append([procs EXCEPT ![p].pc = "wait", ![p].child = n + 1, ![p].mb = m + 1],
                        Process(procs[p].at + 1, "execute", Append(procs[p].conds, m + 1)))
    BY <1>6, <2>1 DEF n
  <2>3. [procs EXCEPT ![p].pc = "wait", ![p].child = n + 1, ![p].mb = m + 1]
          = [procs EXCEPT ![p] = [procs[p] EXCEPT !.pc = "wait", !.child = n + 1, !.mb = m + 1]]
    OBVIOUS
  <2> QED
    BY <2>2, <2>3 DEF Waiting
<1>8. UNCHANGED <<line, ran, faults>> /\ cmd_list[procs[p].at] = "if"
  BY DEF ExecuteIf, Nested, Token
<1>9. \A k \in DOMAIN s.conds : \/ \E j \in DOMAIN procs[p].conds : s.conds[k] = procs[p].conds[j]
                                \/ s.conds[k] = m + 1
  <2>1. \A k \in DOMAIN Append(procs[p].conds, m + 1) :
          \/ k \in DOMAIN procs[p].conds /\ Append(procs[p].conds, m + 1)[k] = procs[p].conds[k]
          \/ Append(procs[p].conds, m + 1)[k] = m + 1
    BY <1>1
  <2> QED
    BY <1>4, <2>1
<1> HIDE DEF r, s
<1>10. Forks(p, r, s)
  <2>1. Len(data') >= Len(data)
    BY <1>1, <1>6 DEF m
  <2> QED
    BY <1>2, <1>4, <1>6, <1>7, <1>8, <1>9, <2>1 DEF Forks, n, m
<1> QED
  BY <1>2, <1>4, <1>10, ForkingKeepsInv

LEMMA SubstitutedTyped ==
  ASSUME alias_s \in Aliases, NEW t \in Texts
  PROVE  Substituted(t) \in Texts
<1>1. CASE Len(FirstWord(t)) = 1 /\ t[1] \in DOMAIN alias_s
  <2>1. alias_s[t[1]] \in Texts
    BY <1>1, TextsAssumption, StringsAreTexts
  <2>2. Len(t) \in Nat
    BY DEF Texts
  <2>3. SubSeq(t, 2, Len(t)) \in Texts
    BY <2>2, PartTyped DEF Texts
  <2>4. alias_s[t[1]] \o SubSeq(t, 2, Len(t)) \in Texts
    BY <2>1, <2>3 DEF Texts
  <2> QED
    BY <1>1, <2>4 DEF Substituted
<1>2. CASE ~ (Len(FirstWord(t)) = 1 /\ t[1] \in DOMAIN alias_s)
  BY <1>2 DEF Substituted
<1> QED
  BY <1>1, <1>2

LEMMA ReplacedTyped ==
  ASSUME alias_s \in Aliases, NEW toks \in Seq(Texts)
  PROVE  /\ replaced(toks) \in Seq(Texts) /\ Len(replaced(toks)) = Len(toks)
         /\ \A k \in 1 .. Len(toks) : replaced(toks)[k] \in {toks[k], Substituted(toks[k])}
<1> DEFINE R(k) == IF k \in Looked(toks) THEN Substituted(toks[k]) ELSE toks[k]
<1>1. Len(toks) \in Nat /\ DOMAIN toks = 1 .. Len(toks) /\ \A k \in 1 .. Len(toks) : toks[k] \in Texts
  OBVIOUS
<1>2. replaced(toks) = [k \in 1 .. Len(toks) |-> R(k)]
  BY <1>1 DEF replaced
<1>3. ASSUME NEW k \in 1 .. Len(toks) PROVE R(k) \in Texts /\ R(k) \in {toks[k], Substituted(toks[k])}
  BY <1>1, SubstitutedTyped
<1> HIDE DEF R
<1>4. [k \in 1 .. Len(toks) |-> R(k)] \in Seq(Texts) /\ Len([k \in 1 .. Len(toks) |-> R(k)]) = Len(toks)
  BY <1>1, <1>3
<1> QED
  BY <1>2, <1>3, <1>4

LEMMA KindsTyped ==
  ASSUME NEW toks \in Seq(Texts)
  PROVE  /\ kinds(toks) \in Seq(Tokens) /\ Len(kinds(toks)) = Len(toks)
         /\ \A k \in 1 .. Len(toks) : kinds(toks)[k] = Kind(toks[k])
<1>1. Len(toks) \in Nat /\ DOMAIN toks = 1 .. Len(toks) /\ \A k \in 1 .. Len(toks) : toks[k] \in Texts
  OBVIOUS
<1>2. \A k \in 1 .. Len(toks) : Kind(toks[k]) \in Tokens
  BY <1>1, KindTyped
<1> QED
  BY <1>1, <1>2 DEF kinds

LEMMA ParseInv ==
  ASSUME ExecInv, Parse
  PROVE  ExecInv'
<1> DEFINE toks == parseCmd(in_cmd)
<1>1. in_cmd \in Lines /\ alias_s \in Aliases /\ status = "typed" /\ procs = <<>> /\ data = <<>>
  BY DEF ExecInv, LineInv, Parse
<1>2. toks \in Seq(Texts)
  <2>1. in_cmd \in Texts
    BY <1>1, TextsAssumption, StringsAreTexts
  <2> QED
    BY <2>1, ParseTyped
<1>3. cmd_list' = kinds(replaced(toks))
  BY DEF Parse
<1>4. UNCHANGED <<in_cmd, alias_s, exists, procs, data, ran, faults>> /\ status' \in {"set", "parsed"}
  BY DEF Parse
<1>5. cmd_list' = kinds(replaced(parseCmd(in_cmd)))'
  BY <1>3, <1>4, SameLine
<1> HIDE DEF toks
<1>6. cmd_list' \in Seq(Tokens)
  BY <1>1, <1>2, <1>3, ReplacedTyped, KindsTyped
<1>7. exists = {}
  BY <1>1 DEF ExecInv, LineInv
<1>8. LineInv'
  BY <1>1, <1>4, <1>5, <1>6, <1>7 DEF LineInv
<1>9. ProcsInv'
  BY <1>4 DEF ExecInv, ProcsInv
<1>10. WaitInv' /\ PipeInv'
  BY <1>1, <1>4 DEF WaitInv, PipeInv
<1> QED
  BY <1>8, <1>9, <1>10 DEF ExecInv

LEMMA RefuseInv ==
  ASSUME ExecInv, Refuse \/ NotFound \/ BuiltIn
  PROVE  ExecInv'
<1>1. /\ UNCHANGED <<in_cmd, alias_s, cmd_list, exists, procs, data, ran, faults>>
      /\ status \in {"parsed", "set"} /\ status' \in {"refused", "not_found", "built_in"} /\ procs = <<>>
  BY DEF Refuse, NotFound, BuiltIn, ExecInv, LineInv
<1>2. data = <<>> /\ exists = {}
  BY <1>1 DEF ExecInv, LineInv
<1>3. LineInv'
  BY <1>1, <1>2, SameLineInv
<1>4. ProcsInv' /\ WaitInv' /\ PipeInv'
  BY <1>1 DEF ExecInv, ProcsInv, WaitInv, PipeInv
<1> QED
  BY <1>3, <1>4 DEF ExecInv

LEMMA AcceptInv ==
  ASSUME ExecInv, Accept
  PROVE  ExecInv'
<1> DEFINE s == Process(1, "execute", <<>>)
<1>1. /\ UNCHANGED <<in_cmd, alias_s, cmd_list, data, ran, faults>>
      /\ status \in {"parsed", "set"} /\ status' = "running" /\ procs = <<>> /\ data = <<>>
      /\ validateCommand(parseCmd(in_cmd)) /\ procs' = <<s>> /\ exists' \subseteq DOMAIN cmd_list
  BY DEF Accept, ExecInv, LineInv
<1>2. s \in Processes /\ s.pc = "execute" /\ s.child = 0 /\ s.mb = 0 /\ s.conds = <<>>
  BY DEF Processes, Process, States
<1> HIDE DEF s
<1>3. procs' \in Seq(Processes) /\ DOMAIN procs' = {1} /\ Len(procs') = 1 /\ procs'[1] = s
  BY <1>1, <1>2
<1>4. ran \subseteq exists /\ exists = {} /\ data \in Seq(BOOLEAN) /\ faults \in 0 .. MAX_FAULTS /\ Len(data) = 0
  BY <1>1 DEF ExecInv, ProcsInv, LineInv
<1>5. LineInv'
  BY <1>1, SameLineInv
<1>6. ProcsInv'
  BY <1>1, <1>2, <1>3, <1>4 DEF ProcsInv
<1>7. WaitInv' /\ PipeInv'
  BY <1>2, <1>3 DEF WaitInv, PipeInv
<1> QED
  BY <1>5, <1>6, <1>7 DEF ExecInv

LEMMA InitInv ==
  ASSUME Init
  PROVE  ExecInv
<1>1. <<>> \in Seq(Tokens) /\ <<>> \in Seq(Processes) /\ <<>> \in Seq(BOOLEAN) /\ DOMAIN <<>> = {}
  OBVIOUS
<1>2. LineInv
  BY <1>1 DEF Init, LineInv
<1>3. 0 \in 0 .. MAX_FAULTS
  BY FaultsAssumption
<1>4. ProcsInv /\ WaitInv /\ PipeInv
  BY <1>1, <1>3 DEF Init, ProcsInv, WaitInv, PipeInv
<1> QED
  BY <1>2, <1>4 DEF ExecInv

LEMMA NextInv ==
  ASSUME ExecInv, [Next]_vars
  PROVE  ExecInv'
<1>1. CASE Parse
  BY <1>1, ParseInv
<1>2. CASE Refuse \/ NotFound \/ BuiltIn
  BY <1>2, RefuseInv
<1>3. CASE Accept
  BY <1>3, AcceptInv
<1>4. ASSUME NEW p \in DOMAIN procs, Step(p) \/ Fails(p) PROVE ExecInv'
  BY <1>4, PipeKeepsInv, RedirectInv, IfKeepsInv, SingleInv, ReturnInv, EndsInv, WaitKeepsInv, ReadInv, FailsInv
     DEF Step
<1>5. CASE UNCHANGED vars
  <2>1. UNCHANGED <<in_cmd, alias_s, status, cmd_list, exists, procs, data, ran, faults>>
    BY <1>5 DEF vars, line
  <2>2. LineInv'
    <3>1. CASE status = "typed"
      BY <2>1, <3>1 DEF ExecInv, LineInv
    <3>2. CASE status # "typed"
      BY <2>1, <3>2, SameLineInv DEF ExecInv, LineInv
    <3> QED BY <3>1, <3>2
  <2>3. ProcsInv' /\ WaitInv' /\ PipeInv'
    BY <2>1 DEF ExecInv, ProcsInv, WaitInv, PipeInv, Token
  <2> QED
    BY <2>2, <2>3 DEF ExecInv
<1> QED
  BY <1>1, <1>2, <1>3, <1>4, <1>5 DEF Next

THEOREM ExecInvHolds == Spec => []ExecInv
<1>1. Init => ExecInv
  BY InitInv
<1>2. ExecInv /\ [Next]_vars => ExecInv'
  BY NextInv
<1> QED
  BY <1>1, <1>2, PTL DEF Spec
-----------------------------------------------------------------------------
(* Nobody is stuck.                                                        *)

(* As long as a line is not over one of its processes can go on: the       *)
(* youngest that is not over waits for nobody, as a child is younger than  *)
(* its parent and whoever has a pipe open younger than its reader.         *)
LEMMA YoungestGoesOn ==
  ASSUME ExecInv
  PROVE  NobodyIsStuck
<1> SUFFICES ASSUME ~ Finished PROVE \E p \in DOMAIN procs : CanStep(p)
  BY DEF NobodyIsStuck
<1>1. /\ DOMAIN procs = 1 .. Len(procs) /\ Len(procs) \in Nat
      /\ \A q \in DOMAIN procs : procs[q] \in Processes
  BY InvFacts
<1> DEFINE T == {p \in DOMAIN procs : procs[p].pc \notin Over}
           p == Max(T)
<1>2. T \subseteq Nat /\ T # {} /\ \A q \in T : q <= Len(procs)
  BY <1>1 DEF Finished
<1>3. p \in T /\ \A q \in T : p >= q
  <2> HIDE DEF T
  <2> QED BY <1>1, <1>2, MaxIsGreatest
<1>4. ASSUME NEW q \in DOMAIN procs, q > p PROVE procs[q].pc \in Over
  <2>1. q \notin T
    <3> HIDE DEF p, T
    <3>1. p \in Nat /\ q \in Nat /\ ~ (p >= q)
      BY <1>1, <1>2, <1>3, <1>4
    <3> QED
      BY <1>3, <3>1
  <2> QED
    BY <2>1
<1>5. p \in DOMAIN procs /\ procs[p].pc \in States \ Over /\ p \in 1 .. Len(procs)
  BY <1>1, <1>3 DEF Processes
<1> HIDE DEF p, T
<1>6. CASE procs[p].pc = "wait"
  <2>1. procs[p].child > p /\ procs[p].child \in 0 .. Len(procs)
    BY <1>5, <1>6 DEF ExecInv, WaitInv, ProcsInv
  <2>2. procs[p].child \in DOMAIN procs
    BY <1>1, <1>5, <2>1
  <2>3. procs[procs[p].child].pc \in Over
    BY <1>4, <2>1, <2>2
  <2> QED
    BY <1>5, <1>6, <2>3 DEF CanStep
<1>7. CASE procs[p].pc = "read"
  <2>1. ~ Open(procs[p].mb)
    <3> SUFFICES ASSUME NEW q \in DOMAIN procs, procs[q].pc \notin Over, procs[p].mb \in ToSet(procs[q].conds)
                 PROVE  FALSE
      BY DEF Open
    <3>1. PICK k \in DOMAIN procs[q].conds : procs[q].conds[k] = procs[p].mb
      BY DEF ToSet
    <3>2. q > p
      BY <1>5, <3>1 DEF ExecInv, PipeInv
    <3> QED
      BY <1>4, <3>2
  <2> QED
    BY <1>5, <1>7, <2>1 DEF CanStep
<1>8. CASE procs[p].pc \in {"execute", "single", "return", "program"}
  BY <1>5, <1>8 DEF CanStep
<1> QED
  BY <1>5, <1>6, <1>7, <1>8 DEF States, Over

(* No line ends up with processes that wait for one another (the read of   *)
(* exe.c:261 and the waitpid before it): until all are over one can go on. *)
THEOREM NobodyStuck == Spec => []NobodyIsStuck
BY ExecInvHolds, YoungestGoesOn, PTL
-----------------------------------------------------------------------------
(* The check of valid.c.                                                   *)

Checks == [stk : Seq({"if", "then", "else"}), prev : {"fi", "else", "then"}, valid : BOOLEAN]

LEMMA StackFacts ==
  ASSUME NEW V, NEW s \in Seq(V), s # <<>>
  PROVE  /\ Len(s) \in Nat \ {0} /\ Last(s) = s[Len(s)] /\ Last(s) \in V
         /\ Front(s) \in Seq(V) /\ Len(Front(s)) = Len(s) - 1
         /\ \A k \in 1 .. Len(s) - 1 : Front(s)[k] = s[k]
<1>1. Len(s) \in Nat \ {0} /\ Last(s) = s[Len(s)] /\ Last(s) \in V
  BY DEF Last
<1>2. Len(s) - 1 \in 0 .. Len(s) /\ 1 \in Nat \ {0} /\ \A k \in 1 .. Len(s) - 1 : 1 + k - 1 = k
  BY <1>1
<1>3. /\ SubSeq(s, 1, Len(s) - 1) \in Seq(V) /\ Len(SubSeq(s, 1, Len(s) - 1)) = Len(s) - 1
      /\ \A k \in 1 .. Len(s) - 1 : SubSeq(s, 1, Len(s) - 1)[k] = s[k]
  <2>1. /\ SubSeq(s, 1, Len(s) - 1) \in Seq(V)
        /\ Len(SubSeq(s, 1, Len(s) - 1)) = IF 1 <= Len(s) - 1 THEN Len(s) - 1 - 1 + 1 ELSE 0
        /\ \A k \in 1 .. Len(SubSeq(s, 1, Len(s) - 1)) : SubSeq(s, 1, Len(s) - 1)[k] = s[1 + k - 1]
    BY <1>2, PartTyped
  <2>2. Len(SubSeq(s, 1, Len(s) - 1)) = Len(s) - 1
    <3> DEFINE x == Len(SubSeq(s, 1, Len(s) - 1))
               m == Len(s)
    <3>1. x = IF 1 <= m - 1 THEN m - 1 - 1 + 1 ELSE 0
      BY <2>1
    <3>2. m \in Nat \ {0}
      BY <1>1
    <3> HIDE DEF x, m
    <3>3. x = m - 1
      BY <3>1, <3>2
    <3> QED
      BY <3>3 DEF x, m
  <2> QED
    BY <1>2, <2>1, <2>2
<1> QED
  BY <1>1, <1>3 DEF Front

LEMMA PopStep ==
  ASSUME NEW s \in Checks
  PROVE  /\ PopOne(s) \in Checks
         /\ PopOne(s).valid => s.valid
         /\ s.stk = <<>> \/ ~ s.valid => PopOne(s) = s
         /\ s.stk # <<>> /\ PopOne(s).valid =>
              /\ Last(s.stk) = Follows[s.prev] /\ PopOne(s).stk = Front(s.stk)
              /\ PopOne(s).prev = IF Last(s.stk) = "if" THEN "fi" ELSE Last(s.stk)
<1>1. s.stk \in Seq({"if", "then", "else"}) /\ s.prev \in {"fi", "else", "then"} /\ s.valid \in BOOLEAN
  BY DEF Checks
<1>2. CASE s.stk = <<>> \/ ~ s.valid
  BY <1>2 DEF PopOne
<1>3. CASE s.stk # <<>> /\ s.valid /\ Last(s.stk) # Follows[s.prev]
  <2>1. PopOne(s) = [s EXCEPT !.valid = FALSE]
    BY <1>3 DEF PopOne
  <2>2. PopOne(s) \in Checks /\ PopOne(s).valid = FALSE
    BY <2>1 DEF Checks
  <2> QED
    BY <1>3, <2>2
<1>4. CASE s.stk # <<>> /\ s.valid /\ Last(s.stk) = Follows[s.prev]
  <2> DEFINE w == IF Last(s.stk) = "if" THEN "fi" ELSE Last(s.stk)
  <2>1. PopOne(s) = [s EXCEPT !.stk = Front(s.stk), !.prev = w]
    BY <1>4 DEF PopOne
  <2>2. Front(s.stk) \in Seq({"if", "then", "else"}) /\ Last(s.stk) \in {"if", "then", "else"}
    BY <1>1, <1>4, StackFacts
  <2>3. w \in {"fi", "else", "then"}
    BY <2>2
  <2> HIDE DEF w
  <2>4. PopOne(s) \in Checks /\ PopOne(s).stk = Front(s.stk) /\ PopOne(s).prev = w
    BY <1>1, <2>1, <2>2, <2>3 DEF Checks
  <2> QED
    BY <1>4, <2>4 DEF w
<1> QED
  BY <1>2, <1>3, <1>4

(* The keywords an if opened are taken from the stack together.            *)
LEMMA PopsThree ==
  ASSUME NEW s \in Checks, s.prev = "fi", s.stk # <<>>, s.stk[1] = "if", PopOne(PopOne(PopOne(s))).valid
  PROVE  LET r == PopOne(PopOne(PopOne(s)))
             m == Len(s.stk)
         IN  /\ m >= 3 /\ s.stk[m] = "else" /\ s.stk[m - 1] = "then" /\ s.stk[m - 2] = "if"
             /\ r.prev = "fi" /\ Len(r.stk) = m - 3 /\ r.stk \in Seq({"if", "then", "else"})
             /\ \A k \in 1 .. m - 3 : r.stk[k] = s.stk[k]
<1> DEFINE s1 == PopOne(s)
           s2 == PopOne(s1)
           s3 == PopOne(s2)
           m == Len(s.stk)
           V == {"if", "then", "else"}
<1>1. s1 \in Checks /\ (s1.valid => s.valid)
  BY PopStep
<1>2. s.stk \in Seq(V) /\ m \in Nat \ {0}
  BY StackFacts DEF Checks
<1>3. (s.stk # <<>> /\ s1.valid) => /\ Last(s.stk) = Follows[s.prev] /\ s1.stk = Front(s.stk)
                                    /\ s1.prev = IF Last(s.stk) = "if" THEN "fi" ELSE Last(s.stk)
  BY PopStep
<1> HIDE DEF s1
<1>4. s2 \in Checks /\ (s2.valid => s1.valid)
  BY <1>1, PopStep
<1>5. s1.stk # <<>> /\ s2.valid => /\ Last(s1.stk) = Follows[s1.prev] /\ s2.stk = Front(s1.stk)
                                   /\ s2.prev = IF Last(s1.stk) = "if" THEN "fi" ELSE Last(s1.stk)
  BY <1>1, PopStep
<1> HIDE DEF s2
<1>6. s3 \in Checks /\ (s3.valid => s2.valid)
  BY <1>4, PopStep
<1>7. s2.stk # <<>> /\ s3.valid => /\ Last(s2.stk) = Follows[s2.prev] /\ s3.stk = Front(s2.stk)
                                   /\ s3.prev = IF Last(s2.stk) = "if" THEN "fi" ELSE Last(s2.stk)
  BY <1>4, PopStep
<1> HIDE DEF s3
<1>8. s3.valid /\ s2.valid /\ s1.valid
  BY <1>4, <1>6 DEF s1, s2, s3
<1>9. Follows["fi"] = "else" /\ Follows["else"] = "then" /\ Follows["then"] = "if"
  BY DEF Follows
<1>10. s.stk[m] = "else" /\ s1.stk = Front(s.stk) /\ s1.prev = "else"
  <2>1. Last(s.stk) = "else" /\ Last(s.stk) = s.stk[m]
    BY <1>2, <1>3, <1>8, <1>9, StackFacts
  <2> QED
    BY <1>3, <1>8, <2>1
<1>11. m >= 2 /\ Len(s1.stk) = m - 1 /\ s1.stk \in Seq(V) /\ \A k \in 1 .. m - 1 : s1.stk[k] = s.stk[k]
  <2>1. m # 1
    BY <1>10
  <2>2. /\ Front(s.stk) \in Seq(V) /\ Len(Front(s.stk)) = m - 1
        /\ \A k \in 1 .. m - 1 : Front(s.stk)[k] = s.stk[k]
    BY <1>2, StackFacts
  <2> HIDE DEF m
  <2> QED
    BY <1>2, <1>10, <2>1, <2>2
<1> HIDE DEF m, V
<1>12. s1.stk # <<>> /\ Last(s1.stk) = s1.stk[m - 1]
  <2>1. s1.stk # <<>>
    BY <1>2, <1>11
  <2> QED
    BY <1>11, <2>1, StackFacts
<1>13. s.stk[m - 1] = "then" /\ s2.stk = Front(s1.stk) /\ s2.prev = "then"
  <2>1. Last(s1.stk) = "then" /\ s2.stk = Front(s1.stk) /\ s2.prev = "then"
    BY <1>5, <1>8, <1>9, <1>10, <1>12
  <2>2. s1.stk[m - 1] = s.stk[m - 1]
    BY <1>2, <1>11
  <2> QED
    BY <1>12, <2>1, <2>2
<1>14. m >= 3 /\ Len(s2.stk) = m - 2 /\ s2.stk \in Seq(V) /\ \A k \in 1 .. m - 2 : s2.stk[k] = s.stk[k]
  <2>1. m # 2
    BY <1>13
  <2>2. /\ Front(s1.stk) \in Seq(V) /\ Len(Front(s1.stk)) = Len(s1.stk) - 1
        /\ \A k \in 1 .. Len(s1.stk) - 1 : Front(s1.stk)[k] = s1.stk[k]
    BY <1>11, <1>12, StackFacts
  <2>3. \A k \in 1 .. m - 2 : s1.stk[k] = s.stk[k]
    BY <1>2, <1>11
  <2>4. Len(s1.stk) - 1 = m - 2
    BY <1>2, <1>11
  <2> QED
    BY <1>2, <1>11, <1>13, <2>1, <2>2, <2>3, <2>4
<1>15. s2.stk # <<>> /\ Last(s2.stk) = s2.stk[m - 2]
  <2>1. s2.stk # <<>>
    BY <1>2, <1>14
  <2> QED
    BY <1>14, <2>1, StackFacts
<1>16. s.stk[m - 2] = "if" /\ s3.stk = Front(s2.stk) /\ s3.prev = "fi"
  <2>1. Last(s2.stk) = "if" /\ s3.stk = Front(s2.stk) /\ s3.prev = "fi"
    BY <1>7, <1>8, <1>9, <1>13, <1>15
  <2>2. s2.stk[m - 2] = s.stk[m - 2]
    BY <1>2, <1>14
  <2> QED
    BY <1>15, <2>1, <2>2
<1>17. Len(s3.stk) = m - 3 /\ s3.stk \in Seq(V) /\ \A k \in 1 .. m - 3 : s3.stk[k] = s.stk[k]
  <2>1. /\ Front(s2.stk) \in Seq(V) /\ Len(Front(s2.stk)) = Len(s2.stk) - 1
        /\ \A k \in 1 .. Len(s2.stk) - 1 : Front(s2.stk)[k] = s2.stk[k]
    BY <1>14, <1>15, StackFacts
  <2>2. \A k \in 1 .. m - 3 : s2.stk[k] = s.stk[k]
    BY <1>2, <1>14
  <2>3. Len(s2.stk) - 1 = m - 3
    BY <1>2, <1>14
  <2> QED
    BY <1>16, <2>1, <2>2, <2>3
<1> QED
  BY <1>10, <1>13, <1>14, <1>16, <1>17 DEF s1, s2, s3, m, V

LEMMA ValidatedStep ==
  ASSUME NEW l, NEW s \in Checks, NEW i
  PROVE  /\ Validated(l, s, i) \in Checks
         /\ Validated(l, s, i).valid => s.valid
         /\ l[i] \notin Keywords => Validated(l, s, i) = s
         /\ Validated(l, s, i).valid /\ l[i] = "if" => i = 1 \/ Opens(l[i - 1])
         /\ Validated(l, s, i).valid /\ l[i] \in {"if", "then", "else"} =>
              Validated(l, s, i).stk = Append(s.stk, l[i]) /\ Validated(l, s, i).prev = s.prev
         /\ Validated(l, s, i).valid /\ l[i] = "fi" => Validated(l, s, i) = PopOne(PopOne(PopOne(s)))
<1> DEFINE t == l[i]
           r == Validated(l, s, i)
           placed == IF t = "if" THEN i = 1 \/ Opens(l[i - 1]) ELSE ~ Opens(l[i - 1])
<1>1. r = IF t \notin Keywords THEN s
          ELSE IF ~ placed THEN [s EXCEPT !.valid = FALSE]
          ELSE IF t = "fi" THEN PopOne(PopOne(PopOne(s)))
          ELSE [s EXCEPT !.stk = Append(s.stk, t)]
  BY DEF Validated
<1>2. t = "if" /\ placed => i = 1 \/ Opens(l[i - 1])
  OBVIOUS
<1>3. t \in Keywords <=> t \in {"if", "then", "else", "fi"}
  BY DEF Keywords
<1> HIDE DEF t, placed, r
<1>4. CASE t \notin Keywords
  BY <1>1, <1>3, <1>4 DEF r, t
<1>5. CASE t \in Keywords /\ ~ placed
  <2>1. r = [s EXCEPT !.valid = FALSE]
    BY <1>1, <1>5
  <2>2. r \in Checks /\ r.valid = FALSE
    BY <2>1 DEF Checks
  <2> QED
    BY <1>5, <2>2 DEF r, t
<1>6. CASE t = "fi" /\ placed
  <2>1. r = PopOne(PopOne(PopOne(s))) /\ t # "if"
    BY <1>1, <1>3, <1>6
  <2>2. PopOne(s) \in Checks /\ (PopOne(s).valid => s.valid)
    BY PopStep
  <2>3. PopOne(PopOne(s)) \in Checks /\ (PopOne(PopOne(s)).valid => PopOne(s).valid)
    BY <2>2, PopStep
  <2>4. PopOne(PopOne(PopOne(s))) \in Checks /\ (PopOne(PopOne(PopOne(s))).valid => PopOne(PopOne(s)).valid)
    BY <2>3, PopStep
  <2>5. r \in Checks /\ (r.valid => s.valid)
    BY <2>1, <2>2, <2>3, <2>4
  <2> QED
    BY <1>3, <1>6, <2>1, <2>5 DEF r, t
<1>7. CASE t \in {"if", "then", "else"} /\ placed
  <2>1. r = [s EXCEPT !.stk = Append(s.stk, t)]
    BY <1>1, <1>3, <1>7
  <2>2. Append(s.stk, t) \in Seq({"if", "then", "else"})
    BY <1>7 DEF Checks
  <2>3. r \in Checks /\ r.stk = Append(s.stk, t) /\ r.prev = s.prev /\ r.valid = s.valid
    BY <2>1, <2>2 DEF Checks
  <2>4. t \in Keywords /\ t # "fi" /\ (t = "if" => i = 1 \/ Opens(l[i - 1]))
    BY <1>2, <1>3, <1>7
  <2> QED
    BY <2>3, <2>4 DEF r, t
<1> QED
  BY <1>3, <1>4, <1>5, <1>6, <1>7

LEMMA CheckedStep ==
  ASSUME NEW l, Len(l) \in Nat
  PROVE  /\ checked(l)[0] = [stk |-> <<>>, prev |-> "fi", valid |-> TRUE]
         /\ \A k \in 0 .. Len(l) : checked(l)[k] \in Checks
         /\ \A k \in 1 .. Len(l) : checked(l)[k] = Validated(l, checked(l)[k - 1], k)
<1> DEFINE n == Len(l)
           a == [stk |-> <<>>, prev |-> "fi", valid |-> TRUE]
           F == [x \in Checks \X (1 .. n) |-> Validated(l, x[1], x[2])]
           c == CHOOSE c : c = [k \in 0 .. Len(l) |-> IF k = 0 THEN [stk |-> <<>>, prev |-> "fi", valid |-> TRUE]
                                                     ELSE Validated(l, c[k - 1], k)]
<1>1. \A x \in Checks, i \in 1 .. n : Validated(l, x, i) \in Checks
  BY ValidatedStep
<1>2. F \in [Checks \X (1 .. n) -> Checks]
  BY <1>1
<1>3. \A x \in Checks, i \in 1 .. n : F[<<x, i>>] = Validated(l, x, i)
  BY DEF F
<1>4. a \in Checks
  <2>1. <<>> \in Seq({"if", "then", "else"})
    OBVIOUS
  <2> QED
    BY <2>1 DEF Checks
<1>5. checked(l) = c
  BY DEF checked
<1> HIDE DEF F, a
<1>6. c = [k \in 0 .. n |-> IF k = 0 THEN a ELSE Validated(l, c[k - 1], k)]
  <2> HIDE DEF n
  <2>1. PICK f \in [0 .. n -> Checks] : Recurs(f, n, a, F)
    <3>1. n \in Nat
      BY DEF n
    <3> QED
      BY <1>2, <1>4, <3>1, RecursiveFunction
  <2>2. ASSUME NEW k \in 0 .. n PROVE f[k] = IF k = 0 THEN a ELSE Validated(l, f[k - 1], k)
    <3>1. f[k] = IF k = 0 THEN a ELSE F[<<f[k - 1], k>>]
      BY <2>1 DEF Recurs
    <3>2. k # 0 => k \in 1 .. n /\ k - 1 \in 0 .. n
      BY DEF n
    <3>3. k # 0 => F[<<f[k - 1], k>>] = Validated(l, f[k - 1], k)
      BY <1>3, <2>1, <3>2
    <3> QED
      BY <3>1, <3>3
  <2>3. f = [k \in 0 .. n |-> IF k = 0 THEN a ELSE Validated(l, f[k - 1], k)]
    BY <2>1, <2>2
  <2> QED
    BY <2>3 DEF n, a
<1> HIDE DEF c, n
<1>7. n \in Nat
  BY DEF n
<1>8. c[0] = a
  BY <1>6, <1>7
<1>9. ASSUME NEW k \in 1 .. n PROVE c[k] = Validated(l, c[k - 1], k)
  BY <1>6, <1>7
<1> DEFINE S == {m \in Nat : m <= n => c[m] \in Checks}
<1>10. 0 \in S
  BY <1>4, <1>8
<1>11. ASSUME NEW m \in Nat, m <= n => c[m] \in Checks, m + 1 <= n PROVE c[m + 1] \in Checks
  <2>1. m + 1 \in 1 .. n /\ (m + 1) - 1 = m /\ c[m] \in Checks
    BY <1>7, <1>11
  <2>2. c[m + 1] = Validated(l, c[m], m + 1)
    BY <1>9, <2>1
  <2> QED
    BY <1>1, <2>1, <2>2
<1>12. \A m \in Nat : m \in S => m + 1 \in S
  BY <1>11
<1>13. \A m \in Nat : m \in S
  <2> HIDE DEF S
  <2> QED BY <1>10, <1>12, Induction
<1>14. \A k \in 0 .. n : c[k] \in Checks
  BY <1>7, <1>13
<1> QED
  BY <1>5, <1>8, <1>9, <1>14 DEF n, a

\* A line that begins with an if and was accepted.
Checked(l) == l \in Seq(Tokens) /\ l # <<>> /\ l[1] = "if" /\ validateIfElseCondition(l)

LEMMA AllValid ==
  ASSUME NEW l, Checked(l)
  PROVE  \A k \in 0 .. Len(l) : checked(l)[k].valid
<1> DEFINE n == Len(l)
           S == {m \in Nat : m <= n => checked(l)[n - m].valid}
<1>1. n \in Nat /\ checked(l)[n].valid
  BY DEF Checked, validateIfElseCondition
<1>2. /\ \A k \in 0 .. n : checked(l)[k] \in Checks
      /\ \A k \in 1 .. n : checked(l)[k] = Validated(l, checked(l)[k - 1], k)
  BY <1>1, CheckedStep
<1> HIDE DEF n
<1>3. 0 \in S
  BY <1>1
<1>4. ASSUME NEW m \in Nat, checked(l)[n - m].valid, m + 1 <= n PROVE checked(l)[n - (m + 1)].valid
  <2>1. n - m \in 1 .. n /\ (n - m) - 1 = n - (m + 1) /\ n - (m + 1) \in 0 .. n
    BY <1>1, <1>4
  <2> DEFINE i == n - m
             j == n - (m + 1)
  <2>2. checked(l)[i] = Validated(l, checked(l)[j], i) /\ checked(l)[j] \in Checks /\ checked(l)[i].valid
    BY <1>2, <1>4, <2>1
  <2> HIDE DEF j
  <2>3. checked(l)[j].valid
    <3>1. \A x \in Checks, k \in 1 .. n : Validated(l, x, k).valid => x.valid
      BY ValidatedStep
    <3> QED
      BY <2>1, <2>2, <3>1
  <2> QED
    BY <2>3 DEF j
<1>5. \A m \in Nat : m \in S => m + 1 \in S
  BY <1>1, <1>4
<1>6. \A m \in Nat : m \in S
  <2> HIDE DEF S
  <2> QED BY <1>3, <1>5, Induction
<1>7. ASSUME NEW k \in 0 .. n PROVE checked(l)[k].valid
  <2>1. n - k \in Nat /\ n - k <= n /\ n - (n - k) = k
    BY <1>1
  <2>2. n - k \in S
    BY <1>6, <2>1
  <2> QED
    BY <2>1, <2>2
<1> QED
  BY <1>7 DEF n

(* What a token does to the stack.                                         *)
LEMMA StackStep ==
  ASSUME NEW l, Checked(l), NEW k \in 1 .. Len(l)
  PROVE  /\ checked(l)[k - 1] \in Checks /\ checked(l)[k] \in Checks
         /\ checked(l)[k - 1].valid /\ checked(l)[k].valid
         /\ l[k] \notin Keywords => checked(l)[k] = checked(l)[k - 1]
         /\ l[k] = "if" => k = 1 \/ Opens(l[k - 1])
         /\ l[k] \in {"if", "then", "else"} => /\ checked(l)[k].stk = Append(checked(l)[k - 1].stk, l[k])
                                              /\ checked(l)[k].prev = checked(l)[k - 1].prev
         /\ l[k] = "fi" => checked(l)[k] = PopOne(PopOne(PopOne(checked(l)[k - 1])))
<1> DEFINE s == checked(l)[k - 1]
           r == checked(l)[k]
<1>1. Len(l) \in Nat /\ k \in 0 .. Len(l) /\ k - 1 \in 0 .. Len(l)
  BY DEF Checked
<1>2. s \in Checks /\ r \in Checks /\ r = Validated(l, s, k)
  BY <1>1, CheckedStep
<1>3. s.valid /\ r.valid
  BY <1>1, AllValid
<1> HIDE DEF s, r
<1>4. /\ l[k] \notin Keywords => r = s
      /\ l[k] = "if" => k = 1 \/ Opens(l[k - 1])
      /\ l[k] \in {"if", "then", "else"} => r.stk = Append(s.stk, l[k]) /\ r.prev = s.prev
      /\ l[k] = "fi" => r = PopOne(PopOne(PopOne(s)))
  <2>1. \A x \in Checks, i \in 1 .. Len(l) :
           /\ l[i] \notin Keywords => Validated(l, x, i) = x
           /\ Validated(l, x, i).valid /\ l[i] = "if" => i = 1 \/ Opens(l[i - 1])
           /\ Validated(l, x, i).valid /\ l[i] \in {"if", "then", "else"} =>
                Validated(l, x, i).stk = Append(x.stk, l[i]) /\ Validated(l, x, i).prev = x.prev
           /\ Validated(l, x, i).valid /\ l[i] = "fi" => Validated(l, x, i) = PopOne(PopOne(PopOne(x)))
    BY ValidatedStep
  <2> QED
    BY <1>2, <1>3, <2>1
<1> QED
  BY <1>2, <1>3, <1>4 DEF s, r

(* Up to the fi of the first if the stack begins with an if.               *)
LEMMA BottomIsIf ==
  ASSUME NEW l, Checked(l), NEW i \in 1 .. Len(l), Reached(l, i)
  PROVE  \A k \in 1 .. i : checked(l)[k].stk[1] = "if" /\ checked(l)[k].prev = "fi"
<1> DEFINE c(k) == checked(l)[k]
           S == {m \in Nat : m + 1 <= i => c(m + 1).stk[1] = "if" /\ c(m + 1).prev = "fi"}
<1>1. Len(l) \in Nat /\ i \in Nat \ {0} /\ i <= Len(l) /\ l[1] = "if" /\ 1 \in 1 .. Len(l)
  BY DEF Checked
<1>2. \A k \in 1 .. i : c(k).stk # <<>>
  BY DEF Reached
<1>3. c(0) = [stk |-> <<>>, prev |-> "fi", valid |-> TRUE]
  BY <1>1, CheckedStep
<1>4. 0 \in S
  <2>1. c(1).stk = Append(c(0).stk, "if") /\ c(1).prev = c(0).prev
    <3>1. checked(l)[1].stk = Append(checked(l)[1 - 1].stk, "if") /\ checked(l)[1].prev = checked(l)[1 - 1].prev
      BY <1>1, StackStep
    <3> QED
      BY <3>1
  <2>2. c(1).stk = <<"if">> /\ c(1).prev = "fi"
    BY <1>3, <2>1
  <2> QED
    BY <2>2
<1>5. ASSUME NEW m \in Nat, m + 1 <= i => c(m + 1).stk[1] = "if" /\ c(m + 1).prev = "fi", (m + 1) + 1 <= i
      PROVE  c((m + 1) + 1).stk[1] = "if" /\ c((m + 1) + 1).prev = "fi"
  <2> DEFINE k == (m + 1) + 1
             s == checked(l)[m + 1]
             r == checked(l)[k]
  <2>1. k \in 1 .. Len(l) /\ k - 1 = m + 1 /\ m + 1 \in 1 .. i /\ k \in 1 .. i /\ k # 1
    BY <1>1, <1>5
  <2>2. s.stk[1] = "if" /\ s.prev = "fi" /\ s.stk # <<>> /\ r.stk # <<>>
    BY <1>2, <1>5, <2>1
  <2>3. /\ s \in Checks /\ r \in Checks /\ s.valid /\ r.valid
        /\ l[k] \notin Keywords => r = s
        /\ l[k] \in {"if", "then", "else"} => r.stk = Append(s.stk, l[k]) /\ r.prev = s.prev
        /\ l[k] = "fi" => r = PopOne(PopOne(PopOne(s)))
    BY <2>1, StackStep
  <2> HIDE DEF k, s, r
  <2>4. CASE l[k] \notin Keywords
    BY <2>2, <2>3, <2>4 DEF k, r
  <2>5. CASE l[k] \in {"if", "then", "else"}
    <3>1. s.stk \in Seq({"if", "then", "else"})
      BY <2>3 DEF Checks
    <3>2. Append(s.stk, l[k])[1] = s.stk[1]
      BY <2>2, <3>1
    <3> QED
      BY <2>2, <2>3, <2>5, <3>2 DEF k, r
  <2>6. CASE l[k] = "fi"
    <3>1. /\ r.prev = "fi" /\ r.stk \in Seq({"if", "then", "else"})
          /\ Len(r.stk) = Len(s.stk) - 3
          /\ \A x \in 1 .. Len(s.stk) - 3 : r.stk[x] = s.stk[x]
      BY <2>2, <2>3, <2>6, PopsThree
    <3>2. Len(r.stk) \in Nat /\ Len(r.stk) # 0 /\ Len(s.stk) \in Nat
      <4>1. r.stk # <<>> /\ r.stk \in Seq({"if", "then", "else"}) /\ s.stk \in Seq({"if", "then", "else"})
        BY <2>2, <2>3, <3>1 DEF Checks
      <4> QED
        BY <4>1
    <3>3. 1 \in 1 .. Len(s.stk) - 3
      <4> DEFINE u == Len(r.stk)
                 v == Len(s.stk)
      <4>1. u \in Nat /\ u # 0 /\ v \in Nat /\ u = v - 3
        BY <3>1, <3>2
      <4> HIDE DEF u, v
      <4>2. 1 \in 1 .. v - 3
        BY <4>1
      <4> QED
        BY <4>2 DEF v
    <3>4. r.stk[1] = "if"
      BY <2>2, <3>1, <3>3
    <3> QED
      BY <3>1, <3>4 DEF k, r
  <2> QED
    BY <2>4, <2>5, <2>6 DEF Keywords
<1>6. \A m \in Nat : m \in S => m + 1 \in S
  BY <1>5
<1>7. \A m \in Nat : m \in S
  <2> HIDE DEF S
  <2> QED BY <1>4, <1>6, Induction
<1>8. ASSUME NEW k \in 1 .. i PROVE c(k).stk[1] = "if" /\ c(k).prev = "fi"
  <2>1. k - 1 \in Nat /\ (k - 1) + 1 = k
    BY <1>1
  <2>2. k - 1 \in S
    BY <1>7, <2>1
  <2> QED
    BY <2>1, <2>2
<1> QED
  BY <1>8

-----------------------------------------------------------------------------
(* The scan of execute (exe.c:217) counts what the check has on its stack. *)

\* What the check has on its stack after k tokens.
Stack(k) == checked(cmd_list)[k].stk

\* The ifs of a stack above the place h.
IfsAbove(s, h) == Cardinality({m \in h + 1 .. Len(s) : s[m] = "if"})

LEMMA BetweenStep ==
  ASSUME NEW t, NEW i \in Nat, NEW k \in Nat, i + 1 <= k
  PROVE  /\ Between(t, i, i + 1) = 0 /\ Between(t, i, k) \in Nat
         /\ cmd_list[k] = t => Between(t, i, k + 1) = Between(t, i, k) + 1
         /\ cmd_list[k] # t => Between(t, i, k + 1) = Between(t, i, k)
<1> DEFINE T(n) == {m \in i + 1 .. n - 1 : cmd_list[m] = t}
<1>1. T(i + 1) = {}
  OBVIOUS
<1>2. IsFiniteSet(T(k)) /\ Cardinality(T(k)) \in Nat
  <2>1. IsFiniteSet(i + 1 .. k - 1) /\ T(k) \subseteq i + 1 .. k - 1
    BY FS_Interval
  <2> QED
    BY <2>1, FS_Subset, FS_CardinalityType
<1>3. k \notin T(k)
  OBVIOUS
<1>4. cmd_list[k] = t => T(k + 1) = T(k) \cup {k}
  OBVIOUS
<1>5. cmd_list[k] # t => T(k + 1) = T(k)
  OBVIOUS
<1>6. Between(t, i, i + 1) = Cardinality(T(i + 1)) /\ Between(t, i, k) = Cardinality(T(k))
      /\ Between(t, i, k + 1) = Cardinality(T(k + 1))
  BY DEF Between
<1> HIDE DEF T
<1>7. cmd_list[k] = t => Cardinality(T(k + 1)) = Cardinality(T(k)) + 1
  BY <1>2, <1>3, <1>4, FS_AddElement
<1>8. Cardinality(T(i + 1)) = 0
  BY <1>1, FS_EmptySet
<1> QED
  BY <1>2, <1>5, <1>6, <1>7, <1>8

LEMMA CountStep ==
  ASSUME NEW i \in Nat, NEW k \in Nat, i + 1 <= k
  PROVE  /\ if_cnt(i, i + 1) = 0 /\ if_cnt(i, k) \in Int
         /\ cmd_list[k] = "if" => if_cnt(i, k + 1) = if_cnt(i, k) + 1
         /\ cmd_list[k] = "fi" => if_cnt(i, k + 1) = if_cnt(i, k) - 1
         /\ cmd_list[k] \notin {"if", "fi"} => if_cnt(i, k + 1) = if_cnt(i, k)
<1>1. /\ Between("if", i, i + 1) = 0 /\ Between("if", i, k) \in Nat
      /\ cmd_list[k] = "if" => Between("if", i, k + 1) = Between("if", i, k) + 1
      /\ cmd_list[k] # "if" => Between("if", i, k + 1) = Between("if", i, k)
  BY BetweenStep
<1>2. /\ Between("fi", i, i + 1) = 0 /\ Between("fi", i, k) \in Nat
      /\ cmd_list[k] = "fi" => Between("fi", i, k + 1) = Between("fi", i, k) + 1
      /\ cmd_list[k] # "fi" => Between("fi", i, k + 1) = Between("fi", i, k)
  BY BetweenStep
<1> QED
  BY <1>1, <1>2 DEF if_cnt

LEMMA IfsAboveStep ==
  ASSUME NEW s \in Seq({"if", "then", "else"}), NEW h \in Nat, h <= Len(s)
  PROVE  /\ IfsAbove(s, h) \in Nat
         /\ \A t \in {"if", "then", "else"} :
              IfsAbove(Append(s, t), h) = IF t = "if" THEN IfsAbove(s, h) + 1 ELSE IfsAbove(s, h)
<1> DEFINE n == Len(s)
           T == {m \in h + 1 .. n : s[m] = "if"}
<1>1. n \in Nat
  OBVIOUS
<1>2. IsFiniteSet(T) /\ Cardinality(T) \in Nat
  <2>1. IsFiniteSet(h + 1 .. n) /\ T \subseteq h + 1 .. n
    BY <1>1, FS_Interval
  <2> QED
    BY <2>1, FS_Subset, FS_CardinalityType
<1>3. ASSUME NEW t \in {"if", "then", "else"}
      PROVE  IfsAbove(Append(s, t), h) = IF t = "if" THEN IfsAbove(s, h) + 1 ELSE IfsAbove(s, h)
  <2> DEFINE r == Append(s, t)
             U == {m \in h + 1 .. n + 1 : r[m] = "if"}
  <2>1. Len(r) = n + 1 /\ r[n + 1] = t /\ \A m \in 1 .. n : r[m] = s[m]
    BY <1>1
  <2>2. IfsAbove(r, h) = Cardinality(U)
    BY <2>1 DEF IfsAbove
  <2> HIDE DEF r, n
  <2>3. \A m \in h + 1 .. n : m \in 1 .. n
    BY <1>1
  <2>4. t = "if" => U = T \cup {n + 1}
    BY <1>1, <2>1, <2>3 DEF n
  <2>5. t # "if" => U = T
    BY <1>1, <2>1, <2>3
  <2>6. n + 1 \notin T
    BY <1>1
  <2> HIDE DEF T, U
  <2>7. t = "if" => Cardinality(U) = Cardinality(T) + 1
    BY <1>2, <2>4, <2>6, FS_AddElement
  <2>8. IfsAbove(s, h) = Cardinality(T)
    BY DEF IfsAbove, T, n
  <2> QED
    BY <2>2, <2>5, <2>7, <2>8 DEF r
<1> QED
  BY <1>2, <1>3 DEF IfsAbove

LEMMA IfsAbovePop ==
  ASSUME NEW s \in Seq({"if", "then", "else"}), NEW r \in Seq({"if", "then", "else"}), NEW h \in Nat,
         Len(r) = Len(s) - 3, h <= Len(r), \A k \in 1 .. Len(s) - 3 : r[k] = s[k],
         s[Len(s) - 2] = "if", s[Len(s) - 1] = "then", s[Len(s)] = "else"
  PROVE  IfsAbove(s, h) = IfsAbove(r, h) + 1
<1> DEFINE n == Len(r)
           T == {m \in h + 1 .. n : r[m] = "if"}
           U == {m \in h + 1 .. Len(s) : s[m] = "if"}
<1>1. n \in Nat /\ Len(s) = n + 3 /\ s[n + 1] = "if" /\ s[n + 2] = "then" /\ s[n + 3] = "else" /\ h <= n
      /\ \A k \in 1 .. n : r[k] = s[k]
  <2>1. n \in Nat /\ Len(s) = n + 3
    OBVIOUS
  <2>2. Len(s) - 2 = n + 1 /\ Len(s) - 1 = n + 2 /\ Len(s) - 3 = n
    BY <2>1
  <2> QED
    BY <2>1, <2>2
<1>2. U = {m \in h + 1 .. n + 3 : s[m] = "if"}
  BY <1>1
<1> HIDE DEF n, U
<1>3. IsFiniteSet(T)
  <2>1. h + 1 \in Int /\ n \in Int
    BY <1>1
  <2>2. IsFiniteSet(h + 1 .. n)
    BY <2>1, FS_Interval
  <2>3. T \subseteq h + 1 .. n
    OBVIOUS
  <2> QED
    BY <2>2, <2>3, FS_Subset
<1>4. U = T \cup {n + 1}
  <2>1. \A m \in h + 1 .. n + 3 : m \in h + 1 .. n \/ m = n + 1 \/ m = n + 2 \/ m = n + 3
    BY <1>1
  <2>2. n + 1 \in h + 1 .. n + 3 /\ \A m \in h + 1 .. n : m \in h + 1 .. n + 3 /\ m \in 1 .. n
    BY <1>1
  <2> QED
    BY <1>1, <1>2, <2>1, <2>2
<1>5. n + 1 \notin T
  BY <1>1
<1> HIDE DEF T
<1>6. Cardinality(U) = Cardinality(T) + 1
  BY <1>3, <1>4, <1>5, FS_AddElement
<1> QED
  BY <1>6 DEF IfsAbove, U, T, n

LEMMA NothingAbove ==
  ASSUME NEW s, NEW h \in Nat, Len(s) \in Nat, \A m \in h + 1 .. Len(s) : s[m] # "if"
  PROVE  IfsAbove(s, h) = 0
<1>1. {m \in h + 1 .. Len(s) : s[m] = "if"} = {}
  OBVIOUS
<1> QED
  BY <1>1, FS_EmptySet DEF IfsAbove

(* What one token does to a stack that is in use: nothing, or it is pushed,*)
(* or it is a fi and takes an if with its then and its else.               *)
Unmoved(k) == Stack(k) = Stack(k - 1) /\ cmd_list[k] \notin Keywords
Pushed(k) == /\ Stack(k) = Append(Stack(k - 1), cmd_list[k])
             /\ cmd_list[k] \in {"if", "then", "else"}
Popped(k) == /\ cmd_list[k] = "fi" /\ Len(Stack(k)) = Len(Stack(k - 1)) - 3
             /\ Len(Stack(k - 1)) >= 3
             /\ Stack(k - 1)[Len(Stack(k - 1)) - 2] = "if"
             /\ Stack(k - 1)[Len(Stack(k - 1)) - 1] = "then"
             /\ Stack(k - 1)[Len(Stack(k - 1))] = "else"
             /\ \A m \in 1 .. Len(Stack(k - 1)) - 3 : Stack(k)[m] = Stack(k - 1)[m]

LEMMA OneToken ==
  ASSUME Checked(cmd_list), NEW k \in Nat \ {0}, k <= Len(cmd_list),
         k = 1 \/ (k - 1 \in 1 .. Len(cmd_list) /\ Reached(cmd_list, k - 1))
  PROVE  /\ Stack(k - 1) \in Seq({"if", "then", "else"}) /\ Stack(k) \in Seq({"if", "then", "else"})
         /\ Unmoved(k) \/ Pushed(k) \/ (k > 1 /\ Popped(k))
<1> DEFINE s == checked(cmd_list)[k - 1]
           r == checked(cmd_list)[k]
<1>1. k \in 1 .. Len(cmd_list)
  BY DEF Checked
<1>2. /\ s \in Checks /\ r \in Checks /\ s.valid /\ r.valid
      /\ cmd_list[k] \notin Keywords => r = s
      /\ cmd_list[k] \in {"if", "then", "else"} => r.stk = Append(s.stk, cmd_list[k])
      /\ cmd_list[k] = "fi" => r = PopOne(PopOne(PopOne(s)))
  BY <1>1, StackStep
<1>3. Stack(k) = r.stk /\ Stack(k - 1) = s.stk
  BY DEF Stack
<1>4. s.stk \in Seq({"if", "then", "else"}) /\ r.stk \in Seq({"if", "then", "else"})
  BY <1>2 DEF Checks
<1>5. cmd_list[1] = "if"
  BY DEF Checked
<1>6. k # 1 => s.stk # <<>> /\ s.stk[1] = "if" /\ s.prev = "fi"
  <2>1. ASSUME k # 1 PROVE s.stk # <<>> /\ s.stk[1] = "if" /\ s.prev = "fi"
    <3>1. k - 1 \in 1 .. Len(cmd_list) /\ Reached(cmd_list, k - 1)
      BY <2>1
    <3>2. k - 1 \in 1 .. k - 1
      BY <2>1
    <3>3. s.stk # <<>>
      BY <3>1, <3>2 DEF Reached
    <3>4. s.stk[1] = "if" /\ s.prev = "fi"
      BY <3>1, <3>2, BottomIsIf
    <3> QED
      BY <3>3, <3>4
  <2> QED
    BY <2>1
<1> HIDE DEF s, r
<1>7. CASE cmd_list[k] \notin Keywords
  BY <1>2, <1>3, <1>4, <1>7 DEF Unmoved
<1>8. CASE cmd_list[k] \in {"if", "then", "else"}
  BY <1>2, <1>3, <1>4, <1>8 DEF Pushed
<1>9. CASE cmd_list[k] = "fi"
  <2>1. k # 1
    BY <1>5, <1>9
  <2>2. r = PopOne(PopOne(PopOne(s)))
    BY <1>2, <1>9
  <2>3. /\ Len(s.stk) >= 3 /\ s.stk[Len(s.stk)] = "else" /\ s.stk[Len(s.stk) - 1] = "then"
        /\ s.stk[Len(s.stk) - 2] = "if"
        /\ Len(r.stk) = Len(s.stk) - 3
        /\ \A m \in 1 .. Len(s.stk) - 3 : r.stk[m] = s.stk[m]
    BY <1>2, <1>6, <2>1, <2>2, PopsThree
  <2>4. k > 1
    BY <2>1
  <2> QED
    BY <1>3, <1>4, <1>9, <2>3, <2>4 DEF Popped
<1> QED
  BY <1>7, <1>8, <1>9 DEF Keywords

\* The if at i has no fi up to k.
StillOpen(i, k) == /\ i \in 1 .. Len(cmd_list) /\ cmd_list[i] = "if" /\ Reached(cmd_list, i)
                   /\ k \in i .. Len(cmd_list) /\ \A m \in i .. k : Len(Stack(m)) >= Len(Stack(i))

\* The scan has found the keyword t of the if at i.
Met(t, i, k) == \E m \in i + 1 .. k : cmd_list[m] = t /\ if_cnt(i, m) = 0

\* What the check knows of the if at i is what the scan knows.
ScanAgrees(i, k) ==
  LET s == Stack(k)
      h == Len(Stack(i))
  IN  /\ s[h] = "if" /\ if_cnt(i, k + 1) = IfsAbove(s, h)
      /\ Len(s) > h /\ s[h + 1] = "then" => Met("then", i, k)
      /\ Len(s) > h + 1 /\ s[h + 1] = "then" /\ s[h + 2] = "else" => Met("else", i, k)
      /\ \A m \in i + 1 .. k : cmd_list[m] = "fi" => if_cnt(i, m) # 0

LEMMA OpenIsReached ==
  ASSUME Checked(cmd_list), NEW i, NEW k, StillOpen(i, k)
  PROVE  /\ k \in 1 .. Len(cmd_list) /\ Reached(cmd_list, k) /\ Len(cmd_list) \in Nat
         /\ Len(Stack(i)) \in Nat \ {0} /\ Len(Stack(k)) \in Nat /\ Len(Stack(k)) >= Len(Stack(i))
         /\ Stack(i) \in Seq({"if", "then", "else"}) /\ Stack(k) \in Seq({"if", "then", "else"})
<1>1. Len(cmd_list) \in Nat
  BY DEF Checked
<1>2. i \in 1 .. Len(cmd_list) /\ k \in i .. Len(cmd_list) /\ k \in 1 .. Len(cmd_list)
  BY <1>1 DEF StillOpen
<1>3. \A m \in 0 .. Len(cmd_list) : Stack(m) \in Seq({"if", "then", "else"}) /\ Len(Stack(m)) \in Nat
  <2>1. \A m \in 0 .. Len(cmd_list) : checked(cmd_list)[m] \in Checks
    BY <1>1, CheckedStep
  <2>2. ASSUME NEW m \in 0 .. Len(cmd_list) PROVE Stack(m) \in Seq({"if", "then", "else"})
    BY <2>1 DEF Stack, Checks
  <2> QED
    BY <2>2
<1>4. Stack(i) # <<>> /\ Len(Stack(i)) \in Nat \ {0}
  <2>1. i \in 1 .. i /\ i \in 0 .. Len(cmd_list)
    BY <1>1, <1>2
  <2>2. Stack(i) # <<>>
    BY <2>1 DEF StillOpen, Reached, Stack
  <2>3. Stack(i) \in Seq({"if", "then", "else"})
    BY <1>3, <2>1
  <2> QED
    BY <2>2, <2>3
<1>5. ASSUME NEW m \in 1 .. k PROVE Stack(m) # <<>>
  <2>1. CASE m \in 1 .. i
    BY <2>1 DEF StillOpen, Reached, Stack
  <2>2. CASE m \in i .. k
    <3>1. Len(Stack(m)) >= Len(Stack(i))
      BY <2>2 DEF StillOpen
    <3>2. Len(Stack(m)) # 0
      BY <1>2, <1>3, <1>4, <3>1
    <3> QED
      BY <3>2
  <2> QED
    BY <1>2, <2>1, <2>2
<1>6. Reached(cmd_list, k)
  BY <1>5 DEF Reached, Stack
<1>7. k \in i .. k /\ k \in 0 .. Len(cmd_list) /\ i \in 0 .. Len(cmd_list)
  BY <1>1, <1>2
<1>8. Len(Stack(k)) >= Len(Stack(i))
  BY <1>7 DEF StillOpen
<1> QED
  BY <1>1, <1>2, <1>3, <1>4, <1>6, <1>7, <1>8

LEMMA ScanStarts ==
  ASSUME Checked(cmd_list), NEW i, StillOpen(i, i)
  PROVE  ScanAgrees(i, i)
<1> DEFINE s == Stack(i)
           h == Len(s)
<1>1. /\ i \in 1 .. Len(cmd_list) /\ Reached(cmd_list, i) /\ Len(cmd_list) \in Nat
      /\ h \in Nat \ {0} /\ cmd_list[i] = "if"
  BY OpenIsReached DEF StillOpen
<1>2. i = 1 \/ (i - 1 \in 1 .. Len(cmd_list) /\ Reached(cmd_list, i - 1))
  <2>1. ASSUME i # 1 PROVE i - 1 \in 1 .. Len(cmd_list) /\ \A k \in 1 .. i - 1 : k \in 1 .. i
    BY <1>1, <2>1
  <2> QED
    BY <1>1, <2>1 DEF Reached
<1>3. Stack(i - 1) \in Seq({"if", "then", "else"}) /\ s = Append(Stack(i - 1), "if")
  <2>1. /\ Stack(i - 1) \in Seq({"if", "then", "else"})
        /\ Unmoved(i) \/ Pushed(i) \/ (i > 1 /\ Popped(i))
    BY <1>1, <1>2, OneToken
  <2> QED
    BY <1>1, <2>1 DEF Unmoved, Pushed, Popped, Keywords
<1>4. s[h] = "if"
  BY <1>3
<1>5. if_cnt(i, i + 1) = 0
  BY <1>1, CountStep
<1>6. IfsAbove(s, h) = 0
  BY <1>1, NothingAbove
<1> HIDE DEF s
<1> QED
  BY <1>1, <1>4, <1>5, <1>6 DEF ScanAgrees, s

LEMMA FoundKept ==
  ASSUME NEW t, NEW i \in Nat, NEW k \in Nat, Met(t, i, k)
  PROVE  Met(t, i, k + 1)
BY DEF Met

LEMMA ScanGoesOn ==
  ASSUME Checked(cmd_list), NEW i, NEW k, StillOpen(i, k), ScanAgrees(i, k),
         NEW n, n = k + 1, StillOpen(i, n)
  PROVE  ScanAgrees(i, n)
<1> DEFINE s == Stack(k)
           r == Stack(n)
           h == Len(Stack(i))
           t == cmd_list[n]
           V == {"if", "then", "else"}
<1>1. /\ k \in 1 .. Len(cmd_list) /\ Reached(cmd_list, k) /\ Len(cmd_list) \in Nat
      /\ h \in Nat \ {0} /\ Len(s) \in Nat /\ Len(s) >= h /\ s \in Seq(V)
  BY OpenIsReached
<1>2. n \in 1 .. Len(cmd_list) /\ Len(r) \in Nat /\ Len(r) >= h /\ r \in Seq(V)
  BY OpenIsReached
<1>3. i \in 1 .. Len(cmd_list) /\ i \in Nat /\ k \in Nat /\ n \in Nat \ {0} /\ i <= k /\ n - 1 = k /\ n <= Len(cmd_list)
  BY <1>1, <1>2 DEF StillOpen
<1>4. Unmoved(n) \/ Pushed(n) \/ Popped(n)
  <2>1. n - 1 \in 1 .. Len(cmd_list) /\ Reached(cmd_list, n - 1)
    BY <1>1, <1>3
  <2> QED
    BY <1>3, <2>1, OneToken
<1>5. /\ s[h] = "if" /\ if_cnt(i, n) = IfsAbove(s, h)
      /\ Len(s) > h /\ s[h + 1] = "then" => Met("then", i, k)
      /\ Len(s) > h + 1 /\ s[h + 1] = "then" /\ s[h + 2] = "else" => Met("else", i, k)
      /\ \A m \in i + 1 .. k : cmd_list[m] = "fi" => if_cnt(i, m) # 0
  BY DEF ScanAgrees
<1>6. /\ t = "if" => if_cnt(i, n + 1) = if_cnt(i, n) + 1
      /\ t = "fi" => if_cnt(i, n + 1) = if_cnt(i, n) - 1
      /\ t \notin {"if", "fi"} => if_cnt(i, n + 1) = if_cnt(i, n)
  <2>1. i + 1 <= n
    BY <1>3
  <2> QED
    BY <1>3, <2>1, CountStep
<1>7. IfsAbove(s, h) \in Nat
  BY <1>1, IfsAboveStep
<1>8. \A u : Met(u, i, k) => Met(u, i, n)
  BY <1>3, FoundKept
<1>9. ASSUME t = "fi" => if_cnt(i, n) # 0 PROVE \A m \in i + 1 .. n : cmd_list[m] = "fi" => if_cnt(i, m) # 0
  <2>1. \A m \in i + 1 .. n : m \in i + 1 .. k \/ m = n
    BY <1>3
  <2> QED
    BY <1>5, <1>9, <2>1
<1>10. ASSUME NEW u, t = u, if_cnt(i, n) = 0 PROVE Met(u, i, n)
  <2>1. n \in i + 1 .. n
    BY <1>3
  <2> QED
    BY <1>10, <2>1 DEF Met
<1> DEFINE Goal == /\ r[h] = "if" /\ if_cnt(i, n + 1) = IfsAbove(r, h)
                   /\ Len(r) > h /\ r[h + 1] = "then" => Met("then", i, n)
                   /\ Len(r) > h + 1 /\ r[h + 1] = "then" /\ r[h + 2] = "else" => Met("else", i, n)
                   /\ t = "fi" => if_cnt(i, n) # 0
<1>11. Unmoved(n) => r = s /\ t \notin Keywords
  BY <1>3 DEF Unmoved
<1>12. Pushed(n) => r = Append(s, t) /\ t \in V
  BY <1>3 DEF Pushed
<1>13. Popped(n) => /\ t = "fi" /\ Len(r) = Len(s) - 3 /\ Len(s) >= 3
                    /\ s[Len(s) - 2] = "if" /\ s[Len(s) - 1] = "then" /\ s[Len(s)] = "else"
                    /\ \A m \in 1 .. Len(s) - 3 : r[m] = s[m]
  BY <1>3 DEF Popped
<1> HIDE DEF s, r, h, t
<1>14. ASSUME Unmoved(n) PROVE Goal
  BY <1>5, <1>6, <1>8, <1>11, <1>14 DEF Keywords
<1>15. ASSUME Pushed(n) PROVE Goal
  <2>1. r = Append(s, t) /\ t \in V
    BY <1>12, <1>15
  <2>2. Len(r) = Len(s) + 1 /\ r[Len(s) + 1] = t /\ \A m \in 1 .. Len(s) : r[m] = s[m]
    BY <1>1, <2>1
  <2>3. IfsAbove(r, h) = IF t = "if" THEN IfsAbove(s, h) + 1 ELSE IfsAbove(s, h)
    <3>1. \A u \in V : IfsAbove(Append(s, u), h) = IF u = "if" THEN IfsAbove(s, h) + 1 ELSE IfsAbove(s, h)
      BY <1>1, IfsAboveStep
    <3> QED
      BY <2>1, <3>1
  <2>4. if_cnt(i, n + 1) = IfsAbove(r, h)
    BY <1>5, <1>6, <2>1, <2>3
  <2>5. h \in 1 .. Len(s) /\ r[h] = "if"
    BY <1>1, <1>5, <2>2
  <2>6. ASSUME Len(r) > h, r[h + 1] = "then" PROVE Met("then", i, n)
    <3>1. CASE Len(s) = h
      <4>1. IfsAbove(s, h) = 0
        BY <1>1, <3>1, NothingAbove
      <4>2. t = "then"
        BY <2>2, <2>6, <3>1
      <4> QED
        BY <1>5, <1>10, <4>1, <4>2
    <3>2. CASE Len(s) > h
      <4>1. h + 1 \in 1 .. Len(s)
        BY <1>1, <3>2
      <4> QED
        BY <1>5, <1>8, <2>2, <2>6, <3>2, <4>1
    <3> QED
      BY <1>1, <3>1, <3>2
  <2>7. ASSUME Len(r) > h + 1, r[h + 1] = "then", r[h + 2] = "else" PROVE Met("else", i, n)
    <3>1. CASE Len(s) = h + 1
      <4>1. h + 1 \in 1 .. Len(s) /\ s[h + 1] = "then"
        BY <1>1, <2>2, <2>7, <3>1
      <4>2. \A m \in h + 1 .. Len(s) : m = h + 1
        BY <1>1, <3>1
      <4>3. IfsAbove(s, h) = 0
        <5>1. \A m \in h + 1 .. Len(s) : s[m] # "if"
          BY <4>1, <4>2
        <5> QED
          BY <1>1, <5>1, NothingAbove
      <4>4. t = "else"
        <5>1. Len(s) + 1 = h + 2
          BY <1>1, <3>1
        <5> QED
          BY <2>2, <2>7, <5>1
      <4> QED
        BY <1>5, <1>10, <4>3, <4>4
    <3>2. CASE Len(s) > h + 1
      <4>1. h + 1 \in 1 .. Len(s) /\ h + 2 \in 1 .. Len(s) /\ Len(s) > h
        BY <1>1, <3>2
      <4> QED
        BY <1>5, <1>8, <2>2, <2>7, <3>2, <4>1
    <3> QED
      BY <1>1, <2>2, <2>7, <3>1, <3>2
  <2>8. t # "fi"
    BY <2>1
  <2> QED
    BY <2>4, <2>5, <2>6, <2>7, <2>8
<1>16. ASSUME Popped(n) PROVE Goal
  <2>1. /\ t = "fi" /\ Len(r) = Len(s) - 3 /\ Len(s) >= 3
        /\ s[Len(s) - 2] = "if" /\ s[Len(s) - 1] = "then" /\ s[Len(s)] = "else"
        /\ \A m \in 1 .. Len(s) - 3 : r[m] = s[m]
    BY <1>13, <1>16
  <2>2. Len(r) \in Nat /\ Len(r) >= h
    BY <1>2 DEF r, h
  <2>3. r \in Seq(V) /\ h \in Nat
    BY <1>1, <1>2 DEF r, h
  <2>4. IfsAbove(s, h) = IfsAbove(r, h) + 1 /\ IfsAbove(r, h) \in Nat
    <3>1. IfsAbove(s, h) = IfsAbove(r, h) + 1
      BY <1>1, <2>1, <2>2, <2>3, IfsAbovePop
    <3>2. IfsAbove(r, h) \in Nat
      BY <2>2, <2>3, IfsAboveStep
    <3> QED
      BY <3>1, <3>2
  <2>5. if_cnt(i, n) # 0 /\ if_cnt(i, n + 1) = IfsAbove(r, h)
    BY <1>5, <1>6, <2>1, <2>4
  <2>6. r[h] = "if" /\ (Len(r) > h => r[h + 1] = s[h + 1] /\ Len(s) > h)
        /\ (Len(r) > h + 1 => r[h + 2] = s[h + 2] /\ r[h + 1] = s[h + 1] /\ Len(s) > h + 1)
    <3> DEFINE u == Len(r)
               v == Len(s)
    <3>1. u \in Nat /\ v \in Nat /\ u = v - 3 /\ h \in Nat \ {0} /\ u >= h
      BY <1>1, <2>1, <2>2
    <3>2. \A m \in 1 .. v - 3 : r[m] = s[m]
      BY <2>1
    <3> HIDE DEF u, v
    <3>3. h \in 1 .. v - 3 /\ (u > h => h + 1 \in 1 .. v - 3 /\ v > h)
          /\ (u > h + 1 => h + 1 \in 1 .. v - 3 /\ h + 2 \in 1 .. v - 3 /\ v > h + 1)
      BY <3>1
    <3>4. r[h] = "if" /\ (u > h => r[h + 1] = s[h + 1] /\ v > h)
          /\ (u > h + 1 => r[h + 2] = s[h + 2] /\ r[h + 1] = s[h + 1] /\ v > h + 1)
      BY <1>5, <3>2, <3>3
    <3> QED
      BY <3>4 DEF u, v
  <2> QED
    BY <1>5, <1>8, <2>5, <2>6
<1>17. Goal
  BY <1>4, <1>14, <1>15, <1>16
<1> QED
  BY <1>9, <1>17 DEF ScanAgrees, r, h, t

\* The fi at j ends the if at i.
ClosedBy(i, j) == /\ j \in i + 1 .. Len(cmd_list) /\ StillOpen(i, j - 1)
                  /\ Len(Stack(j)) < Len(Stack(i))

LEMMA IfCloses ==
  ASSUME Checked(cmd_list), NEW i \in 1 .. Len(cmd_list), cmd_list[i] = "if", Reached(cmd_list, i)
  PROVE  \E j : ClosedBy(i, j) /\ \A k \in i .. j - 1 : StillOpen(i, k)
<1> DEFINE h == Len(Stack(i))
           n == Len(cmd_list)
           T == {m \in i .. n : Len(Stack(m)) < h}
<1>1. n \in Nat /\ i \in 1 .. n
  BY DEF Checked
<1>2. \A m \in 0 .. n : Stack(m) \in Seq({"if", "then", "else"})
  BY <1>1, CheckedStep DEF Stack, Checks
<1>3. StillOpen(i, i)
  <2>1. i \in i .. n /\ Len(Stack(i)) >= Len(Stack(i)) /\ \A m \in i .. i : m = i
    BY <1>1, <1>2
  <2> QED
    BY <1>1, <2>1 DEF StillOpen
<1>4. h \in Nat \ {0}
  BY <1>3, OpenIsReached
<1>5. Len(Stack(n)) = 0
  BY DEF Checked, validateIfElseCondition, Stack
<1> HIDE DEF h
<1>6. n \in T
  BY <1>1, <1>4, <1>5
<1>7. T \subseteq Nat
  BY <1>1
<1>8. PICK j \in T : \A y \in T : j <= y
  <2> HIDE DEF T
  <2> QED BY <1>6, <1>7, LeastNumber
<1>9. j \in i .. n /\ Len(Stack(j)) < h
  OBVIOUS
<1>10. j # i
  <2>1. ~ (h < h)
    BY <1>4
  <2> QED
    BY <1>9, <2>1 DEF h
<1>11. j \in i + 1 .. n
  BY <1>1, <1>9, <1>10
<1>12. ASSUME NEW m \in i .. j - 1 PROVE Len(Stack(m)) >= h
  <2>1. m \in i .. n /\ m \in 0 .. n /\ ~ (j <= m)
    BY <1>1, <1>11
  <2>2. ~ (Len(Stack(m)) < h)
    BY <1>8, <2>1
  <2>3. Len(Stack(m)) \in Nat
    BY <1>2, <2>1
  <2> QED
    BY <1>4, <2>2, <2>3
<1>13. ASSUME NEW k \in i .. j - 1 PROVE StillOpen(i, k)
  <2>1. k \in i .. n /\ \A m \in i .. k : m \in i .. j - 1
    BY <1>1, <1>11
  <2>2. \A m \in i .. k : Len(Stack(m)) >= Len(Stack(i))
    BY <1>12, <2>1 DEF h
  <2> QED
    BY <1>1, <2>1, <2>2 DEF StillOpen
<1>14. j - 1 \in i .. j - 1
  BY <1>1, <1>11
<1> QED
  BY <1>9, <1>11, <1>13, <1>14 DEF ClosedBy, h

LEMMA ScanAgreesToTheEnd ==
  ASSUME Checked(cmd_list), NEW i \in Nat, NEW j \in Nat, i < j, \A k \in i .. j - 1 : StillOpen(i, k)
  PROVE  ScanAgrees(i, j - 1)
<1> DEFINE S == {m \in Nat : i + m < j => ScanAgrees(i, i + m)}
<1>1. 0 \in S
  <2>1. StillOpen(i, i) /\ i + 0 = i
    OBVIOUS
  <2>2. ScanAgrees(i, i)
    BY <2>1, ScanStarts
  <2> QED
    BY <2>1, <2>2
<1>2. ASSUME NEW m \in Nat, i + m < j => ScanAgrees(i, i + m), i + (m + 1) < j
      PROVE  ScanAgrees(i, i + (m + 1))
  <2>1. i + m \in i .. j - 1 /\ i + (m + 1) \in i .. j - 1 /\ i + (m + 1) = (i + m) + 1 /\ i + m < j
    BY <1>2
  <2> DEFINE k == i + m
             n == i + (m + 1)
  <2>2. StillOpen(i, k) /\ StillOpen(i, n) /\ ScanAgrees(i, k) /\ n = k + 1
    BY <1>2, <2>1
  <2> HIDE DEF k, n
  <2>3. ScanAgrees(i, n)
    BY <2>2, ScanGoesOn
  <2> QED
    BY <2>3 DEF n
<1>3. \A m \in Nat : m \in S => m + 1 \in S
  BY <1>2
<1>4. \A m \in Nat : m \in S
  <2> HIDE DEF S
  <2> QED BY <1>1, <1>3, Induction
<1>5. j - 1 - i \in Nat /\ i + (j - 1 - i) = j - 1 /\ j - 1 < j
  OBVIOUS
<1>6. j - 1 - i \in S
  BY <1>4, <1>5
<1> QED
  BY <1>5, <1>6

(* When its fi comes the scan counts no other if, and has both branches.   *)
LEMMA AtTheFi ==
  ASSUME Checked(cmd_list), NEW i \in Nat, NEW j \in Nat, ClosedBy(i, j), ScanAgrees(i, j - 1)
  PROVE  /\ cmd_list[j] = "fi" /\ if_cnt(i, j) = 0
         /\ Met("then", i, j - 1) /\ Met("else", i, j - 1)
<1> DEFINE k == j - 1
           s == Stack(k)
           h == Len(Stack(i))
           d == Len(s)
<1>1. StillOpen(i, k) /\ j \in i + 1 .. Len(cmd_list) /\ Len(Stack(j)) < h
  BY DEF ClosedBy
<1>2. /\ k \in 1 .. Len(cmd_list) /\ Reached(cmd_list, k) /\ Len(cmd_list) \in Nat
      /\ h \in Nat \ {0} /\ d \in Nat /\ d >= h /\ s \in Seq({"if", "then", "else"})
  BY <1>1, OpenIsReached
<1>3. j \in Nat \ {0} /\ j <= Len(cmd_list) /\ k + 1 = j
  BY <1>1, <1>2
<1>4. Unmoved(j) \/ Pushed(j) \/ Popped(j)
  BY <1>2, <1>3, OneToken
<1>5. ~ Unmoved(j)
  BY <1>1, <1>2 DEF Unmoved
<1>6. ~ Pushed(j)
  <2>1. Len(Append(s, cmd_list[j])) = d + 1
    BY <1>2
  <2>2. Pushed(j) => Len(Stack(j)) = d + 1
    BY <2>1 DEF Pushed
  <2> QED
    BY <1>1, <1>2, <2>2
<1>7. Popped(j)
  BY <1>4, <1>5, <1>6
<1>8. /\ cmd_list[j] = "fi" /\ Len(Stack(j)) = d - 3 /\ d >= 3
      /\ s[d - 2] = "if" /\ s[d - 1] = "then" /\ s[d] = "else"
  BY <1>7 DEF Popped
<1>9. s[h] = "if"
  BY DEF ScanAgrees
<1> HIDE DEF d, s, h
<1>10. d - 3 < h
  BY <1>1, <1>8 DEF h
<1>11. d = h \/ d = h + 1 \/ d = h + 2
  BY <1>2, <1>10
<1>12. d # h
  BY <1>8, <1>9
<1>13. d # h + 1
  <2>1. d = h + 1 => d - 1 = h
    BY <1>2
  <2> QED
    BY <1>8, <1>9, <2>1
<1>14. d = h + 2 /\ s[h + 1] = "then" /\ s[h + 2] = "else"
  <2>1. d = h + 2
    BY <1>11, <1>12, <1>13
  <2>2. d - 1 = h + 1
    BY <1>2, <2>1
  <2> QED
    BY <1>8, <2>1, <2>2
<1>15. IfsAbove(s, h) = 0
  <2>1. \A m \in h + 1 .. Len(s) : s[m] # "if"
    <3>1. \A m \in h + 1 .. d : m = h + 1 \/ m = h + 2
      BY <1>2, <1>14
    <3>2. \A m \in h + 1 .. d : s[m] # "if"
      BY <1>14, <3>1
    <3> QED
      BY <3>2 DEF d
  <2>2. Len(s) \in Nat /\ h \in Nat
    BY <1>2 DEF d
  <2> QED
    BY <2>1, <2>2, NothingAbove
<1>16. d > h /\ d > h + 1
  BY <1>2, <1>14
<1>17. /\ if_cnt(i, k + 1) = IfsAbove(s, h)
       /\ d > h /\ s[h + 1] = "then" => Met("then", i, k)
       /\ d > h + 1 /\ s[h + 1] = "then" /\ s[h + 2] = "else" => Met("else", i, k)
  BY DEF ScanAgrees, s, h, d
<1> QED
  BY <1>3, <1>8, <1>14, <1>15, <1>16, <1>17

LEMMA IfIsComplete ==
  ASSUME ExecInv, Checked(cmd_list), NEW i \in 1 .. Len(cmd_list), cmd_list[i] = "if", Reached(cmd_list, i)
  PROVE  /\ then_locn(i) \in i + 1 .. Len(cmd_list) - 1 /\ Reached(cmd_list, then_locn(i))
         /\ else_locn(i) \in i + 1 .. Len(cmd_list) - 1 /\ Reached(cmd_list, else_locn(i))
<1>1. PICK j : ClosedBy(i, j) /\ \A k \in i .. j - 1 : StillOpen(i, k)
  BY IfCloses
<1>2. /\ Len(cmd_list) \in Nat /\ i \in Nat /\ j \in Nat /\ i < j /\ j <= Len(cmd_list)
      /\ j \in i + 1 .. Len(cmd_list)
  BY <1>1 DEF ClosedBy, Checked
<1>3. ScanAgrees(i, j - 1)
  BY <1>1, <1>2, ScanAgreesToTheEnd
<1>4. /\ cmd_list[j] = "fi" /\ if_cnt(i, j) = 0
      /\ Met("then", i, j - 1) /\ Met("else", i, j - 1)
  BY <1>1, <1>2, <1>3, AtTheFi
<1>5. j \in At0("fi", i, Len(cmd_list))
  BY <1>2, <1>4 DEF At0
<1>6. fi_locn(i) \in Nat /\ fi_locn(i) <= j /\ (fi_locn(i) # Len(cmd_list) + 1 => fi_locn(i) \in At0("fi", i, Len(cmd_list)))
  BY <1>2, <1>5, FiTyped
<1>7. fi_locn(i) = j
  <2>1. fi_locn(i) # Len(cmd_list) + 1
    BY <1>2, <1>6
  <2>2. fi_locn(i) \in i + 1 .. Len(cmd_list) /\ cmd_list[fi_locn(i)] = "fi" /\ if_cnt(i, fi_locn(i)) = 0
    BY <1>6, <2>1 DEF At0
  <2>3. \A m \in i + 1 .. j - 1 : cmd_list[m] = "fi" => if_cnt(i, m) # 0
    BY <1>3 DEF ScanAgrees
  <2>4. fi_locn(i) \notin i + 1 .. j - 1
    BY <2>2, <2>3
  <2> QED
    BY <1>2, <1>6, <2>2, <2>4
<1>8. ASSUME NEW t, Met(t, i, j - 1)
      PROVE  /\ Max(At0(t, i, fi_locn(i) - 1) \cup {0}) \in i + 1 .. Len(cmd_list) - 1
             /\ Reached(cmd_list, Max(At0(t, i, fi_locn(i) - 1) \cup {0}))
  <2> DEFINE S == At0(t, i, fi_locn(i) - 1)
             q == Max(S \cup {0})
  <2>1. S # {}
    BY <1>7, <1>8 DEF Met, At0
  <2>2. S \subseteq i + 1 .. fi_locn(i) - 1 /\ (S # {} => q \in S)
    BY <1>2, ArmTyped
  <2> HIDE DEF S, q
  <2>3. q \in i + 1 .. j - 1
    BY <1>7, <2>1, <2>2
  <2>4. q \in i .. j - 1 /\ q \in i + 1 .. Len(cmd_list) - 1
    BY <1>2, <2>3
  <2>5. Reached(cmd_list, q)
    BY <1>1, <2>4, OpenIsReached
  <2> QED
    BY <2>4, <2>5 DEF q, S
<1> QED
  BY <1>4, <1>8 DEF then_locn, else_locn

-----------------------------------------------------------------------------
(* What the check looks at: the tokens as they were typed, but for the one *)
(* it is at.                                                               *)

LEMMA KindIsToken ==
  ASSUME NEW t \in Texts, Kind(t) \in Keywords \cup {"|", ">"}
  PROVE  t = <<Kind(t)>>
<1> DEFINE k == Kind(t)
<1>1. k \notin {"", "&", "mixed", "cmd", "cd", "exit", "set"}
  BY DEF Keywords
<1>2. t # <<>>
  <2> SUFFICES ASSUME t = <<>> PROVE FALSE
    OBVIOUS
  <2>1. ~ (Len(t) = 1) /\ ~ (Len(t) > 1) /\ FirstWord(t) = t
    BY DEF FirstWord, ToSet
  <2>2. t # <<"=">>
    OBVIOUS
  <2>3. FirstWord(t) \notin {<<"cd">>, <<"exit">>, <<"set">>}
    BY <2>1
  <2>4. k = ""
    BY <2>1, <2>2, <2>3, Zenon DEF Kind
  <2> QED
    BY <1>1, <2>4
<1>3. FirstWord(t) \in {<<"cd">>, <<"exit">>, <<"set">>} => t[1] \in {"cd", "exit", "set"}
  BY <1>2, FirstWordPart
<1>4. Len(t) = 1 /\ t[1] \in Keywords \cup Operators /\ k = t[1]
  <2>1. k \in {t[1], "&", "mixed", "cmd"}
    BY <1>2, Zenon DEF Kind
  <2>2. (Len(t) = 1 /\ t[1] \in Keywords \cup Operators) \/ FirstWord(t) \in {<<"cd">>, <<"exit">>, <<"set">>}
    BY <1>1, <1>2, Zenon DEF Kind
  <2> QED
    BY <1>1, <1>3, <2>1, <2>2
<1>5. t \in Seq(Words)
  BY DEF Texts
<1> HIDE DEF k
<1>6. t = <<t[1]>>
  BY <1>4, <1>5
<1> QED
  BY <1>4, <1>6 DEF k

PassedStep(toks, x, k) ==
  IF k < 2 THEN {} ELSE IF k - 1 \notin x /\ Passes(toks, k - 1) THEN x \cup {k} ELSE x

LEMMA PassedIs ==
  ASSUME NEW toks, Len(toks) \in Nat
  PROVE  \E f : /\ passed(toks) = f[Len(toks)] /\ f[0] = {}
                /\ \A k \in 1 .. Len(toks) : f[k] = PassedStep(toks, f[k - 1], k)
<1> DEFINE n == Len(toks)
           X == SUBSET (1 .. n)
           F == [x \in X \X (1 .. n) |-> PassedStep(toks, x[1], x[2])]
           c == CHOOSE c : c = [k \in 0 .. Len(toks) |->
                      IF k < 2 THEN {}
                      ELSE IF k - 1 \notin c[k - 1] /\ Passes(toks, k - 1) THEN c[k - 1] \cup {k} ELSE c[k - 1]]
<1>1. passed(toks) = c[n]
  BY DEF passed
<1>2. \A x \in X, k \in 1 .. n : PassedStep(toks, x, k) \in X
  BY DEF PassedStep
<1>3. n \in Nat /\ {} \in X
  OBVIOUS
<1> HIDE DEF X
<1>4. F \in [X \X (1 .. n) -> X]
  BY <1>2
<1>5. \A x \in X, k \in 1 .. n : F[<<x, k>>] = PassedStep(toks, x, k)
  BY DEF F
<1> HIDE DEF F
<1>6. c = [k \in 0 .. n |-> IF k < 2 THEN {}
                          ELSE IF k - 1 \notin c[k - 1] /\ Passes(toks, k - 1) THEN c[k - 1] \cup {k} ELSE c[k - 1]]
  <2> HIDE DEF n
  <2>1. PICK f \in [0 .. n -> X] : Recurs(f, n, {}, F)
    BY <1>3, <1>4, RecursiveFunction
  <2>2. ASSUME NEW k \in 0 .. n PROVE f[k] = PassedStep(toks, f[k - 1], k)
    <3>1. f[k] = IF k = 0 THEN {} ELSE F[<<f[k - 1], k>>]
      BY <2>1 DEF Recurs
    <3>2. CASE k = 0
      <4>1. k < 2
        BY <3>2
      <4> QED
        BY <3>1, <3>2, <4>1 DEF PassedStep
    <3>3. CASE k # 0
      <4>1. k \in 1 .. n /\ k - 1 \in 0 .. n
        BY <1>3, <3>3
      <4> QED
        BY <1>5, <2>1, <3>1, <3>3, <4>1
    <3> QED
      BY <3>2, <3>3
  <2>3. f = [k \in 0 .. n |-> IF k < 2 THEN {}
                            ELSE IF k - 1 \notin f[k - 1] /\ Passes(toks, k - 1) THEN f[k - 1] \cup {k} ELSE f[k - 1]]
    BY <2>1, <2>2 DEF PassedStep
  <2> QED
    BY <2>3 DEF n
<1> HIDE DEF c, n
<1>7. c[0] = {}
  <2>1. 0 \in 0 .. n /\ 0 < 2
    BY <1>3
  <2> QED
    BY <1>6, <2>1
<1>8. ASSUME NEW k \in 1 .. n PROVE c[k] = PassedStep(toks, c[k - 1], k)
  <2>1. k \in 0 .. n
    BY <1>3
  <2> QED
    BY <1>6, <2>1 DEF PassedStep
<1> QED
  BY <1>1, <1>7, <1>8 DEF n

\* A token is passed over if the one before is looked at and passes over it.
LEMMA PassedSays ==
  ASSUME NEW toks, Len(toks) \in Nat
  PROVE  /\ passed(toks) \subseteq 2 .. Len(toks)
         /\ \A k \in 2 .. Len(toks) : k \in passed(toks) <=> k - 1 \notin passed(toks) /\ Passes(toks, k - 1)
<1> DEFINE n == Len(toks)
<1>1. PICK f : /\ passed(toks) = f[n] /\ f[0] = {}
               /\ \A k \in 1 .. n : f[k] = PassedStep(toks, f[k - 1], k)
  BY PassedIs
<1>2. n \in Nat
  OBVIOUS
<1> HIDE DEF n
<1> DEFINE S == {m \in Nat : m <= n => /\ f[m] \subseteq 2 .. m
                                        /\ \A k \in 2 .. m : k \in f[m] <=> k - 1 \notin f[m] /\ Passes(toks, k - 1)}
<1>3. 0 \in S
  BY <1>1, <1>2
<1>4. ASSUME NEW m \in Nat, m + 1 <= n, f[m] \subseteq 2 .. m,
             \A k \in 2 .. m : k \in f[m] <=> k - 1 \notin f[m] /\ Passes(toks, k - 1)
      PROVE  /\ f[m + 1] \subseteq 2 .. m + 1
             /\ \A k \in 2 .. m + 1 : k \in f[m + 1] <=> k - 1 \notin f[m + 1] /\ Passes(toks, k - 1)
  <2>1. m + 1 \in 1 .. n /\ (m + 1) - 1 = m
    BY <1>2, <1>4
  <2>2. f[m + 1] = IF m + 1 < 2 THEN {} ELSE IF m \notin f[m] /\ Passes(toks, m) THEN f[m] \cup {m + 1} ELSE f[m]
    BY <1>1, <2>1 DEF PassedStep
  <2>3. CASE m + 1 < 2
    BY <2>2, <2>3
  <2>4. CASE m + 1 >= 2
    <3>1. m + 1 \in f[m + 1] <=> m \notin f[m] /\ Passes(toks, m)
      BY <1>4, <2>2, <2>4
    <3>2. \A k \in 1 .. m : k \in f[m + 1] <=> k \in f[m]
      BY <2>2, <2>4
    <3>3. f[m + 1] \subseteq 2 .. m + 1
      BY <1>4, <2>2, <2>4
    <3>4. ASSUME NEW k \in 2 .. m + 1 PROVE k \in f[m + 1] <=> k - 1 \notin f[m + 1] /\ Passes(toks, k - 1)
      <4>1. k - 1 \in 1 .. m /\ (k = m + 1 \/ k \in 2 .. m)
        OBVIOUS
      <4>2. CASE k = m + 1
        <5>1. k - 1 = m /\ m \in 1 .. m
          BY <2>1, <2>4, <4>2
        <5> QED BY <3>1, <3>2, <4>2, <5>1
      <4>3. CASE k \in 2 .. m
        <5>1. k \in 1 .. m
          BY <4>3
        <5> QED BY <1>4, <3>2, <4>1, <4>3, <5>1
      <4> QED BY <4>1, <4>2, <4>3
    <3> QED
      BY <3>3, <3>4
  <2> QED
    BY <2>3, <2>4
<1>5. \A m \in Nat : m \in S => m + 1 \in S
  <2> SUFFICES ASSUME NEW m \in Nat, m \in S, m + 1 <= n PROVE m + 1 \in S
    OBVIOUS
  <2>1. m <= n
    BY <1>2
  <2> QED
    BY <1>4, <2>1
<1>6. n \in S
  <2> HIDE DEF S
  <2> QED BY <1>2, <1>3, <1>5, Induction
<1> QED
  BY <1>1, <1>2, <1>6 DEF n

LEMMA FirstIsLooked ==
  ASSUME alias_s \in Aliases, NEW toks \in Seq(Texts), toks # <<>>
  PROVE  1 \in Looked(toks) /\ replaced(toks)[1] = Substituted(toks[1])
<1>1. Len(toks) \in Nat /\ DOMAIN toks = 1 .. Len(toks) /\ 1 \in DOMAIN toks
  OBVIOUS
<1>2. 1 \notin passed(toks)
  <2>1. passed(toks) \subseteq 2 .. Len(toks)
    BY <1>1, PassedSays
  <2> QED
    BY <1>1, <2>1
<1>3. 1 \in Looked(toks)
  BY <1>1, <1>2 DEF Looked
<1> QED
  BY <1>1, <1>3 DEF replaced

\* The stack of valid.c depends on where the keywords are, and on nothing else.
LEMMA SameKeywords ==
  ASSUME NEW l \in Seq(Tokens), NEW m \in Seq(Tokens), Len(m) = Len(l), l[1] = "if",
         \A k \in 1 .. Len(l) : {m[k], l[k]} \cap Keywords # {} => m[k] = l[k]
  PROVE  validateIfElseCondition(m) <=> validateIfElseCondition(l)
<1> DEFINE n == Len(l)
           S == {j \in Nat : j <= n => checked(m)[j] = checked(l)[j]}
<1>1. n \in Nat
  OBVIOUS
<1>2. /\ checked(l)[0] = checked(m)[0]
      /\ \A k \in 1 .. n : checked(l)[k] = Validated(l, checked(l)[k - 1], k)
      /\ \A k \in 1 .. n : checked(m)[k] = Validated(m, checked(m)[k - 1], k)
  BY <1>1, CheckedStep
<1>3. 0 \in S
  BY <1>2
<1>4. ASSUME NEW j \in Nat, j + 1 <= n, checked(m)[j] = checked(l)[j]
      PROVE  checked(m)[j + 1] = checked(l)[j + 1]
  <2> DEFINE k == j + 1
             c == checked(l)[j]
  <2>1. k \in 1 .. n /\ k - 1 = j /\ (k = 1 \/ k - 1 \in 1 .. n)
    BY <1>1, <1>4
  <2>2. checked(m)[k] = Validated(m, c, k) /\ checked(l)[k] = Validated(l, c, k)
    BY <1>2, <1>4, <2>1
  <2>3. {m[k], l[k]} \cap Keywords # {} => m[k] = l[k]
    BY <2>1
  <2>4. k # 1 => (Opens(m[k - 1]) <=> Opens(l[k - 1]))
    BY <2>1 DEF Opens, Keywords
  <2> SUFFICES checked(m)[k] = checked(l)[k]
    OBVIOUS
  <2> HIDE DEF k, c
  <2>5. CASE m[k] \notin Keywords /\ l[k] \notin Keywords
    BY <2>2, <2>5 DEF Validated
  <2>6. CASE m[k] = l[k] /\ k # 1
    BY <2>2, <2>4, <2>6 DEF Validated
  <2>7. CASE m[k] = l[k] /\ k = 1 /\ l[k] = "if"
    BY <2>2, <2>7 DEF Validated, Keywords
  <2>8. m[k] = l[k] \/ (m[k] \notin Keywords /\ l[k] \notin Keywords)
    BY <2>3
  <2> QED
    BY <2>5, <2>6, <2>7, <2>8
<1>5. \A j \in Nat : j \in S => j + 1 \in S
  BY <1>1, <1>4
<1>6. n \in S
  <2> HIDE DEF S, n
  <2> QED BY <1>1, <1>3, <1>5, Induction
<1> QED
  BY <1>1, <1>6 DEF validateIfElseCondition

-----------------------------------------------------------------------------
(* Execute comes to no if but those the check knows.                       *)

\* The tokens as they were typed, but for the first.
typed(toks) == [toks EXCEPT ![1] = Substituted(toks[1])]

\* What is checked, and what is executed.
Tokenised(toks) ==
  /\ toks \in Seq(Texts) /\ toks # <<>> /\ Len(toks) \in Nat /\ 1 \in 1 .. Len(toks)
  /\ replaced(toks) \in Seq(Texts) /\ Len(cmd_list) = Len(toks)
  /\ \A k \in 1 .. Len(toks) : /\ toks[k] \in Texts /\ replaced(toks)[k] \in Texts
                               /\ replaced(toks)[k] = IF k \in Looked(toks) THEN Substituted(toks[k]) ELSE toks[k]
                               /\ cmd_list[k] = Kind(replaced(toks)[k])
  /\ 1 \in Looked(toks) /\ replaced(toks)[1] = Substituted(toks[1])

LEMMA TokensAre ==
  ASSUME LineInv, status # "typed", parseCmd(in_cmd) # <<>>
  PROVE  Tokenised(parseCmd(in_cmd))
<1> DEFINE toks == parseCmd(in_cmd)
<1>1. /\ in_cmd \in Lines /\ alias_s \in Aliases
      /\ cmd_list \in Seq(Tokens) /\ cmd_list = kinds(replaced(toks))
  BY DEF LineInv
<1>2. toks \in Seq(Texts) /\ toks # <<>>
  <2>1. in_cmd \in Texts
    BY <1>1, TextsAssumption, StringsAreTexts
  <2> QED
    BY <2>1, ParseTyped
<1> HIDE DEF toks
<1>3. Len(toks) \in Nat /\ DOMAIN toks = 1 .. Len(toks) /\ 1 \in 1 .. Len(toks) /\ \A k \in 1 .. Len(toks) : toks[k] \in Texts
  BY <1>2
<1>4. /\ 1 \in Looked(toks) /\ replaced(toks)[1] = Substituted(toks[1])
      /\ replaced(toks) \in Seq(Texts) /\ Len(replaced(toks)) = Len(toks)
  BY <1>1, <1>2, FirstIsLooked, ReplacedTyped
<1>5. \A k \in 1 .. Len(toks) : replaced(toks)[k] = IF k \in Looked(toks) THEN Substituted(toks[k]) ELSE toks[k]
  BY <1>3 DEF replaced
<1>6. \A k \in 1 .. Len(toks) : replaced(toks)[k] \in Texts
  BY <1>4
<1>7. Len(cmd_list) = Len(toks) /\ \A k \in 1 .. Len(toks) : cmd_list[k] = Kind(replaced(toks)[k])
  BY <1>1, <1>4, KindsTyped
<1> QED
  BY <1>2, <1>3, <1>4, <1>5, <1>6, <1>7 DEF Tokenised, toks

LEMMA TypedIfs ==
  ASSUME LineInv, NEW toks, toks = parseCmd(in_cmd), Tokenised(toks), NoneAliased(Keywords), cmd_list[1] = "if"
  PROVE  validateIfElseCondition(kinds(typed(toks))) <=> validateIfElseCondition(cmd_list)
<1> DEFINE l == typed(toks)
           m == kinds(l)
<1>1. cmd_list \in Seq(Tokens) /\ alias_s \in Aliases
  BY DEF LineInv
<1>2. /\ Len(toks) \in Nat /\ 1 \in 1 .. Len(toks) /\ Len(cmd_list) = Len(toks)
      /\ \A k \in 1 .. Len(toks) : toks[k] \in Texts /\ cmd_list[k] = Kind(replaced(toks)[k])
      /\ replaced(toks)[1] = Substituted(toks[1]) /\ toks \in Seq(Texts)
  BY DEF Tokenised
<1>3. l \in Seq(Texts) /\ Len(l) = Len(toks) /\ l[1] = Substituted(toks[1]) /\ \A k \in 2 .. Len(toks) : l[k] = toks[k]
  <2>1. Substituted(toks[1]) \in Texts
    BY <1>1, <1>2, SubstitutedTyped
  <2> DEFINE x == Substituted(toks[1])
  <2>2. l = [toks EXCEPT ![1] = x]
    BY DEF typed
  <2> HIDE DEF x, l
  <2> QED
    BY <1>2, <2>1, <2>2 DEF x
<1> HIDE DEF l
<1>4. m \in Seq(Tokens) /\ Len(m) = Len(cmd_list) /\ \A k \in 1 .. Len(toks) : m[k] = Kind(l[k])
  BY <1>2, <1>3, KindsTyped
<1> HIDE DEF m
<1>5. ASSUME NEW k \in 1 .. Len(cmd_list) PROVE {m[k], cmd_list[k]} \cap Keywords # {} => m[k] = cmd_list[k]
  <2>1. CASE k = 1
    BY <1>2, <1>3, <1>4, <2>1
  <2>2. CASE k \in 2 .. Len(cmd_list)
    <3>1. m[k] = Kind(toks[k])
      BY <1>2, <1>3, <1>4, <2>2
    <3> QED
      BY <2>2, <3>1 DEF NoneAliased
  <2> QED
    BY <1>2, <2>1, <2>2
<1> QED
  BY <1>1, <1>4, <1>5, SameKeywords DEF m, l

LEMMA AcceptedIsChecked ==
  ASSUME LineInv, IfsChecked, status # "typed", validateCommand(parseCmd(in_cmd)), cmd_list[1] = "if"
  PROVE  Checked(cmd_list)
<1> DEFINE toks == parseCmd(in_cmd)
           tok == Substituted(toks[1])
<1>1. Tokenised(toks) /\ validateCommand(toks)
  BY TokensAre DEF validateCommand
<1> HIDE DEF toks
<1>2. /\ 1 \in Looked(toks) /\ tok \in Texts /\ Kind(tok) = "if"
      /\ Len(toks) \in Nat /\ 1 \in 1 .. Len(toks) /\ Len(cmd_list) = Len(toks)
  BY <1>1 DEF Tokenised
<1>3. FirstWord(tok) = <<"if">>
  <2> HIDE DEF tok
  <2>1. tok = <<"if">>
    BY <1>2, KindIsToken DEF Keywords
  <2>2. Blank \notin ToSet(tok)
    <3>1. \A i \in DOMAIN tok : tok[i] = "if"
      BY <2>1
    <3>2. Blank # "if"
      BY DEF Blank
    <3> QED
      BY <3>1, <3>2 DEF ToSet
  <2> QED
    BY <2>1, <2>2 DEF FirstWord
<1>4. validateIfElseCondition(kinds(typed(toks)))
  BY <1>1, <1>2, <1>3 DEF validateCommand, Misplaced, typed
<1>5. NoneAliased(Keywords)
  <2>1. At(cmd_list, 1) = "if"
    BY <1>2 DEF At, LineInv
  <2> QED
    BY <2>1 DEF IfsChecked
<1>6. validateIfElseCondition(cmd_list)
  BY <1>1, <1>4, <1>5, TypedIfs DEF toks
<1>7. cmd_list # <<>> /\ cmd_list \in Seq(Tokens)
  BY <1>2 DEF LineInv
<1> QED
  BY <1>6, <1>7 DEF Checked

LEMMA RunningIsChecked ==
  ASSUME ExecInv, IfsChecked, status = "running", cmd_list[1] = "if"
  PROVE  Checked(cmd_list)
BY AcceptedIsChecked DEF ExecInv, LineInv

LEMMA NextReached ==
  ASSUME Checked(cmd_list), NEW a \in Nat, a + 1 \in 1 .. Len(cmd_list), a > 0,
         Reached(cmd_list, a), cmd_list[a + 1] = "if"
  PROVE  Reached(cmd_list, a + 1)
<1>1. Len(cmd_list) \in Nat
  BY DEF Checked
<1> DEFINE b == a + 1
<1>2. b \in Nat \ {0} /\ b <= Len(cmd_list) /\ b - 1 = a /\ a \in 1 .. Len(cmd_list)
      /\ \A k \in 1 .. b : k \in 1 .. a \/ k = b
  BY <1>1
<1>3. cmd_list[b] = "if" /\ Reached(cmd_list, b - 1)
  BY <1>2
<1> HIDE DEF b
<1>4. /\ Stack(b - 1) \in Seq({"if", "then", "else"})
      /\ Unmoved(b) \/ Pushed(b) \/ (b > 1 /\ Popped(b))
  BY <1>2, <1>3, OneToken
<1>5. Stack(b) = Append(Stack(b - 1), cmd_list[b])
  BY <1>3, <1>4 DEF Unmoved, Pushed, Popped, Keywords
<1>6. Stack(b) # <<>>
  <2>1. Len(Append(Stack(b - 1), cmd_list[b])) = Len(Stack(b - 1)) + 1 /\ Len(Stack(b - 1)) \in Nat
    BY <1>3, <1>4
  <2>2. Len(Stack(b)) # 0
    BY <1>5, <2>1
  <2> QED
    BY <2>2
<1>7. Reached(cmd_list, b)
  BY <1>2, <1>6 DEF Reached, Stack
<1> QED
  BY <1>7 DEF b

LEMMA FirstReached ==
  ASSUME Checked(cmd_list)
  PROVE  Reached(cmd_list, 1)
<1>1. 1 \in Nat \ {0} /\ 1 <= Len(cmd_list) /\ 1 - 1 = 0 /\ cmd_list[1] = "if"
  BY DEF Checked
<1>2. /\ Stack(1 - 1) \in Seq({"if", "then", "else"})
      /\ Unmoved(1) \/ Pushed(1) \/ (1 > 1 /\ Popped(1))
  BY <1>1, OneToken
<1>3. Stack(1) = Append(Stack(1 - 1), "if")
  BY <1>1, <1>2 DEF Unmoved, Pushed, Keywords
<1>4. Stack(1) # <<>>
  <2>1. Len(Append(Stack(1 - 1), "if")) = Len(Stack(1 - 1)) + 1 /\ Len(Stack(1 - 1)) \in Nat
    BY <1>2
  <2>2. Len(Stack(1)) # 0
    BY <1>3, <2>1
  <2> QED
    BY <2>2
<1>5. \A k \in 1 .. 1 : k = 1
  OBVIOUS
<1> QED
  BY <1>4, <1>5 DEF Reached, Stack

(* The condition of an if, where ExecuteIf sends its child.                *)
LEMMA ConditionInPlace ==
  ASSUME ExecInv, IfsChecked, status = "running", NEW a \in Nat,
         InPlace(a), cmd_list[a] = "if", a + 1 <= Len(cmd_list)
  PROVE  InPlace(a + 1)
<1>1. DOMAIN cmd_list = 1 .. Len(cmd_list) /\ Len(cmd_list) \in Nat
  BY InvFacts
<1>2. cmd_list[1] = "if" /\ Reached(cmd_list, a) /\ a \in 1 .. Len(cmd_list)
  BY <1>1 DEF InPlace
<1>3. Checked(cmd_list)
  BY <1>2, RunningIsChecked
<1>4. a + 1 \in 1 .. Len(cmd_list) /\ a > 0
  BY <1>1, <1>2
<1>5. cmd_list[a + 1] = "if" => Reached(cmd_list, a + 1)
  BY <1>2, <1>3, <1>4, NextReached
<1> QED
  BY <1>1, <1>2, <1>4, <1>5 DEF InPlace

(* The command behind a |, where ExecutePipe goes on: it is no if.         *)
LEMMA PipedInPlace ==
  ASSUME ExecInv, IfsChecked, status = "running", NEW a \in Nat,
         InPlace(a), cmd_list[a + 1] = "|", a + 2 <= Len(cmd_list)
  PROVE  InPlace(a + 2)
<1>1. DOMAIN cmd_list = 1 .. Len(cmd_list) /\ Len(cmd_list) \in Nat
  BY InvFacts
<1>2. a \in 1 .. Len(cmd_list)
  BY <1>1 DEF InPlace
<1> DEFINE b == a + 2
<1>3. b \in 1 .. Len(cmd_list) /\ b - 1 = a + 1 /\ b # 1 /\ b - 1 \in DOMAIN cmd_list
  BY <1>1, <1>2
<1>4. cmd_list[b - 1] = "|" /\ ~ Opens("|")
  BY <1>3 DEF Opens
<1> HIDE DEF b
<1>5. cmd_list[b] # "if"
  <2>1. CASE At(cmd_list, 1) = "if"
    <3>1. Checked(cmd_list)
      <4>1. cmd_list[1] = "if"
        BY <1>1, <1>3, <2>1 DEF At
      <4> QED
        BY <4>1, RunningIsChecked
    <3>2. cmd_list[b] = "if" => b = 1 \/ Opens(cmd_list[b - 1])
      BY <1>3, <3>1, StackStep
    <3> QED
      BY <1>3, <1>4, <3>2
  <2>2. CASE \A i \in DOMAIN cmd_list : cmd_list[i] = "if" => At(cmd_list, i - 1) # "|"
    BY <1>1, <1>3, <1>4, <2>2 DEF At
  <2> QED
    BY <2>1, <2>2 DEF IfsChecked
<1>6. InPlace(b)
  BY <1>1, <1>3, <1>5 DEF InPlace
<1> QED
  BY <1>6 DEF b

(* A branch of an if, where Read goes on.                                  *)
LEMMA BranchInPlace ==
  ASSUME ExecInv, IfsChecked, status = "running", NEW a \in Nat, InPlace(a), cmd_list[a] = "if"
  PROVE  /\ InPlace(then_locn(a) + 1) /\ then_locn(a) # 0
         /\ InPlace(else_locn(a) + 1) /\ else_locn(a) # 0
<1>1. DOMAIN cmd_list = 1 .. Len(cmd_list) /\ Len(cmd_list) \in Nat
  BY InvFacts
<1>2. cmd_list[1] = "if" /\ Reached(cmd_list, a) /\ a \in 1 .. Len(cmd_list)
  BY <1>1 DEF InPlace
<1>3. Checked(cmd_list)
  BY <1>2, RunningIsChecked
<1>4. ASSUME NEW q \in a + 1 .. Len(cmd_list) - 1, Reached(cmd_list, q)
      PROVE  InPlace(q + 1) /\ q # 0
  <2>1. q \in Nat /\ q > 0 /\ q + 1 \in 1 .. Len(cmd_list)
    BY <1>1, <1>2
  <2>2. cmd_list[q + 1] = "if" => Reached(cmd_list, q + 1)
    BY <1>3, <1>4, <2>1, NextReached
  <2> QED
    BY <1>1, <1>2, <2>1, <2>2 DEF InPlace
<1>5. /\ then_locn(a) \in a + 1 .. Len(cmd_list) - 1 /\ Reached(cmd_list, then_locn(a))
      /\ else_locn(a) \in a + 1 .. Len(cmd_list) - 1 /\ Reached(cmd_list, else_locn(a))
  BY <1>2, <1>3, IfIsComplete
<1> QED
  BY <1>4, <1>5

LEMMA PlacesKept ==
  ASSUME ExecInv, NEW p \in DOMAIN procs, UNCHANGED line,
         \A q \in DOMAIN procs' : MayBeAt(procs'[q].at)
  PROVE  PlacesInv'
<1>1. IfsChecked' = IfsChecked /\ cmd_list' = cmd_list
  BY LineKept DEF line
<1>2. \A q \in DOMAIN procs' : MayBeAt(procs'[q].at) => MayBeAt(procs[q].at)'
  BY <1>1 DEF MayBeAt, InPlace
<1> QED
  BY <1>2 DEF PlacesInv

LEMMA SamePlaces ==
  ASSUME ExecInv, PlacesInv, NEW p \in DOMAIN procs, UNCHANGED line,
         DOMAIN procs' = DOMAIN procs, \A q \in DOMAIN procs : procs'[q].at = procs[q].at
  PROVE  PlacesInv'
<1>1. \A q \in DOMAIN procs' : MayBeAt(procs'[q].at)
  BY DEF PlacesInv
<1> QED
  BY <1>1, PlacesKept

LEMMA SetPc ==
  ASSUME ExecInv, NEW p \in DOMAIN procs, NEW v, procs' = [procs EXCEPT ![p].pc = v]
  PROVE  DOMAIN procs' = DOMAIN procs /\ \A q \in DOMAIN procs : procs'[q].at = procs[q].at
<1>1. \A q \in DOMAIN procs : procs[q] \in Processes
  BY InvFacts
<1> QED
  BY <1>1 DEF Processes

LEMMA PlacesStep ==
  ASSUME ExecInv, PlacesInv, NEW p \in DOMAIN procs, Step(p) \/ Fails(p)
  PROVE  PlacesInv'
<1>1. /\ DOMAIN procs = 1 .. Len(procs) /\ Len(procs) \in Nat
      /\ \A q \in DOMAIN procs : procs[q] \in Processes
      /\ procs[p] \in Processes /\ procs[p].at \in Nat
      /\ Len(cmd_list) \in Nat
  BY InvFacts DEF Processes
<1>2. status = "running"
  BY Running
<1>3. \A q \in DOMAIN procs : MayBeAt(procs[q].at)
  BY DEF PlacesInv
<1>4. CASE ExecutePipe(p)
  <2> DEFINE r == [procs[p] EXCEPT !.at = procs[p].at + 2]
             s == Process(procs[p].at, "single", procs[p].conds)
  <2>1. procs' = Append([procs EXCEPT ![p] = r], s) /\ UNCHANGED line /\ Piped(p)
    BY <1>4 DEF ExecutePipe
  <2>2. r.at = procs[p].at + 2 /\ s.at = procs[p].at
    BY <1>1 DEF Processes, Process
  <2> HIDE DEF r, s
  <2>3. \A q \in DOMAIN procs' : procs'[q].at \in {procs[x].at : x \in DOMAIN procs} \cup {procs[p].at + 2}
    <3>1. procs \in Seq(Processes)
      BY DEF ExecInv, ProcsInv
    <3> DEFINE f == [procs EXCEPT ![p] = r]
    <3>2. f = [x \in 1 .. Len(procs) |-> IF x = p THEN r ELSE procs[x]]
      BY <1>1, <3>1
    <3>3. DOMAIN procs' = 1 .. Len(procs) + 1 /\ procs'[Len(procs) + 1] = s
          /\ \A x \in 1 .. Len(procs) : procs'[x] = f[x]
      BY <1>1, <2>1, <3>2
    <3>4. \A x \in 1 .. Len(procs) : procs'[x] = IF x = p THEN r ELSE procs[x]
      BY <3>2, <3>3
    <3>5. \A x \in DOMAIN procs' : x \in 1 .. Len(procs) \/ x = Len(procs) + 1
      BY <1>1, <3>3
    <3> QED
      BY <1>1, <2>2, <3>3, <3>4, <3>5
  <2>4. cmd_list[procs[p].at + 1] = "|" /\ procs[p].at + 2 <= Len(cmd_list)
    BY <1>1, <2>1 DEF Piped, Rest
  <2>5. MayBeAt(procs[p].at + 2)
    <3>1. IfsChecked => InPlace(procs[p].at + 2)
      BY <1>1, <1>2, <1>3, <2>4, PipedInPlace DEF MayBeAt
    <3>2. DOMAIN cmd_list = 1 .. Len(cmd_list)
      BY InvFacts
    <3> QED
      BY <1>1, <2>4, <3>1, <3>2 DEF MayBeAt
  <2>6. \A q \in DOMAIN procs' : MayBeAt(procs'[q].at)
    BY <1>3, <2>3, <2>5
  <2> QED
    BY <2>1, <2>6, PlacesKept
<1>5. CASE ExecuteIf(p)
  <2> DEFINE m == Len(data)
             r == Waiting(procs[p], Len(procs) + 1, m + 1)
             s == Process(procs[p].at + 1, "execute", Append(procs[p].conds, m + 1))
  <2>1. procs' = Append([procs EXCEPT ![p] = r], s) /\ UNCHANGED line /\ Nested(p)
    <3>1. Len(data') = m + 1
      BY <1>5 DEF ExecuteIf, ExecInv, ProcsInv
    <3> HIDE DEF m
    <3> QED
      BY <1>5, <3>1 DEF ExecuteIf, Waiting, m
  <2>2. r.at = procs[p].at /\ s.at = procs[p].at + 1
    BY <1>1 DEF Processes, Process, Waiting
  <2> HIDE DEF r, s
  <2>3. \A q \in DOMAIN procs' : procs'[q].at \in {procs[x].at : x \in DOMAIN procs} \cup {procs[p].at + 1}
    <3>1. procs \in Seq(Processes)
      BY DEF ExecInv, ProcsInv
    <3> DEFINE f == [procs EXCEPT ![p] = r]
    <3>2. f = [x \in 1 .. Len(procs) |-> IF x = p THEN r ELSE procs[x]]
      BY <1>1, <3>1
    <3>3. DOMAIN procs' = 1 .. Len(procs) + 1 /\ procs'[Len(procs) + 1] = s
          /\ \A x \in 1 .. Len(procs) : procs'[x] = f[x]
      BY <1>1, <2>1, <3>2
    <3>4. \A x \in 1 .. Len(procs) : procs'[x] = IF x = p THEN r ELSE procs[x]
      BY <3>2, <3>3
    <3>5. \A x \in DOMAIN procs' : x \in 1 .. Len(procs) \/ x = Len(procs) + 1
      BY <1>1, <3>3
    <3> QED
      BY <1>1, <2>2, <3>3, <3>4, <3>5
  <2>4. cmd_list[procs[p].at] = "if" /\ procs[p].at + 1 <= Len(cmd_list)
    BY <1>1, <2>1 DEF Nested, Rest, Token
  <2>5. MayBeAt(procs[p].at + 1)
    <3>1. IfsChecked => InPlace(procs[p].at + 1)
      BY <1>1, <1>2, <1>3, <2>4, ConditionInPlace DEF MayBeAt
    <3>2. DOMAIN cmd_list = 1 .. Len(cmd_list)
      BY InvFacts
    <3> QED
      BY <1>1, <2>4, <3>1, <3>2 DEF MayBeAt
  <2>6. \A q \in DOMAIN procs' : MayBeAt(procs'[q].at)
    BY <1>3, <2>3, <2>5
  <2> QED
    BY <2>1, <2>6, PlacesKept
<1>6. CASE Read(p)
  <2>1. UNCHANGED line /\ procs[p].pc = "read"
    BY <1>6 DEF Read
  <2>2. cmd_list[procs[p].at] = "if" /\ procs[p].mb \in DOMAIN data
    BY <2>1 DEF ExecInv, WaitInv, Token
  <2>3. IfsChecked => InPlace(Branch(p) + 1)
    BY <1>1, <1>2, <1>3, <2>2, BranchInPlace DEF Branch, MayBeAt
  <2>4. CASE Branch(p) < Len(cmd_list)
    <3>1. procs' = [procs EXCEPT ![p].pc = "execute", ![p].at = Branch(p) + 1]
      BY <1>6, <2>4 DEF Read
    <3>2. DOMAIN procs' = DOMAIN procs /\ \A q \in DOMAIN procs :
            procs'[q].at = IF q = p THEN Branch(p) + 1 ELSE procs[q].at
      BY <1>1, <3>1 DEF Processes
    <3>3. Branch(p) \in Nat
      BY <2>2, BranchTyped
    <3>4. MayBeAt(Branch(p) + 1)
      <4>1. DOMAIN cmd_list = 1 .. Len(cmd_list)
        BY InvFacts
      <4> QED
        BY <1>1, <2>3, <2>4, <3>3, <4>1 DEF MayBeAt
    <3>5. \A q \in DOMAIN procs' : MayBeAt(procs'[q].at)
      BY <1>3, <3>2, <3>4
    <3> QED
      BY <2>1, <3>5, PlacesKept
  <2>5. CASE ~ (Branch(p) < Len(cmd_list))
    <3>1. procs' = [procs EXCEPT ![p].pc = "returned"]
      BY <1>6, <2>5 DEF Read
    <3> QED
      BY <2>1, <3>1, SetPc, SamePlaces
  <2> QED
    BY <2>4, <2>5
<1>7. CASE ExecuteRedirect(p) \/ ExecuteSingle(p) \/ Ends(p) \/ Wait(p) \/ Fails(p)
  <2>1. PICK v : procs' = [procs EXCEPT ![p].pc = v]
    BY <1>7 DEF ExecuteRedirect, ExecuteSingle, Ends, Wait, Fails
  <2>2. UNCHANGED line
    BY <1>7 DEF ExecuteRedirect, ExecuteSingle, Ends, Wait, Fails
  <2> QED
    BY <2>1, <2>2, SetPc, SamePlaces
<1>8. CASE Return(p)
  <2>1. UNCHANGED line
    BY <1>8 DEF Return
  <2>2. DOMAIN procs' = DOMAIN procs /\ \A q \in DOMAIN procs : procs'[q].at = procs[q].at
    <3>1. CASE procs' = [procs EXCEPT ![p].pc = "returned"]
      BY <3>1, SetPc
    <3>2. CASE procs' = [procs EXCEPT ![p].conds = Front(procs[p].conds)]
      <4> DEFINE f == Front(procs[p].conds)
      <4>1. procs' = [procs EXCEPT ![p].conds = f]
        BY <3>2
      <4> HIDE DEF f
      <4> QED
        BY <1>1, <4>1 DEF Processes
    <3> QED
      BY <1>8, <3>1, <3>2 DEF Return
  <2> QED
    BY <2>1, <2>2, SamePlaces
<1> QED
  BY <1>4, <1>5, <1>6, <1>7, <1>8 DEF Step

LEMMA PlacesNext ==
  ASSUME ExecInv, PlacesInv, [Next]_vars
  PROVE  PlacesInv'
<1>1. CASE Parse \/ Refuse \/ NotFound \/ BuiltIn
  <2>1. procs = <<>> /\ procs' = procs
    BY <1>1 DEF Parse, Refuse, NotFound, BuiltIn, ExecInv, LineInv
  <2> QED
    BY <2>1 DEF PlacesInv
<1>2. CASE Accept
  <2> DEFINE toks == parseCmd(in_cmd)
  <2>1. /\ UNCHANGED <<in_cmd, cmd_list>> /\ procs' = <<Process(1, "execute", <<>>)>>
        /\ status # "typed" /\ validateCommand(toks) /\ LineInv
    BY <1>2 DEF Accept, ExecInv
  <2>2. DOMAIN procs' = {1} /\ procs'[1].at = 1
    BY <2>1 DEF Process
  <2>3. 1 \in DOMAIN cmd_list
    <3>1. DOMAIN cmd_list = DOMAIN toks
      BY <2>1 DEF LineInv, kinds, replaced
    <3>2. toks # <<>>
      BY <2>1 DEF validateCommand
    <3>3. toks \in Seq(Texts)
      <4>1. in_cmd \in Texts
        BY <2>1, TextsAssumption, StringsAreTexts DEF LineInv
      <4> QED
        BY <4>1, ParseTyped
    <3> HIDE DEF toks
    <3> QED
      BY <3>1, <3>2, <3>3
  <2>4. IfsChecked => (cmd_list[1] = "if" => Checked(cmd_list))
    BY <2>1, AcceptedIsChecked
  <2>5. MayBeAt(1)
    BY <2>3, <2>4, FirstReached DEF MayBeAt, InPlace
  <2>6. IfsChecked' = IfsChecked
    BY <2>1 DEF IfsChecked, NoneAliased
  <2>7. MayBeAt(1)' = MayBeAt(1)
    BY <2>1, <2>6, Zenon DEF MayBeAt, InPlace
  <2>8. \A q \in DOMAIN procs' : MayBeAt(procs[q].at)'
    BY <2>2, <2>5, <2>7 DEF MayBeAt, InPlace
  <2> QED
    BY <2>8 DEF PlacesInv
<1>3. ASSUME NEW p \in DOMAIN procs, Step(p) \/ Fails(p) PROVE PlacesInv'
  BY <1>3, PlacesStep
<1>4. CASE UNCHANGED vars
  <2>1. UNCHANGED <<in_cmd, cmd_list, procs>>
    BY <1>4 DEF vars, line
  <2>2. IfsChecked' = IfsChecked
    BY <2>1 DEF IfsChecked, NoneAliased
  <2> QED
    BY <2>1, <2>2 DEF PlacesInv, MayBeAt, InPlace
<1> QED
  BY <1>1, <1>2, <1>3, <1>4 DEF Next

LEMMA PlacesHold == Spec => [](ExecInv /\ PlacesInv)
<1>1. Init => PlacesInv
  BY DEF Init, PlacesInv
<1>2. ExecInv /\ PlacesInv /\ [Next]_vars => PlacesInv'
  BY PlacesNext
<1> QED
  BY <1>1, <1>2, ExecInvHolds, PTL DEF Spec

(* No if a process waits in lacks its then or its else (exe.c:284-290 goes *)
(* to the place after one of them), where valid.c:167 has seen the ifs of  *)
(* the line as they are executed.                                          *)
THEOREM BranchesAlwaysExist == Spec => []BranchesExist
<1>1. ExecInv /\ PlacesInv => BranchesExist
  <2> SUFFICES ASSUME ExecInv, PlacesInv, IfsChecked, NEW p \in DOMAIN procs, procs[p].pc \in {"wait", "read"}
               PROVE  then_locn(procs[p].at) # 0 /\ else_locn(procs[p].at) # 0
    BY DEF BranchesExist
  <2>1. cmd_list[procs[p].at] = "if"
    BY DEF ExecInv, WaitInv, Token
  <2>2. InPlace(procs[p].at) /\ status = "running"
    BY Running DEF PlacesInv, MayBeAt
  <2>3. procs[p].at \in Nat
    BY InvFacts DEF Processes
  <2> QED
    BY <2>1, <2>2, <2>3, BranchInPlace
<1> QED
  BY <1>1, PlacesHold, PTL

(* The token a process looks at is there, whatever is typed and aliased    *)
(* (the index of exe.c into its command list), its child and its pipes     *)
(* are, and only what exists ran.                                          *)
THEOREM ExecIsTyped == Spec => []TypeOK
<1>1. ExecInv /\ PlacesInv => TypeOK
  <2> SUFFICES ASSUME ExecInv, PlacesInv PROVE TypeOK
    OBVIOUS
  <2>1. /\ status \in {"typed", "set", "parsed", "refused", "not_found", "built_in", "running"}
        /\ cmd_list \in Seq(Tokens) /\ exists \subseteq DOMAIN cmd_list
        /\ data \in Seq(BOOLEAN) /\ ran \subseteq exists /\ faults \in 0 .. MAX_FAULTS
    BY DEF ExecInv, LineInv, ProcsInv
  <2>2. ASSUME NEW p \in DOMAIN procs
        PROVE  /\ procs[p].pc \in States /\ procs[p].at \in DOMAIN cmd_list
               /\ procs[p].child \in 0 .. Len(procs) /\ procs[p].mb \in 0 .. Len(data)
               /\ ToSet(procs[p].conds) \subseteq DOMAIN data
    <3>1. procs[p].pc \in States
      BY InvFacts DEF Processes
    <3>2. procs[p].at \in DOMAIN cmd_list
      BY DEF PlacesInv, MayBeAt
    <3>3. /\ procs[p].child \in 0 .. Len(procs) /\ procs[p].mb \in 0 .. Len(data)
          /\ \A k \in DOMAIN procs[p].conds : procs[p].conds[k] \in DOMAIN data
      BY DEF ExecInv, ProcsInv
    <3> QED
      BY <3>1, <3>2, <3>3 DEF ToSet
  <2> QED
    BY <2>1, <2>2 DEF TypeOK
<1> QED
  BY <1>1, PlacesHold, PTL
-----------------------------------------------------------------------------
(* What a line that was read has become.                                   *)

TokensInv == /\ status = "parsed" => DOMAIN cmd_list = DOMAIN parseCmd(in_cmd)
             /\ status = "set" => IsAliasCmd(cleanCmd(in_cmd))
             /\ status = "parsed" => ~ IsAliasCmd(cleanCmd(in_cmd))

LEMMA NextTokens ==
  ASSUME TokensInv, [Next]_vars
  PROVE  TokensInv'
<1>1. CASE Parse
  <2>1. in_cmd' = in_cmd /\ DOMAIN cmd_list' = DOMAIN parseCmd(in_cmd)
    BY <1>1 DEF Parse, kinds, replaced
  <2>2. /\ status' = "set" => IsAliasCmd(cleanCmd(in_cmd))
        /\ status' = "parsed" => ~ IsAliasCmd(cleanCmd(in_cmd))
    BY <1>1 DEF Parse
  <2> QED
    BY <2>1, <2>2 DEF TokensInv
<1>2. CASE Refuse \/ NotFound \/ BuiltIn \/ Accept
  <2>1. status' \in {"refused", "not_found", "built_in", "running"}
    BY <1>2 DEF Refuse, NotFound, BuiltIn, Accept
  <2> QED
    BY <2>1 DEF TokensInv
<1>3. CASE UNCHANGED line
  BY <1>3 DEF TokensInv, line
<1>4. ASSUME NEW p \in DOMAIN procs, Step(p) \/ Fails(p) PROVE UNCHANGED line
  BY <1>4 DEF Step, Fails, ExecutePipe, ExecuteRedirect, ExecuteIf, ExecuteSingle, Return, Ends, Wait, Read
<1> QED
  BY <1>1, <1>2, <1>3, <1>4 DEF Next, vars

LEMMA TokensHold == Spec => [](ExecInv /\ TokensInv)
<1>1. Init => TokensInv
  BY DEF Init, TokensInv
<1>2. TokensInv /\ [Next]_vars => TokensInv'
  BY NextTokens
<1> QED
  BY <1>1, <1>2, ExecInvHolds, PTL DEF Spec

\* Whatever is typed and however long: a line with its keywords and operators where they may
\* be is split at them and nowhere else, and of no line whose quotes are closed and hold no
\* keyword is a word or an operator lost or moved (parseCmd).
THEOREM LinesParseAsWritten == Spec => []ParsesAsWritten
<1>1. ASSUME ExecInv, TokensInv PROVE ParsesAsWritten
  <2> DEFINE t == Typed
             toks == parseCmd(in_cmd)
  <2> SUFFICES ASSUME status = "parsed"
               PROVE  /\ Plain(t) => NonEmpty(toks) = AsWritten(t)
                      /\ Balanced(t) => Told(toks) = NoBlank(in_cmd)
    BY DEF ParsesAsWritten, Told
  <2>1. in_cmd \in Texts /\ t \in Texts
    <3>1. in_cmd \in Lines
      BY <1>1 DEF ExecInv, LineInv
    <3>2. in_cmd \in Texts
      BY <3>1, TextsAssumption, StringsAreTexts
    <3> QED
      BY <3>2, CleanTyped DEF Typed
  <2>2. toks = scanned(t)
    BY <1>1 DEF TokensInv, Typed, parseCmd
  <2>3. NoBlank(t) = NoBlank(in_cmd)
    BY <2>1, CleanKeepsWords DEF Typed
  <2> HIDE DEF t, toks
  <2>4. Plain(t) => NonEmpty(toks) = AsWritten(t)
    BY <2>1, <2>2, PlainIsAsWritten
  <2>5. Balanced(t) => Told(toks) = NoBlank(in_cmd)
    BY <2>1, <2>2, <2>3, ScanLosesNothing
  <2> QED
    BY <2>4, <2>5
<1> QED
  BY <1>1, TokensHold, PTL

\* Whatever is typed and whatever the aliases are: each program is given the words of its
\* token, quoted blanks inside and quotes away (split of exe.c).
THEOREM ArgumentsAreTheWords == Spec => []ArgumentsAsTyped
<1>1. ASSUME ExecInv, TokensInv PROVE ArgumentsAsTyped
  <2> SUFFICES ASSUME status = "parsed", NEW k \in DOMAIN cmd_list
               PROVE  split(replaced(parseCmd(in_cmd))[k]) = Arguments(replaced(parseCmd(in_cmd))[k])
    BY DEF ArgumentsAsTyped
  <2> DEFINE toks == parseCmd(in_cmd)
  <2>1. in_cmd \in Lines /\ alias_s \in Aliases
    BY <1>1 DEF ExecInv, LineInv
  <2>2. toks \in Seq(Texts) /\ k \in DOMAIN toks
    <3>1. in_cmd \in Texts
      BY <2>1, TextsAssumption, StringsAreTexts
    <3> QED
      BY <1>1, <3>1, ParseTyped DEF TokensInv
  <2> HIDE DEF toks
  <2>3. replaced(toks)[k] \in Texts
    <3>1. replaced(toks) \in Seq(Texts) /\ Len(replaced(toks)) = Len(toks)
      BY <2>1, <2>2, ReplacedTyped
    <3> QED
      BY <2>2, <3>1
  <2> QED
    BY <2>3, SplitIsArguments DEF toks
<1> QED
  BY <1>1, TokensHold, PTL

-----------------------------------------------------------------------------
(* What write_alias saves is read back.                                    *)

\* The aliases survive the shell (write_alias of assoc_ar.c:117 and the next start): a name
\* and a value of any length, quoted or not, are read back as they were typed.
THEOREM AliasesAreReadBack == Spec => []AliasReadBack
<1>1. ASSUME ExecInv, TokensInv PROVE AliasReadBack
  <2> DEFINE t == Typed
             n == Len(t)
  <2> SUFFICES ASSUME status = "set", t[1] = "alias", NEW e \in DOMAIN t,
                      {i \in DOMAIN t : t[i] = "="} = {e}, 3 < e, e < n,
                      Quotes(t) = {} \/ (Quotes(t) = {e + 1, n} /\ e + 2 < n),
                      Last(t) # Quote \/ t[n - 1] # Blank
               PROVE  /\ Len(parseCmd(in_cmd)) = 3
                      /\ parseCmd(Saved(parseCmd(in_cmd)[2], parseCmd(in_cmd)[3])) = parseCmd(in_cmd)
    BY DEF AliasReadBack
  <2>1. in_cmd \in Texts /\ t \in Texts
    <3>1. in_cmd \in Lines
      BY <1>1 DEF ExecInv, LineInv
    <3>2. in_cmd \in Texts
      BY <3>1, TextsAssumption, StringsAreTexts
    <3> QED
      BY <3>2, CleanTyped DEF Typed
  <2>2. DOMAIN t = 1 .. n /\ n \in Nat /\ e \in 1 .. n /\ t # <<>> /\ t \in Seq(Words)
    BY <2>1 DEF Texts
  <2>3. t[n] # Blank
    BY <2>1, <2>2, CleanEnds DEF Typed
  <2>4. IsAliasCmd(t) /\ parseCmd(in_cmd) = aliasCmd(t)
    BY <1>1 DEF TokensInv, Typed, parseCmd
  <2>5. t[2] = Blank /\ "alias" \in Words
    BY <2>4 DEF IsAliasCmd, StartsWith, Words
  <2> HIDE DEF t, n
  <2> DEFINE x == SubSeq(t, 3, e - 1)
             y == SubSeq(t, e + 1, n)
  <2>6. /\ x \in Texts /\ y \in Texts /\ Unequal(x) /\ Unequal(y)
        /\ Len(x) = e - 3 /\ \A i \in 1 .. Len(x) : x[i] = t[i + 2]
        /\ Len(y) = n - e /\ \A i \in 1 .. Len(y) : y[i] = t[e + i]
        /\ t = AliasText("alias", x, y)
    BY <2>1, <2>5, IsAliasText DEF n
  <2> HIDE DEF x, y
  <2>7. DOMAIN x = 1 .. Len(x) /\ DOMAIN y = 1 .. Len(y) /\ x # <<>> /\ y # <<>>
    BY <2>2, <2>6 DEF Texts
  <2>8. parseCmd(in_cmd) = <<<<"alias">>, Dequoted(x), Dequoted(y)>>
    BY <2>4, <2>5, <2>6, <2>7, AliasTextSplit
  <2>9. \A i \in 1 .. n : i \notin Quotes(t) => t[i] # Quote
    BY <2>2 DEF Quotes
  <2>10. \A i \in DOMAIN x : x[i] # Quote
    <3>1. \A i \in 1 .. Len(x) : i + 2 \in 1 .. n /\ i + 2 < e
      BY <2>2, <2>6
    <3>2. \A i \in Quotes(t) : i > e
      BY <2>2
    <3> QED
      BY <2>2, <2>6, <2>7, <2>9, <3>1, <3>2
  <2>11. Dequoted(x) = x
    BY <2>6, <2>10, DequotedPlain
  <2> DEFINE v == Dequoted(y)
  <2>12. v \in Texts /\ v # <<>> /\ Unequal(v) /\ (\A i \in DOMAIN v : v[i] # Quote) /\ v[Len(v)] # Blank
    <3>1. CASE Quotes(t) = {}
      <4>1. \A i \in DOMAIN y : y[i] # Quote
        <5>1. \A i \in 1 .. Len(y) : e + i \in 1 .. n
          BY <2>2, <2>6
        <5> QED
          BY <2>6, <2>7, <2>9, <3>1, <5>1
      <4>2. v = y
        BY <2>6, <4>1, DequotedPlain
      <4>3. y[Len(y)] = t[n]
        <5>1. Len(y) \in 1 .. Len(y) /\ e + Len(y) = n
          BY <2>2, <2>6
        <5> QED
          BY <2>6, <5>1
      <4> QED
        BY <2>3, <2>6, <2>7, <4>1, <4>2, <4>3
    <3>2. CASE Quotes(t) = {e + 1, n} /\ e + 2 < n
      <4>1. y[1] = Quote /\ y[Len(y)] = Quote /\ Len(y) > 1
        <5>1. t[e + 1] = Quote /\ t[n] = Quote
          BY <3>2 DEF Quotes
        <5>2. 1 \in 1 .. Len(y) /\ Len(y) \in 1 .. Len(y) /\ e + Len(y) = n /\ Len(y) > 1
          BY <2>2, <2>6, <3>2
        <5> QED
          BY <2>6, <5>1, <5>2
      <4> DEFINE l == Len(y) - 1
                 z == SubSeq(y, 2, l)
      <4>2. v = z
        BY <2>6, <4>1, DequotedBoth
      <4>3. z \in Texts /\ Len(z) = n - e - 2 /\ \A i \in 1 .. Len(z) : z[i] = t[e + i + 1]
        <5>1. 2 \in Nat \ {0} /\ l \in 0 .. Len(y) /\ 2 <= l /\ y \in Seq(Words)
          BY <2>2, <2>6, <3>2 DEF Texts
        <5>2. z \in Seq(Words) /\ Len(z) = l - 2 + 1 /\ \A i \in 1 .. Len(z) : z[i] = y[2 + i - 1]
          <6> HIDE DEF l
          <6> QED BY <5>1, PartTyped
        <5> HIDE DEF z
        <5>3. Len(z) = n - e - 2
          BY <2>2, <2>6, <5>2
        <5>4. \A i \in 1 .. Len(z) : 2 + i - 1 \in 1 .. Len(y) /\ e + (2 + i - 1) = e + i + 1
          BY <2>2, <2>6, <5>3
        <5> QED
          BY <2>6, <5>2, <5>3, <5>4 DEF Texts
      <4> HIDE DEF z, l
      <4>4. DOMAIN z = 1 .. Len(z) /\ z # <<>> /\ Len(z) \in 1 .. Len(z)
        BY <2>2, <3>2, <4>3 DEF Texts
      <4>5. \A i \in 1 .. Len(z) : e + i + 1 \in 1 .. n /\ e + i + 1 # e /\ e + i + 1 # e + 1 /\ e + i + 1 # n
        BY <2>2, <4>3
      <4>6. \A i \in DOMAIN z : z[i] # Quote
        BY <2>9, <3>2, <4>3, <4>4, <4>5
      <4>7. Unequal(z)
        <5>1. \A i \in 1 .. n : i # e => t[i] # "="
          BY <2>2
        <5> QED
          BY <4>3, <4>4, <4>5, <5>1 DEF Unequal
      <4>8. z[Len(z)] # Blank
        <5>1. z[Len(z)] = t[n - 1]
          <6>1. e + Len(z) + 1 = n - 1
            BY <2>2, <4>3
          <6> QED
            BY <4>3, <4>4, <6>1
        <5>2. Last(t) = Quote
          <6>1. Last(t) = t[n] /\ n \in Quotes(t)
            BY <3>2 DEF Last, n
          <6> QED
            BY <6>1 DEF Quotes
        <5> QED
          BY <5>1, <5>2
      <4> QED
        BY <4>2, <4>3, <4>4, <4>6, <4>7, <4>8
    <3> QED
      BY <3>1, <3>2
  <2> HIDE DEF v
  <2>13. parseCmd(Saved(x, v)) = <<<<"alias">>, x, v>>
    BY <2>6, <2>7, <2>10, <2>12, SavedIsRead
  <2>14. parseCmd(in_cmd) = <<<<"alias">>, x, v>>
    BY <2>8, <2>11 DEF v
  <2> QED
    BY <2>13, <2>14
<1> QED
  BY <1>1, TokensHold, PTL
-----------------------------------------------------------------------------
(* What a line means, and the check of valid.c.                            *)

\* After at the place i, given what f says of the places behind it.
AfterBy(f, i) ==
  CASE At(cmd_list, i) = "if" -> Then(f[Then(f[Then(f[i + 1], "then")], "else")], "fi")
    [] Simple(i) /\ At(cmd_list, i + 1) = "|" -> IF Simple(i + 2) THEN f[i + 2] ELSE 0
    [] Simple(i) /\ At(cmd_list, i + 1) = ">" -> IF Simple(i + 2) THEN i + 3 ELSE 0
    [] Simple(i) /\ At(cmd_list, i + 1) \notin {"|", ">"} -> i + 1
    [] OTHER -> 0

\* It looks at places behind i only, and is one itself.
Behind(f, i) == f[i] = 0 \/ f[i] \in i + 1 .. Len(cmd_list) + 1

LEMMA PlaceIs ==
  ASSUME Len(cmd_list) \in Nat, DOMAIN cmd_list = 1 .. Len(cmd_list), NEW i \in Nat, At(cmd_list, i) # Blank
  PROVE  i \in 1 .. Len(cmd_list) /\ At(cmd_list, i) = cmd_list[i]
BY DEF At

LEMMA ThenIs ==
  ASSUME Len(cmd_list) \in Nat, DOMAIN cmd_list = 1 .. Len(cmd_list), NEW t \in {"then", "else", "fi"},
         NEW i \in Nat, NEW j, j = 0 \/ j \in i + 1 .. Len(cmd_list) + 1
  PROVE  \/ Then(j, t) = 0
         \/ j \in i + 1 .. Len(cmd_list) /\ cmd_list[j] = t /\ Then(j, t) = j + 1
<1>1. CASE At(cmd_list, j) # t
  BY <1>1 DEF Then
<1>2. CASE At(cmd_list, j) = t
  <2>1. t # Blank
    BY DEF Blank
  <2>2. j \in Nat
    OBVIOUS
  <2>3. j \in 1 .. Len(cmd_list) /\ cmd_list[j] = t
    BY <1>2, <2>1, <2>2, PlaceIs
  <2> QED
    BY <1>2, <2>3 DEF Then
<1> QED
  BY <1>1, <1>2

LEMMA SimpleIs ==
  ASSUME Len(cmd_list) \in Nat, DOMAIN cmd_list = 1 .. Len(cmd_list), NEW i \in Nat, Simple(i)
  PROVE  i \in 1 .. Len(cmd_list) /\ cmd_list[i] \in {"cmd", "cd", "exit"}
<1>1. At(cmd_list, i) # Blank
  BY DEF Simple, Blank
<1> QED
  BY <1>1, PlaceIs DEF Simple

\* The three arms of an if, from i on.
IfIs(f, i, e) ==
  \E j, k, m : /\ j = f[i + 1] /\ j \in i + 2 .. Len(cmd_list) /\ cmd_list[j] = "then"
               /\ k = f[j + 1] /\ k \in j + 2 .. Len(cmd_list) /\ cmd_list[k] = "else"
               /\ m = f[k + 1] /\ m \in k + 2 .. Len(cmd_list) /\ cmd_list[m] = "fi"
               /\ e = m + 1

\* The three commands of an if, one behind the other.
LEMMA IfParts ==
  ASSUME NEW n \in Nat, NEW i \in 1 .. n, NEW j \in i + 2 .. n, NEW k \in j + 2 .. n, NEW m \in k + 2 .. n
  PROVE  /\ i \in Nat /\ j \in Nat /\ k \in Nat /\ m \in Nat
         /\ i + 2 <= j /\ j + 2 <= k /\ k + 2 <= m /\ m <= n /\ j # 0 /\ k # 0 /\ m # 0
         /\ j \in 1 .. n /\ k \in 1 .. n /\ m \in 1 .. n
         /\ i + 1 \in i + 1 .. n /\ j + 1 \in i + 1 .. n /\ k + 1 \in i + 1 .. n /\ m + 1 \in i + 1 .. n + 1
<1>1. i \in Nat /\ j \in Nat /\ k \in Nat /\ m \in Nat /\ 1 <= i
  OBVIOUS
<1>2. i + 2 <= j /\ j + 2 <= k /\ k + 2 <= m /\ m <= n
  OBVIOUS
<1> QED
  BY <1>1, <1>2

LEMMA AfterIf ==
  ASSUME Len(cmd_list) \in Nat, DOMAIN cmd_list = 1 .. Len(cmd_list), NEW i \in 1 .. Len(cmd_list),
         cmd_list[i] = "if", NEW f, f[0] = 0, \A k \in i + 1 .. Len(cmd_list) + 1 : Behind(f, k)
  PROVE  AfterBy(f, i) = 0 \/ IfIs(f, i, AfterBy(f, i))
<1> DEFINE n == Len(cmd_list)
           a == Then(f[i + 1], "then")
           b == Then(f[a], "else")
<1>1. AfterBy(f, i) = Then(f[b], "fi")
  <2>1. At(cmd_list, i) = "if"
    BY DEF At
  <2> QED
    BY <2>1 DEF AfterBy, Simple
<1>2. Then(0, "then") = 0 /\ Then(0, "else") = 0 /\ Then(0, "fi") = 0
  <2>1. 0 \notin DOMAIN cmd_list
    OBVIOUS
  <2>2. At(cmd_list, 0) = Blank
    BY <2>1 DEF At
  <2> QED
    BY <2>2 DEF Then, Blank
<1>3. a = 0 \/ (f[i + 1] \in i + 2 .. n /\ cmd_list[f[i + 1]] = "then" /\ a = f[i + 1] + 1)
  <2>1. f[i + 1] = 0 \/ f[i + 1] \in (i + 1) + 1 .. n + 1
    BY DEF Behind
  <2>2. i + 1 \in Nat
    OBVIOUS
  <2> QED
    BY <2>1, <2>2, ThenIs
<1> HIDE DEF a
<1>4. b = 0 \/ (a # 0 /\ f[a] \in a + 1 .. n /\ cmd_list[f[a]] = "else" /\ b = f[a] + 1)
  <2>1. CASE a = 0
    BY <1>2, <2>1
  <2>2. CASE a # 0
    <3>1. a \in i + 1 .. n + 1 /\ a \in Nat
      BY <1>3, <2>2
    <3>2. f[a] = 0 \/ f[a] \in a + 1 .. n + 1
      BY <3>1 DEF Behind
    <3> QED
      BY <2>2, <3>1, <3>2, ThenIs
  <2> QED
    BY <2>1, <2>2
<1> HIDE DEF b
<1>5. Then(f[b], "fi") = 0 \/ (b # 0 /\ f[b] \in b + 1 .. n /\ cmd_list[f[b]] = "fi" /\ Then(f[b], "fi") = f[b] + 1)
  <2>1. CASE b = 0
    BY <1>2, <2>1
  <2>2. CASE b # 0
    <3>1. b \in i + 1 .. n + 1 /\ b \in Nat
      BY <1>3, <1>4, <2>2
    <3>2. f[b] = 0 \/ f[b] \in b + 1 .. n + 1
      BY <3>1 DEF Behind
    <3> QED
      BY <2>2, <3>1, <3>2, ThenIs
  <2> QED
    BY <2>1, <2>2
<1> QED
  <2> SUFFICES ASSUME AfterBy(f, i) # 0 PROVE IfIs(f, i, AfterBy(f, i))
    OBVIOUS
  <2>1. b # 0 /\ f[b] \in b + 1 .. n /\ cmd_list[f[b]] = "fi" /\ AfterBy(f, i) = f[b] + 1
    BY <1>1, <1>5
  <2>2. a # 0 /\ f[a] \in a + 1 .. n /\ cmd_list[f[a]] = "else" /\ b = f[a] + 1
    BY <1>4, <2>1
  <2>3. f[i + 1] \in i + 2 .. n /\ cmd_list[f[i + 1]] = "then" /\ a = f[i + 1] + 1
    BY <1>3, <2>2
  <2> DEFINE j == f[i + 1]
             k == f[j + 1]
             m == f[k + 1]
  <2>4. f[a] = k /\ f[b] = m
    BY <2>2, <2>3
  <2>5. /\ j \in i + 2 .. n /\ cmd_list[j] = "then"
        /\ k \in a + 1 .. n /\ cmd_list[k] = "else" /\ a = j + 1
        /\ m \in b + 1 .. n /\ cmd_list[m] = "fi" /\ b = k + 1
        /\ AfterBy(f, i) = m + 1
    BY <2>1, <2>2, <2>3, <2>4
  <2> HIDE DEF j, k, m
  <2>6. k \in j + 2 .. n /\ m \in k + 2 .. n
    BY <2>5
  <2> QED
    BY <2>5, <2>6, Zenon DEF IfIs, j, k, m

\* The other commands.
OneIs(f, i, e) ==
  /\ i \in 1 .. Len(cmd_list) /\ cmd_list[i] \in {"cmd", "cd", "exit"}
  /\ \/ e = i + 1
     \/ /\ i + 2 \in 1 .. Len(cmd_list) /\ cmd_list[i + 2] \in {"cmd", "cd", "exit"}
        /\ (cmd_list[i + 1] = ">" /\ e = i + 3) \/ (cmd_list[i + 1] = "|" /\ e = f[i + 2])

LEMMA AfterOne ==
  ASSUME Len(cmd_list) \in Nat, DOMAIN cmd_list = 1 .. Len(cmd_list), NEW i \in Nat,
         At(cmd_list, i) # "if", NEW f
  PROVE  AfterBy(f, i) = 0 \/ OneIs(f, i, AfterBy(f, i))
<1>1. CASE ~Simple(i)
  BY <1>1 DEF AfterBy
<1>2. CASE Simple(i)
  <2>1. i \in 1 .. Len(cmd_list) /\ cmd_list[i] \in {"cmd", "cd", "exit"}
    BY <1>2, SimpleIs
  <2>2. CASE At(cmd_list, i + 1) = "|"
    <3>1. AfterBy(f, i) = IF Simple(i + 2) THEN f[i + 2] ELSE 0
      BY <1>2, <2>2 DEF AfterBy
    <3>2. Simple(i + 2) => i + 2 \in 1 .. Len(cmd_list) /\ cmd_list[i + 2] \in {"cmd", "cd", "exit"}
      BY SimpleIs, i + 2 \in Nat
    <3>3. cmd_list[i + 1] = "|"
      BY <2>1, <2>2 DEF At, Blank
    <3> QED
      BY <2>1, <3>1, <3>2, <3>3 DEF OneIs
  <2>3. CASE At(cmd_list, i + 1) = ">"
    <3>1. AfterBy(f, i) = IF Simple(i + 2) THEN i + 3 ELSE 0
      BY <1>2, <2>3 DEF AfterBy
    <3>2. Simple(i + 2) => i + 2 \in 1 .. Len(cmd_list) /\ cmd_list[i + 2] \in {"cmd", "cd", "exit"}
      BY SimpleIs, i + 2 \in Nat
    <3>3. cmd_list[i + 1] = ">"
      BY <2>1, <2>3 DEF At, Blank
    <3> QED
      BY <2>1, <3>1, <3>2, <3>3 DEF OneIs
  <2>4. CASE At(cmd_list, i + 1) \notin {"|", ">"}
    <3>1. AfterBy(f, i) = i + 1
      BY <1>2, <2>4 DEF AfterBy
    <3> QED
      BY <2>1, <3>1 DEF OneIs
  <2> QED
    BY <2>2, <2>3, <2>4
<1> QED
  BY <1>1, <1>2


LEMMA AfterBehind ==
  ASSUME Len(cmd_list) \in Nat, DOMAIN cmd_list = 1 .. Len(cmd_list), NEW i \in 1 .. Len(cmd_list) + 1,
         NEW f, f[0] = 0, \A k \in i + 1 .. Len(cmd_list) + 1 : Behind(f, k)
  PROVE  AfterBy(f, i) = 0 \/ AfterBy(f, i) \in i + 1 .. Len(cmd_list) + 1
<1> DEFINE e == AfterBy(f, i)
<1>1. CASE At(cmd_list, i) = "if"
  <2>1. i \in 1 .. Len(cmd_list) /\ cmd_list[i] = "if"
    <3>1. At(cmd_list, i) # Blank
      BY <1>1 DEF Blank
    <3> QED
      BY <1>1, <3>1, PlaceIs
  <2>2. e = 0 \/ IfIs(f, i, e)
    BY <2>1, AfterIf
  <2> HIDE DEF e
  <2> QED
    BY <2>2 DEF IfIs, e
<1>2. CASE At(cmd_list, i) # "if"
  <2>1. e = 0 \/ OneIs(f, i, e)
    BY <1>2, AfterOne
  <2> HIDE DEF e
  <2>2. OneIs(f, i, e) => e = 0 \/ e \in i + 1 .. Len(cmd_list) + 1
    <3> SUFFICES ASSUME OneIs(f, i, e) PROVE e = 0 \/ e \in i + 1 .. Len(cmd_list) + 1
      OBVIOUS
    <3>1. i \in 1 .. Len(cmd_list)
      BY DEF OneIs
    <3>2. CASE e = i + 1
      BY <3>1, <3>2
    <3>3. CASE i + 2 \in 1 .. Len(cmd_list) /\ e = i + 3
      BY <3>3
    <3>4. CASE i + 2 \in 1 .. Len(cmd_list) /\ e = f[i + 2]
      <4>1. Behind(f, i + 2)
        BY <3>4
      <4> QED
        BY <3>4, <4>1 DEF Behind
    <3> QED
      BY <3>2, <3>3, <3>4 DEF OneIs
  <2> QED
    BY <2>1, <2>2 DEF e
<1> QED
  BY <1>1, <1>2

LEMMA SameAfter ==
  ASSUME Len(cmd_list) \in Nat, DOMAIN cmd_list = 1 .. Len(cmd_list), NEW i \in 1 .. Len(cmd_list) + 1,
         NEW f, f[0] = 0, \A k \in i + 1 .. Len(cmd_list) + 1 : Behind(f, k),
         NEW g, g[0] = 0, \A k \in i + 1 .. Len(cmd_list) + 1 : g[k] = f[k]
  PROVE  AfterBy(g, i) = AfterBy(f, i)
<1> DEFINE n == Len(cmd_list)
<1>1. CASE At(cmd_list, i) = "if"
  <2> DEFINE a == Then(f[i + 1], "then")
             b == Then(f[a], "else")
  <2>1. i \in 1 .. n /\ i + 1 \in i + 1 .. n + 1
    <3>1. At(cmd_list, i) # Blank
      BY <1>1 DEF Blank
    <3>2. i \in 1 .. n
      BY <3>1, PlaceIs
    <3> QED
      BY <3>2
  <2>2. g[i + 1] = f[i + 1] /\ Behind(f, i + 1)
    BY <2>1
  <2>3. a = 0 \/ a \in i + 1 .. n + 1
    <3>1. f[i + 1] = 0 \/ f[i + 1] \in (i + 1) + 1 .. n + 1
      BY <2>2 DEF Behind
    <3> HIDE DEF a
    <3>2. a = 0 \/ (f[i + 1] \in (i + 1) + 1 .. n /\ a = f[i + 1] + 1)
      <4>1. i + 1 \in Nat
        OBVIOUS
      <4> QED
        BY <3>1, <4>1, ThenIs DEF a
    <3> QED
      BY <3>2
  <2>4. g[a] = f[a]
    <3> HIDE DEF a
    <3> QED BY <2>3
  <2>5. b = 0 \/ b \in i + 1 .. n + 1
    <3> HIDE DEF a
    <3>1. f[a] = 0 \/ f[a] \in i + 1 .. n + 1
      BY <2>3 DEF Behind
    <3> HIDE DEF b
    <3>2. b = 0 \/ (f[a] \in i + 1 .. n /\ b = f[a] + 1)
      BY <3>1, ThenIs DEF b
    <3> QED
      BY <3>2
  <2>6. g[b] = f[b]
    <3> HIDE DEF a, b
    <3> QED BY <2>5
  <2>7. AfterBy(f, i) = Then(f[b], "fi")
    BY <1>1 DEF AfterBy, Simple
  <2>8. AfterBy(g, i) = Then(g[Then(g[Then(g[i + 1], "then")], "else")], "fi")
    BY <1>1 DEF AfterBy, Simple
  <2> HIDE DEF b
  <2>9. Then(g[Then(g[Then(g[i + 1], "then")], "else")], "fi") = Then(g[b], "fi")
    BY <2>2, <2>4 DEF b
  <2> QED
    BY <2>6, <2>7, <2>8, <2>9
<1>2. CASE At(cmd_list, i) # "if"
  <2>1. Simple(i + 2) => i + 2 \in i + 1 .. n + 1
    BY SimpleIs, i + 2 \in Nat
  <2>2. Simple(i + 2) => g[i + 2] = f[i + 2]
    BY <2>1
  <2> QED
    BY <1>2, <2>2 DEF AfterBy
<1> QED
  BY <1>1, <1>2

\* After is what its definition says.
AfterKnown(f) == /\ f[0] = 0
                 /\ \A i \in 1 .. Len(cmd_list) + 1 : f[i] = AfterBy(f, i) /\ Behind(f, i)

LEMMA AfterIs ==
  ASSUME Len(cmd_list) \in Nat, DOMAIN cmd_list = 1 .. Len(cmd_list)
  PROVE  AfterKnown(After)
<1> DEFINE n == Len(cmd_list)
           D == 0 .. n + 1
           Good(f, m) == /\ f[0] = 0 /\ \A i \in 1 .. n + 1 : Behind(f, i)
                         /\ \A i \in 1 .. n + 1 : i > n + 1 - m => f[i] = AfterBy(f, i)
           Defined(m) == \E f \in [D -> D] : Good(f, m)
           S == {m \in Nat : m <= n + 1 => Defined(m)}
<1>1. 0 \in S
  <2> DEFINE f == [i \in D |-> 0]
  <2>1. f \in [D -> D] /\ f[0] = 0 /\ \A i \in 1 .. n + 1 : f[i] = 0
    OBVIOUS
  <2> HIDE DEF f
  <2>2. Good(f, 0)
    BY <2>1 DEF Behind
  <2> QED
    BY <2>1, <2>2
<1>2. ASSUME NEW m \in Nat, m + 1 <= n + 1, NEW f \in [D -> D], Good(f, m)
      PROVE  \E g \in [D -> D] : Good(g, m + 1)
  <2> DEFINE j == n + 1 - m
             e == AfterBy(f, j)
             g == [f EXCEPT ![j] = e]
  <2>1. j \in 1 .. n + 1 /\ j \in D
    BY <1>2
  <2>2. e = 0 \/ e \in j + 1 .. n + 1
    BY <1>2, <2>1, AfterBehind
  <2>3. g \in [D -> D] /\ g[j] = e /\ \A k \in D : k # j => g[k] = f[k]
    <3> HIDE DEF e, j
    <3> QED BY <2>1, <2>2
  <2> HIDE DEF g
  <2>4. g[0] = 0
    BY <1>2, <2>1, <2>3
  <2>5. ASSUME NEW i \in 1 .. n + 1 PROVE Behind(g, i)
    <3>1. CASE i = j
      BY <2>2, <2>3, <3>1 DEF Behind
    <3>2. CASE i # j
      BY <1>2, <2>3, <3>2 DEF Behind
    <3> QED
      BY <3>1, <3>2
  <2>6. ASSUME NEW i \in 1 .. n + 1, i > n + 1 - (m + 1) PROVE g[i] = AfterBy(g, i)
    <3>1. i >= j
      BY <2>6
    <3>2. \A k \in i + 1 .. n + 1 : g[k] = f[k]
      BY <2>1, <2>3, <3>1
    <3>3. AfterBy(g, i) = AfterBy(f, i)
      <4>1. f[0] = 0 /\ \A k \in i + 1 .. n + 1 : Behind(f, k)
        BY <1>2
      <4> QED
        BY <2>4, <3>2, <4>1, SameAfter
    <3>4. CASE i = j
      BY <2>3, <3>3, <3>4
    <3>5. CASE i # j
      <4>1. g[i] = f[i] /\ i > n + 1 - m
        BY <2>3, <3>1, <3>5
      <4> QED
        BY <1>2, <3>3, <4>1
    <3> QED
      BY <3>4, <3>5
  <2>7. Good(g, m + 1)
    BY <2>4, <2>5, <2>6
  <2> QED
    BY <2>3, <2>7
<1>3. ASSUME NEW m \in Nat, m <= n + 1 => Defined(m), m + 1 <= n + 1 PROVE Defined(m + 1)
  <2>1. Defined(m)
    BY <1>3
  <2> HIDE DEF Good
  <2>2. PICK f \in [D -> D] : Good(f, m)
    BY <2>1
  <2> QED
    BY <1>2, <1>3, <2>2
<1>4. Defined(n + 1)
  <2> HIDE DEF Defined
  <2>1. \A m \in Nat : m \in S => m + 1 \in S
    BY <1>3
  <2>2. \A m \in Nat : m \in S
    <3> HIDE DEF S
    <3> QED BY <1>1, <2>1, Induction
  <2> QED
    BY <2>2
<1>5. PICK f \in [D -> D] : Good(f, n + 1)
  <2> HIDE DEF Good
  <2> QED BY <1>4
<1>6. AfterKnown(f)
  BY <1>5 DEF AfterKnown
<1>7. AfterBy(f, 0) = 0
  <2>1. 0 \notin DOMAIN cmd_list
    OBVIOUS
  <2>2. At(cmd_list, 0) = Blank
    BY <2>1 DEF At
  <2> QED
    BY <2>2 DEF AfterBy, Simple, Blank
<1>8. \A i \in D : f[i] = AfterBy(f, i)
  BY <1>6, <1>7 DEF AfterKnown
<1>9. f = [i \in D |-> AfterBy(f, i)]
  <2> HIDE DEF D, Good
  <2> QED BY <1>8
<1>10. \E h : h = [i \in D |-> AfterBy(h, i)]
  BY <1>9
<1>11. After = [i \in D |-> AfterBy(After, i)]
  BY <1>10 DEF After, AfterBy
<1> HIDE DEF Good, Defined, S
<1>12. After[0] = 0 /\ \A i \in 1 .. n + 1 : After[i] = AfterBy(After, i)
  <2>1. At(cmd_list, 0) = Blank
    BY DEF At
  <2>2. Blank # "if" /\ Blank \notin {"cmd", "cd", "exit"}
    BY DEF Blank
  <2>3. AfterBy(After, 0) = 0
    BY <2>1, <2>2 DEF AfterBy, Simple
  <2> HIDE DEF n
  <2>4. 0 \in D /\ 1 .. n + 1 \subseteq D
    BY DEF n
  <2> HIDE DEF D
  <2> QED
    BY <1>11, <2>3, <2>4
<1> DEFINE Q == {m \in Nat : m <= n + 1 => \A i \in 1 .. n + 1 : i > n + 1 - m => Behind(After, i)}
<1>13. 0 \in Q
  OBVIOUS
<1>14. ASSUME NEW m \in Nat, m + 1 <= n + 1, \A i \in 1 .. n + 1 : i > n + 1 - m => Behind(After, i),
              NEW i \in 1 .. n + 1, i > n + 1 - (m + 1)
       PROVE  Behind(After, i)
  <2>1. \A k \in i + 1 .. n + 1 : Behind(After, k)
    BY <1>14
  <2>2. AfterBy(After, i) = 0 \/ AfterBy(After, i) \in i + 1 .. n + 1
    BY <1>12, <2>1, AfterBehind
  <2> QED
    BY <1>12, <2>2 DEF Behind
<1>15. \A m \in Nat : m \in Q => m + 1 \in Q
  <2> SUFFICES ASSUME NEW m \in Nat, m \in Q, m + 1 <= n + 1, NEW i \in 1 .. n + 1, i > n + 1 - (m + 1)
               PROVE  Behind(After, i)
    OBVIOUS
  <2>1. \A k \in 1 .. n + 1 : k > n + 1 - m => Behind(After, k)
    OBVIOUS
  <2> QED
    BY <1>14, <2>1
<1>16. \A m \in Nat : m \in Q
  <2> HIDE DEF Q
  <2> QED BY <1>13, <1>15, Induction
<1>17. \A i \in 1 .. n + 1 : Behind(After, i)
  <2>1. n + 1 \in Q
    BY <1>16
  <2> QED
    BY <2>1
<1> QED
  BY <1>12, <1>17 DEF AfterKnown


\* What the check of valid.c makes of the token k, when it may stand there.
Fresh(s) == s \in Checks /\ s.valid /\ s.prev = "fi"
Pushing(s, t) == [s EXCEPT !.stk = Append(@, t)]

LEMMA PushIs ==
  ASSUME NEW s, Fresh(s), NEW t \in {"if", "then", "else"}
  PROVE  /\ Fresh(Pushing(s, t)) /\ Pushing(s, t).stk = Append(s.stk, t)
         /\ Len(Pushing(s, t).stk) = Len(s.stk) + 1
<1>1. s.stk \in Seq({"if", "then", "else"}) /\ Append(s.stk, t) \in Seq({"if", "then", "else"})
  BY DEF Fresh, Checks
<1>2. Len(Append(s.stk, t)) = Len(s.stk) + 1
  BY <1>1
<1> QED
  BY <1>1, <1>2 DEF Fresh, Checks, Pushing

LEMMA KeywordChecked ==
  ASSUME NEW s, Fresh(s), NEW i
  PROVE  /\ cmd_list[i] \notin Keywords => Validated(cmd_list, s, i) = s
         /\ cmd_list[i] = "if" /\ (i = 1 \/ Opens(cmd_list[i - 1])) => Validated(cmd_list, s, i) = Pushing(s, "if")
         /\ cmd_list[i] = "then" /\ ~Opens(cmd_list[i - 1]) => Validated(cmd_list, s, i) = Pushing(s, "then")
         /\ cmd_list[i] = "else" /\ ~Opens(cmd_list[i - 1]) => Validated(cmd_list, s, i) = Pushing(s, "else")
         /\ cmd_list[i] = "fi" /\ ~Opens(cmd_list[i - 1]) =>
              Validated(cmd_list, s, i) = PopOne(PopOne(PopOne(s)))
BY DEF Validated, Keywords, Pushing


LEMMA AppendFront ==
  ASSUME NEW V, NEW s \in Seq(V), NEW x \in V
  PROVE  Append(s, x) \in Seq(V) /\ Append(s, x) # <<>> /\ Last(Append(s, x)) = x /\ Front(Append(s, x)) = s
<1> DEFINE a == Append(s, x)
           f == Front(a)
<1>1. /\ a \in Seq(V) /\ Len(a) = Len(s) + 1 /\ Len(s) \in Nat /\ a[Len(s) + 1] = x
      /\ \A k \in 1 .. Len(s) : a[k] = s[k]
  OBVIOUS
<1>2. a # <<>>
  BY <1>1
<1> HIDE DEF a
<1>3. Last(a) = x /\ f \in Seq(V) /\ Len(f) = Len(s) /\ \A k \in 1 .. Len(s) : f[k] = s[k]
  <2>1. /\ Last(a) = a[Len(a)] /\ f \in Seq(V) /\ Len(f) = Len(a) - 1
        /\ \A k \in 1 .. Len(a) - 1 : f[k] = a[k]
    BY <1>1, <1>2, StackFacts
  <2> HIDE DEF f
  <2> QED
    BY <1>1, <2>1
<1> HIDE DEF f
<1>4. f = s
  BY <1>3
<1> QED
  BY <1>1, <1>2, <1>3, <1>4 DEF a, f

LEMMA PushedState ==
  ASSUME NEW k, NEW w, NEW v, NEW t
  PROVE  Pushing([stk |-> k, prev |-> w, valid |-> v], t) = [stk |-> Append(k, t), prev |-> w, valid |-> v]
BY DEF Pushing

\* A fi takes from the stack what its if, then and else put there.
LEMMA FiRestores ==
  ASSUME NEW s, Fresh(s)
  PROVE  PopOne(PopOne(PopOne(Pushing(Pushing(Pushing(s, "if"), "then"), "else")))) = s
<1> DEFINE V == {"if", "then", "else"}
           q == s.stk
           p1 == Append(q, "if")
           p2 == Append(p1, "then")
           p3 == Append(p2, "else")
           St(k, w) == [stk |-> k, prev |-> w, valid |-> TRUE]
<1>1. s = St(q, "fi") /\ q \in Seq(V)
  BY DEF Fresh, Checks
<1>2. p1 \in Seq(V) /\ p1 # <<>> /\ Last(p1) = "if" /\ Front(p1) = q
  BY <1>1, AppendFront
<1> HIDE DEF p1
<1>3. p2 \in Seq(V) /\ p2 # <<>> /\ Last(p2) = "then" /\ Front(p2) = p1
  BY <1>2, AppendFront
<1> HIDE DEF p2
<1>4. p3 \in Seq(V) /\ p3 # <<>> /\ Last(p3) = "else" /\ Front(p3) = p2
  BY <1>3, AppendFront
<1> HIDE DEF p3
<1>5. Pushing(Pushing(Pushing(s, "if"), "then"), "else") = St(p3, "fi")
  <2> HIDE DEF q
  <2>1. Pushing(St(q, "fi"), "if") = St(p1, "fi")
    BY PushedState DEF p1
  <2>2. Pushing(St(p1, "fi"), "then") = St(p2, "fi")
    BY PushedState DEF p2
  <2>3. Pushing(St(p2, "fi"), "else") = St(p3, "fi")
    BY PushedState DEF p3
  <2> HIDE DEF St
  <2> QED
    BY <1>1, <2>1, <2>2, <2>3
<1>6. /\ St(p3, "fi") \in Checks /\ St(p2, "else") \in Checks /\ St(p1, "then") \in Checks
  BY <1>2, <1>3, <1>4 DEF Checks
<1> HIDE DEF q
<1>7. PopOne(St(p3, "fi")) = St(p2, "else")
  BY <1>4 DEF PopOne, Follows
<1>8. PopOne(St(p2, "else")) = St(p1, "then")
  BY <1>3 DEF PopOne, Follows
<1>9. PopOne(St(p1, "then")) = St(q, "fi")
  BY <1>2 DEF PopOne, Follows
<1> HIDE DEF St
<1> QED
  BY <1>1, <1>7, <1>8, <1>9, <1>5


\* A command is let through: its operators are in place, and the stack is as before it.
Check(k) == checked(cmd_list)[k]
LetThrough(i, e) ==
  /\ e \in i + 1 .. Len(cmd_list) + 1
  /\ cmd_list[e - 1] \in {"cmd", "cd", "exit", "fi"}
  /\ cmd_list[i] \in {"cmd", "cd", "exit", "if"}
  /\ \A k \in i .. e - 1 :
       /\ cmd_list[k] \notin {"&", "mixed"}
       /\ cmd_list[k] \in {"|", ">"} => k # i /\ k + 1 <= e - 1 /\ cmd_list[k + 1] \notin Operators \cup {"mixed"}
  /\ Fresh(Check(i - 1)) /\ (cmd_list[i] = "if" => i = 1 \/ Opens(cmd_list[i - 1])) => Check(e - 1) = Check(i - 1)

LEMMA CheckIs ==
  ASSUME Len(cmd_list) \in Nat, NEW k \in 1 .. Len(cmd_list), Fresh(Check(k - 1))
  PROVE  /\ cmd_list[k] \notin Keywords => Check(k) = Check(k - 1)
         /\ cmd_list[k] = "if" /\ (k = 1 \/ Opens(cmd_list[k - 1])) => Check(k) = Pushing(Check(k - 1), "if")
         /\ cmd_list[k] = "then" /\ ~Opens(cmd_list[k - 1]) => Check(k) = Pushing(Check(k - 1), "then")
         /\ cmd_list[k] = "else" /\ ~Opens(cmd_list[k - 1]) => Check(k) = Pushing(Check(k - 1), "else")
         /\ cmd_list[k] = "fi" /\ ~Opens(cmd_list[k - 1]) => Check(k) = PopOne(PopOne(PopOne(Check(k - 1))))
<1>1. Check(k) = Validated(cmd_list, Check(k - 1), k)
  BY CheckedStep DEF Check
<1> QED
  BY <1>1, KeywordChecked

LEMMA IfLetThrough ==
  ASSUME Len(cmd_list) \in Nat, NEW i \in 1 .. Len(cmd_list), cmd_list[i] = "if",
         NEW j \in 1 .. Len(cmd_list), cmd_list[j] = "then", LetThrough(i + 1, j),
         NEW k \in 1 .. Len(cmd_list), cmd_list[k] = "else", LetThrough(j + 1, k),
         NEW m \in 1 .. Len(cmd_list), cmd_list[m] = "fi", LetThrough(k + 1, m)
  PROVE  LetThrough(i, m + 1)
<1> DEFINE n == Len(cmd_list)
<1>1. i < j /\ j < k /\ k < m
  BY DEF LetThrough
<1>2. Opens("if") /\ Opens("then") /\ Opens("else") /\ ~Opens("fi") /\ ~Opens("cmd") /\ ~Opens("cd") /\ ~Opens("exit")
  BY DEF Opens
<1>3. ~Opens(cmd_list[j - 1]) /\ ~Opens(cmd_list[k - 1]) /\ ~Opens(cmd_list[m - 1])
  BY <1>2 DEF LetThrough
<1>4. ASSUME NEW x \in i .. m
      PROVE  /\ cmd_list[x] \notin {"&", "mixed"}
             /\ cmd_list[x] \in {"|", ">"} => x # i /\ x + 1 <= m /\ cmd_list[x + 1] \notin Operators \cup {"mixed"}
  <2>1. CASE x \in {i, j, k, m}
    BY <2>1
  <2>2. CASE x \in i + 1 .. j - 1
    BY <1>1, <2>2 DEF LetThrough
  <2>3. CASE x \in j + 1 .. k - 1
    BY <1>1, <2>3 DEF LetThrough
  <2>4. CASE x \in k + 1 .. m - 1
    BY <1>1, <2>4 DEF LetThrough
  <2> QED
    BY <1>1, <2>1, <2>2, <2>3, <2>4
<1>5. ASSUME Fresh(Check(i - 1)), i = 1 \/ Opens(cmd_list[i - 1])
      PROVE  Check(m) = Check(i - 1)
  <2> DEFINE s == Check(i - 1)
             a == Pushing(s, "if")
             b == Pushing(a, "then")
             c == Pushing(b, "else")
  <2>1. Check(i) = a /\ Fresh(a)
    BY <1>5, CheckIs, PushIs
  <2>2. Check(j - 1) = a
    <3>1. (i + 1) - 1 = i
      OBVIOUS
    <3> HIDE DEF a
    <3> QED
      BY <1>2, <2>1, <3>1 DEF LetThrough
  <2> HIDE DEF a
  <2>3. Check(j) = b /\ Fresh(b)
    BY <1>3, <2>1, <2>2, CheckIs, PushIs
  <2>4. Check(k - 1) = b
    <3>1. (j + 1) - 1 = j
      OBVIOUS
    <3> HIDE DEF b
    <3> QED
      BY <1>2, <2>3, <3>1 DEF LetThrough
  <2> HIDE DEF b
  <2>5. Check(k) = c /\ Fresh(c)
    BY <1>3, <2>3, <2>4, CheckIs, PushIs
  <2>6. Check(m - 1) = c
    <3>1. (k + 1) - 1 = k
      OBVIOUS
    <3> HIDE DEF c
    <3> QED
      BY <1>2, <2>5, <3>1 DEF LetThrough
  <2> HIDE DEF c
  <2>7. Check(m) = PopOne(PopOne(PopOne(c)))
    BY <1>3, <2>5, <2>6, CheckIs
  <2>8. PopOne(PopOne(PopOne(c))) = s
    BY <1>5, FiRestores DEF a, b, c
  <2> QED
    BY <2>7, <2>8
<1>6. (m + 1) - 1 = m /\ m + 1 \in i + 1 .. n + 1
  BY <1>1
<1> QED
  BY <1>4, <1>5, <1>6 DEF LetThrough

LEMMA OneLetThrough ==
  ASSUME Len(cmd_list) \in Nat, NEW i \in 1 .. Len(cmd_list), NEW f, NEW e, OneIs(f, i, e),
         i + 2 \in 1 .. Len(cmd_list) /\ e = f[i + 2] => LetThrough(i + 2, e)
  PROVE  LetThrough(i, e)
<1> DEFINE n == Len(cmd_list)
<1>1. cmd_list[i] \in {"cmd", "cd", "exit"} /\ \A t \in {"cmd", "cd", "exit", "|", ">"} : t \notin Keywords
  BY DEF OneIs, Keywords
<1>2. Fresh(Check(i - 1)) => Check(i) = Check(i - 1)
  BY <1>1, CheckIs
<1>3. CASE e = i + 1
  <2>1. e - 1 = i
    BY <1>3
  <2> QED
    BY <1>1, <1>2, <1>3, <2>1 DEF LetThrough
<1>4. CASE i + 2 \in 1 .. n /\ cmd_list[i + 2] \in {"cmd", "cd", "exit"} /\ cmd_list[i + 1] = ">" /\ e = i + 3
  <2>1. Fresh(Check(i - 1)) => Check(i + 1) = Check(i - 1)
    <3>1. i + 1 \in 1 .. n /\ (i + 1) - 1 = i /\ cmd_list[i + 1] \notin Keywords
      BY <1>1, <1>4
    <3> QED
      BY <1>2, <3>1, CheckIs
  <2>2. Fresh(Check(i - 1)) => Check(i + 2) = Check(i - 1)
    <3>1. i + 2 \in 1 .. n /\ (i + 2) - 1 = i + 1 /\ cmd_list[i + 2] \notin Keywords
      BY <1>1, <1>4
    <3> QED
      BY <2>1, <3>1, CheckIs
  <2>3. e - 1 = i + 2 /\ e \in i + 1 .. n + 1
    BY <1>4
  <2>4. ASSUME NEW k \in i .. e - 1
        PROVE  /\ cmd_list[k] \notin {"&", "mixed"}
               /\ cmd_list[k] \in {"|", ">"} =>
                    k # i /\ k + 1 <= e - 1 /\ cmd_list[k + 1] \notin Operators \cup {"mixed"}
    <3>1. k = i \/ k = i + 1 \/ k = i + 2
      BY <2>3
    <3> QED
      BY <1>1, <1>4, <2>3, <3>1 DEF Operators
  <2> QED
    BY <1>1, <1>4, <2>2, <2>3, <2>4 DEF LetThrough
<1>5. CASE i + 2 \in 1 .. n /\ cmd_list[i + 2] \in {"cmd", "cd", "exit"} /\ cmd_list[i + 1] = "|" /\ e = f[i + 2]
  <2>1. Fresh(Check(i - 1)) => Check(i + 1) = Check(i - 1)
    <3>1. i + 1 \in 1 .. n /\ (i + 1) - 1 = i /\ cmd_list[i + 1] \notin Keywords
      BY <1>1, <1>5
    <3> QED
      BY <1>2, <3>1, CheckIs
  <2>2. LetThrough(i + 2, e) /\ (i + 2) - 1 = i + 1 /\ cmd_list[i + 2] # "if"
    BY <1>5
  <2>3. e \in i + 3 .. n + 1
    BY <2>2 DEF LetThrough
  <2>4. Fresh(Check(i - 1)) => Check(e - 1) = Check(i - 1)
    BY <2>1, <2>2 DEF LetThrough
  <2>5. ASSUME NEW k \in i .. e - 1
        PROVE  /\ cmd_list[k] \notin {"&", "mixed"}
               /\ cmd_list[k] \in {"|", ">"} =>
                    k # i /\ k + 1 <= e - 1 /\ cmd_list[k + 1] \notin Operators \cup {"mixed"}
    <3>1. k = i \/ k = i + 1 \/ k \in i + 2 .. e - 1
      BY <2>3
    <3>2. CASE k = i
      BY <1>1, <3>2
    <3>3. CASE k = i + 1
      BY <1>5, <2>3, <3>3 DEF Operators
    <3>4. CASE k \in i + 2 .. e - 1
      BY <2>2, <2>3, <3>4 DEF LetThrough
    <3> QED
      BY <3>1, <3>2, <3>3, <3>4
  <2> QED
    BY <1>1, <2>2, <2>3, <2>4, <2>5 DEF LetThrough
<1> QED
  BY <1>3, <1>4, <1>5 DEF OneIs


LEMMA CommandsLetThrough ==
  ASSUME Len(cmd_list) \in Nat, DOMAIN cmd_list = 1 .. Len(cmd_list)
  PROVE  \A i \in 1 .. Len(cmd_list) : After[i] # 0 => LetThrough(i, After[i])
<1> DEFINE n == Len(cmd_list)
           P(m) == \A i \in 1 .. n : i > n - m /\ After[i] # 0 => LetThrough(i, After[i])
           Q == {m \in Nat : m <= n => P(m)}
<1>1. After[0] = 0 /\ \A i \in 1 .. n + 1 : After[i] = AfterBy(After, i) /\ Behind(After, i)
  BY AfterIs DEF AfterKnown
<1>2. 0 \in Q
  OBVIOUS
<1>3. ASSUME NEW i \in 1 .. n, After[i] # 0, \A k \in i + 1 .. n : After[k] # 0 => LetThrough(k, After[k])
      PROVE  LetThrough(i, After[i])
  <2> DEFINE e == After[i]
  <2>1. e = AfterBy(After, i) /\ \A k \in i + 1 .. n + 1 : Behind(After, k)
    BY <1>1
  <2>2. CASE cmd_list[i] = "if"
    <3>1. IfIs(After, i, e)
      BY <1>1, <1>3, <2>1, <2>2, AfterIf
    <3>2. PICK j, k, m : /\ j = After[i + 1] /\ j \in i + 2 .. n /\ cmd_list[j] = "then"
                         /\ k = After[j + 1] /\ k \in j + 2 .. n /\ cmd_list[k] = "else"
                         /\ m = After[k + 1] /\ m \in k + 2 .. n /\ cmd_list[m] = "fi"
                         /\ e = m + 1
      BY <3>1 DEF IfIs
    <3>3. /\ i + 1 \in i + 1 .. n /\ j + 1 \in i + 1 .. n /\ k + 1 \in i + 1 .. n
          /\ j \in 1 .. n /\ k \in 1 .. n /\ m \in 1 .. n /\ j # 0 /\ k # 0 /\ m # 0
      <4>1. n \in Nat /\ j \in i + 2 .. n /\ k \in j + 2 .. n /\ m \in k + 2 .. n
        BY <3>2
      <4> HIDE DEF n, P, Q
      <4> QED
        BY <4>1, IfParts
    <3>4. LetThrough(i + 1, j) /\ LetThrough(j + 1, k) /\ LetThrough(k + 1, m)
      BY <1>3, <3>2, <3>3
    <3> QED
      BY <2>2, <3>2, <3>3, <3>4, IfLetThrough
  <2>3. CASE cmd_list[i] # "if"
    <3>1. At(cmd_list, i) # "if"
      BY <2>3 DEF At
    <3>2. OneIs(After, i, e)
      BY <1>3, <2>1, <3>1, AfterOne
    <3>3. i + 2 \in 1 .. n /\ e = After[i + 2] => LetThrough(i + 2, e)
      BY <1>3
    <3> QED
      BY <3>2, <3>3, OneLetThrough
  <2> QED
    BY <2>2, <2>3
<1>4. \A m \in Nat : m \in Q => m + 1 \in Q
  <2> SUFFICES ASSUME NEW m \in Nat, m + 1 <= n, P(m) PROVE P(m + 1)
    <3> HIDE DEF P
    <3> QED OBVIOUS
  <2> SUFFICES ASSUME NEW i \in 1 .. n, i > n - (m + 1), After[i] # 0 PROVE LetThrough(i, After[i])
    OBVIOUS
  <2>1. \A k \in i + 1 .. n : After[k] # 0 => LetThrough(k, After[k])
    OBVIOUS
  <2> QED
    BY <1>3, <2>1
<1>5. \A m \in Nat : m \in Q
  <2> HIDE DEF Q
  <2> QED BY <1>2, <1>4, Induction
<1>6. n \in Q
  BY <1>5
<1> QED
  BY <1>6

\* What follows the command - a last &, empty tokens behind a fi - changes nothing.
LEMMA TailChecked ==
  ASSUME Len(cmd_list) \in Nat, NEW e \in 1 .. Len(cmd_list) + 1, Fresh(Check(e - 1)),
         \A k \in e .. Len(cmd_list) : cmd_list[k] \notin Keywords
  PROVE  Check(Len(cmd_list)) = Check(e - 1)
<1> DEFINE n == Len(cmd_list)
           Q == {m \in Nat : e - 1 + m <= n => Check(e - 1 + m) = Check(e - 1)}
<1>1. 0 \in Q
  OBVIOUS
<1>2. ASSUME NEW m \in Nat, e - 1 + (m + 1) <= n, Check(e - 1 + m) = Check(e - 1)
      PROVE  Check(e - 1 + (m + 1)) = Check(e - 1)
  <2> DEFINE k == e - 1 + (m + 1)
  <2>1. k \in 1 .. n /\ k - 1 = e - 1 + m /\ k \in e .. n
    BY <1>2
  <2> HIDE DEF k
  <2>2. Check(k) = Check(k - 1)
    BY <1>2, <2>1, CheckIs
  <2> QED
    BY <1>2, <2>1, <2>2 DEF k
<1>3. \A m \in Nat : m \in Q => m + 1 \in Q
  <2> SUFFICES ASSUME NEW m \in Nat, m \in Q, e - 1 + (m + 1) <= n PROVE Check(e - 1 + (m + 1)) = Check(e - 1)
    OBVIOUS
  <2>1. Check(e - 1 + m) = Check(e - 1)
    OBVIOUS
  <2> QED
    BY <1>2, <2>1
<1>4. \A m \in Nat : m \in Q
  <2> HIDE DEF Q
  <2> QED BY <1>1, <1>3, Induction
<1>5. n - (e - 1) \in Q /\ e - 1 + (n - (e - 1)) = n
  <2>1. n - (e - 1) \in Nat /\ e - 1 + (n - (e - 1)) = n
    OBVIOUS
  <2> HIDE DEF Q
  <2> QED
    BY <1>4, <2>1
<1> QED
  BY <1>5

LEMMA SentenceIsChecked ==
  ASSUME cmd_list \in Seq(Tokens), Sentence
  PROVE  /\ Len(cmd_list) \in Nat /\ cmd_list # <<>> /\ (cmd_list[1] = "if" => Len(cmd_list) # 1)
         /\ validateIfElseCondition(cmd_list)
         /\ \A i \in 1 .. Len(cmd_list) :
              /\ cmd_list[i] # "mixed" /\ (cmd_list[i] = "&" => i = Len(cmd_list))
              /\ cmd_list[i] \in {"|", ">"} =>
                   i # 1 /\ i + 1 \in 2 .. Len(cmd_list) /\ cmd_list[i + 1] \notin Operators \cup {"mixed"}
<1> DEFINE n == Len(cmd_list)
           e == After[1]
<1>1. n \in Nat /\ DOMAIN cmd_list = 1 .. n /\ cmd_list # <<>> /\ e # 0 /\ 1 \in 1 .. n
  <2>1. cmd_list # <<>> /\ After[1] # 0
    BY DEF Sentence
  <2>2. n \in Nat /\ DOMAIN cmd_list = 1 .. n /\ 1 \in 1 .. n
    BY <2>1
  <2> QED
    BY <2>1, <2>2
<1>2. LetThrough(1, e)
  <2>1. \A i \in 1 .. n : After[i] # 0 => LetThrough(i, After[i])
    BY <1>1, CommandsLetThrough
  <2> QED
    BY <1>1, <2>1
<1>3. \A i \in e .. n : \/ cmd_list[i] = "" /\ cmd_list[i - 1] = "fi"
                        \/ cmd_list[i] = "&" /\ i = n
  BY DEF Sentence
<1> HIDE DEF e
<1>4. e \in 2 .. n + 1
  BY <1>1, <1>2 DEF LetThrough
<1>5. ASSUME NEW i \in 1 .. n
      PROVE  /\ cmd_list[i] # "mixed" /\ (cmd_list[i] = "&" => i = n)
             /\ cmd_list[i] \in {"|", ">"} =>
                  i # 1 /\ i + 1 \in 2 .. n /\ cmd_list[i + 1] \notin Operators \cup {"mixed"}
  <2>1. CASE i \in 1 .. e - 1
    <3>1. /\ cmd_list[i] \notin {"&", "mixed"}
          /\ cmd_list[i] \in {"|", ">"} =>
               i # 1 /\ i + 1 <= e - 1 /\ cmd_list[i + 1] \notin Operators \cup {"mixed"}
      BY <1>2, <2>1 DEF LetThrough
    <3>2. i + 1 <= e - 1 => i + 1 \in 2 .. n
      BY <1>1, <1>4
    <3> HIDE DEF n
    <3> QED
      BY <3>1, <3>2
  <2>2. CASE i \in e .. n
    <3>1. cmd_list[i] = "" \/ (cmd_list[i] = "&" /\ i = n)
      BY <1>3, <2>2
    <3> HIDE DEF n
    <3> QED
      BY <3>1
  <2>3. i \in 1 .. e - 1 \/ i \in e .. n
    BY <1>1, <1>4
  <2> HIDE DEF n
  <2> QED
    BY <2>1, <2>2, <2>3
<1>6. validateIfElseCondition(cmd_list)
  <2>1. Check(0) = [stk |-> <<>>, prev |-> "fi", valid |-> TRUE] /\ Check(0) \in Checks
    BY <1>1, CheckedStep DEF Check
  <2>2. Fresh(Check(0)) /\ Check(0).stk = <<>>
    BY <2>1 DEF Fresh
  <2>3. Check(e - 1) = Check(0)
    <3>1. 1 - 1 = 0
      OBVIOUS
    <3> QED
      BY <1>2, <2>2, <3>1 DEF LetThrough
  <2>4. Check(n) = Check(e - 1)
    <3>1. \A k \in e .. n : cmd_list[k] \notin Keywords
      BY <1>3 DEF Keywords
    <3> QED
      BY <1>1, <1>4, <2>2, <2>3, <3>1, TailChecked
  <2>5. Check(n).valid /\ Check(n).stk = <<>>
    BY <2>2, <2>3, <2>4 DEF Fresh
  <2> QED
    BY <2>5 DEF validateIfElseCondition, Check
<1>7. cmd_list[1] = "if" => n # 1
  <2>1. cmd_list[e - 1] \in {"cmd", "cd", "exit", "fi"}
    BY <1>2 DEF LetThrough
  <2>2. n = 1 => e - 1 = 1
    BY <1>4
  <2> QED
    BY <2>1, <2>2
<1> QED
  BY <1>1, <1>5, <1>6, <1>7

\* Tokens that begin with an operator, and those whose first word is an if.
LEMMA KindOfOperator ==
  ASSUME NEW t \in Texts, t # <<>>
  PROVE  /\ Begins(t, Operators \cup {"="}) => Kind(t) \in {"mixed", t[1]} /\ Kind(t) \in Operators \cup {"mixed"}
         /\ FirstWord(t) = <<"if">> => Kind(t) \in {"if", "mixed"}
<1>1. /\ Len(t) \in Nat /\ ~ (Len(t) = 0)
      /\ FirstWord(t) \in {<<"cd">>, <<"exit">>, <<"set">>} => t[1] \in {"cd", "exit", "set"}
      /\ FirstWord(t) = <<"if">> => t[1] = "if"
  <2>1. FirstWord(t) # <<>> => FirstWord(t)[1] = t[1]
    BY FirstWordPart
  <2> QED
    BY <2>1 DEF Texts
<1>2. ASSUME Begins(t, Operators \cup {"="})
      PROVE  Kind(t) \in {"mixed", t[1]} /\ Kind(t) \in Operators \cup {"mixed"}
  <2>1. t[1] \in {"&", ">", "|", "="} /\ FirstWord(t) \notin {<<"cd">>, <<"exit">>, <<"set">>}
        /\ t[1] \notin Keywords /\ (t[1] \in Operators <=> t[1] # "=")
    BY <1>1, <1>2 DEF Begins, Operators, Keywords
  <2>2. CASE Len(t) = 1 /\ t[1] # "="
    <3>1. ~ (Len(t) > 1) /\ t # <<"=">> /\ t[1] \in Keywords \cup Operators
      BY <2>1, <2>2
    <3>2. Kind(t) = t[1]
      BY <2>1, <2>2, <3>1, Zenon DEF Kind
    <3> QED
      BY <2>1, <2>2, <3>2
  <2>3. CASE Len(t) = 1 /\ t[1] = "="
    <3>1. ~ (Len(t) > 1) /\ t = <<"=">> /\ t[1] \notin Keywords \cup Operators
      BY <2>1, <2>3 DEF Texts
    <3>2. Kind(t) = "mixed"
      BY <2>1, <3>1, Zenon DEF Kind
    <3> QED
      BY <3>2
  <2>4. CASE Len(t) # 1
    <3>1. Len(t) > 1 /\ ~ (Len(t) = 1) /\ t # <<"=">>
      <4>1. Len(t) \in Nat /\ ~ (Len(t) = 0)
        BY <1>1
      <4>2. Len(t) > 1
        <5>1. \A x \in Nat : x # 0 /\ x # 1 => x > 1
          OBVIOUS
        <5> QED
          BY <2>4, <4>1, <5>1, Zenon
      <4>3. t # <<"=">>
        BY <2>4
      <4> QED
        BY <2>4, <4>2, <4>3
    <3>2. CASE t[1] = "&"
      <4>1. t[1] \notin {">", "|", "="} /\ FirstWord(t) \notin {<<w>> : w \in Keywords}
        <5>1. FirstWord(t) # <<>> => FirstWord(t)[1] = t[1]
          BY FirstWordPart
        <5> QED
          BY <2>1, <3>2, <5>1
      <4>2. Kind(t) = "&"
        BY <2>1, <3>1, <3>2, <4>1, Zenon DEF Kind
      <4> QED
        BY <3>2, <4>2 DEF Operators
    <3>3. CASE t[1] # "&"
      <4>1. t[1] \in {">", "|", "="}
        BY <2>1, <3>3
      <4>2. Kind(t) = "mixed"
        BY <2>1, <3>1, <3>3, <4>1, Zenon DEF Kind
      <4> QED
        BY <4>2
    <3> QED
      BY <3>2, <3>3
  <2> HIDE DEF Kind
  <2> QED
    BY <2>2, <2>3, <2>4
<1>3. ASSUME FirstWord(t) = <<"if">> PROVE Kind(t) \in {"if", "mixed"}
  <2>1. t[1] = "if" /\ t[1] # "&" /\ "if" \in Keywords \cup Operators
    BY <1>1, <1>3 DEF Keywords
  <2>2. FirstWord(t) \notin {<<"cd">>, <<"exit">>, <<"set">>}
    BY <1>3
  <2>3. CASE Len(t) = 1
    <3>1. ~ (Len(t) > 1) /\ t # <<"=">> /\ t[1] \in Keywords \cup Operators
      BY <2>1, <2>3
    <3> QED
      BY <2>1, <2>2, <2>3, <3>1, Zenon DEF Kind
  <2>4. CASE Len(t) # 1
    <3>1. Len(t) > 1 /\ FirstWord(t) \in {<<w>> : w \in Keywords}
      BY <1>1, <1>3, <2>4 DEF Keywords
    <3>2. ~ (Len(t) = 1)
      BY <2>4
    <3> QED
      BY <2>1, <2>2, <3>1, <3>2, Zenon DEF Kind
  <2> QED
    BY <2>3, <2>4
<1> QED
  BY <1>2, <1>3

LEMMA SentenceIsAccepted ==
  ASSUME LineInv, status # "typed", Sentence, NoneAliased(Keywords \cup Operators \cup {"mixed"})
  PROVE  validateCommand(parseCmd(in_cmd))
<1> DEFINE toks == parseCmd(in_cmd)
           n == Len(cmd_list)
<1>1. /\ n \in Nat /\ cmd_list # <<>> /\ (cmd_list[1] = "if" => n # 1)
      /\ validateIfElseCondition(cmd_list)
      /\ \A i \in 1 .. n :
           /\ cmd_list[i] # "mixed" /\ (cmd_list[i] = "&" => i = n)
           /\ cmd_list[i] \in {"|", ">"} =>
                i # 1 /\ i + 1 \in 2 .. n /\ cmd_list[i + 1] \notin Operators \cup {"mixed"}
  BY SentenceIsChecked DEF LineInv
<1>2. toks # <<>>
  <2>1. DOMAIN cmd_list = DOMAIN toks
    BY DEF LineInv, kinds, replaced
  <2>2. toks = <<>> => DOMAIN toks = {}
    OBVIOUS
  <2>3. cmd_list \in Seq(Tokens)
    BY DEF LineInv
  <2> HIDE DEF toks
  <2> QED
    BY <1>1, <2>1, <2>2, <2>3
<1>3. Tokenised(toks)
  BY <1>2, TokensAre
<1>4. \A k \in 2 .. n : Kind(toks[k]) \in Keywords \cup Operators \cup {"mixed"} => Kind(toks[k]) = cmd_list[k]
  BY DEF NoneAliased
<1>5. NoneAliased(Keywords)
  BY DEF NoneAliased
<1>6. cmd_list[1] = "if" => validateIfElseCondition(kinds(typed(toks)))
  BY <1>1, <1>3, <1>5, TypedIfs
<1> HIDE DEF toks, n
<1>7. ASSUME NEW k \in Looked(toks) PROVE ~ Misplaced(toks, k)
  <2> DEFINE tok == Substituted(toks[k])
  <2>1. k \in 1 .. Len(toks) /\ n = Len(toks) /\ tok \in Texts /\ Kind(tok) = cmd_list[k] /\ cmd_list[k] # "mixed"
        /\ \A j \in 1 .. n : toks[j] \in Texts
    <3>1. Looked(toks) \subseteq 1 .. Len(toks)
      BY <1>3 DEF Looked, Tokenised
    <3> QED
      BY <1>1, <1>3, <3>1 DEF Tokenised, n
  <2>2. ASSUME k = 1, FirstWord(tok) = <<"if">>
        PROVE  Len(toks) # 1 /\ validateIfElseCondition(kinds([toks EXCEPT ![1] = tok]))
    <3>1. tok # <<>>
      <4>1. FirstWord(<<>>) = <<>>
        BY DEF FirstWord, ToSet
      <4> QED
        BY <2>2, <4>1
    <3>2. cmd_list[1] = "if"
      BY <2>1, <2>2, <3>1, KindOfOperator
    <3> QED
      BY <1>1, <1>6, <2>1, <2>2, <3>2 DEF typed
  <2>3. ASSUME Begins(tok, {">", "|"}) \/ tok = <<"=">>
        PROVE  /\ k # 1 /\ k # Len(toks) /\ ~ Begins(toks[k + 1], Operators \cup {"="})
               /\ tok # <<"=">>
    <3>1. tok # <<>> /\ Begins(tok, Operators \cup {"="})
      BY <2>3 DEF Begins, Operators
    <3>2. Kind(tok) = tok[1] /\ Kind(tok) \in Operators
      BY <2>1, <3>1, KindOfOperator
    <3>3. tok # <<"=">>
      BY <3>2 DEF Operators
    <3>4. cmd_list[k] \in {"|", ">"}
      BY <2>1, <2>3, <3>2, <3>3 DEF Begins
    <3>5. k # 1 /\ k + 1 \in 2 .. n /\ cmd_list[k + 1] \notin Operators \cup {"mixed"}
      BY <1>1, <2>1, <3>4
    <3>6. ~ Begins(toks[k + 1], Operators \cup {"="})
      <4> SUFFICES ASSUME Begins(toks[k + 1], Operators \cup {"="}) PROVE FALSE
        OBVIOUS
      <4>1. toks[k + 1] \in Texts /\ toks[k + 1] # <<>>
        BY <1>1, <2>1, <3>5 DEF Begins
      <4>2. Kind(toks[k + 1]) \in Operators \cup {"mixed"}
        BY <4>1, KindOfOperator
      <4> QED
        BY <1>4, <3>5, <4>2
    <3> QED
      BY <1>1, <2>1, <3>3, <3>5, <3>6
  <2>4. ASSUME Begins(tok, {"&"}) PROVE k = Len(toks)
    <3>1. tok # <<>> /\ Begins(tok, Operators \cup {"="}) /\ tok[1] = "&"
      BY <2>4 DEF Begins, Operators
    <3>2. Kind(tok) = "&"
      BY <2>1, <3>1, KindOfOperator
    <3> QED
      BY <1>1, <2>1, <3>2
  <2> HIDE DEF tok
  <2>5. ~ (k = 1 /\ FirstWord(tok) = <<"if">>) =>
          ~ (\/ /\ Begins(tok, {">", "|"}) \/ tok = <<"=">>
                /\ \/ k = 1 \/ k = Len(toks) \/ Begins(toks[k + 1], Operators \cup {"="})
                   \/ tok = <<"=">> /\ replaced(toks)[k - 1] \in {<<"alias">>, <<"set">>}
             \/ Begins(tok, {"&"}) /\ k # Len(toks))
    BY <2>3, <2>4
  <2> QED
    BY <2>2, <2>5, Zenon DEF Misplaced, tok
<1> QED
  BY <1>2, <1>7 DEF validateCommand, toks

\* No line that means something is refused: commands, pipelines and redirections in any
\* place of ifs nested as deeply as one likes pass the check of valid.c, as long as no alias
\* stands for a keyword or an operator.
THEOREM SentencesAlwaysAccepted == Spec => []SentencesAccepted
<1> DEFINE Refused == status = "refused" => ~validateCommand(parseCmd(in_cmd))
<1>1. Init => Refused
  BY DEF Init
<1>2. ExecInv /\ Refused /\ [Next]_vars => Refused'
  <2> SUFFICES ASSUME ExecInv, Refused, [Next]_vars, status' = "refused" PROVE (~validateCommand(parseCmd(in_cmd)))'
    OBVIOUS
  <2>1. CASE Parse \/ NotFound \/ BuiltIn \/ Accept
    BY <2>1 DEF Parse, NotFound, BuiltIn, Accept
  <2>2. CASE Refuse
    <3>1. in_cmd' = in_cmd /\ alias_s' = alias_s /\ ~validateCommand(parseCmd(in_cmd))
      BY <2>2 DEF Refuse
    <3> QED
      BY <3>1, SameLine
  <2>3. CASE UNCHANGED line
    <3>1. in_cmd' = in_cmd /\ alias_s' = alias_s /\ ~validateCommand(parseCmd(in_cmd))
      BY <2>3 DEF line
    <3> QED
      BY <3>1, SameLine
  <2>4. ASSUME NEW p \in DOMAIN procs, Step(p) \/ Fails(p) PROVE UNCHANGED line
    BY <2>4 DEF Step, Fails, ExecutePipe, ExecuteRedirect, ExecuteIf, ExecuteSingle, Return, Ends, Wait, Read
  <2> QED
    BY <2>1, <2>2, <2>3, <2>4 DEF Next, vars
<1>3. ExecInv /\ Refused => SentencesAccepted
  BY SentenceIsAccepted DEF ExecInv, SentencesAccepted
<1> QED
  BY <1>1, <1>2, <1>3, ExecInvHolds, PTL DEF Spec

-----------------------------------------------------------------------------
(* The scan of execute finds the branches a line means.                    *)

\* A command between i and e, seen by a scan that started at b: its keywords are deeper
\* than the scan is at i, and behind it the scan is as deep as before.
Counted(b, i, e) == /\ if_cnt(b, e) = if_cnt(b, i)
                    /\ \A k \in i .. e - 1 : cmd_list[k] \in {"then", "else", "fi"} => if_cnt(b, k) > if_cnt(b, i)

LEMMA CountStays ==
  ASSUME NEW b \in Nat, NEW x \in Nat, b < x, NEW c, if_cnt(b, x) = c, cmd_list[x] \notin {"if", "fi"}
  PROVE  if_cnt(b, x + 1) = c
<1>1. b + 1 <= x
  OBVIOUS
<1> QED
  BY <1>1, CountStep

LEMMA IfCounted ==
  ASSUME NEW b \in Nat, NEW i \in Nat, b < i, cmd_list[i] = "if",
         NEW j \in Nat, i < j, cmd_list[j] = "then", Counted(b, i + 1, j),
         NEW k \in Nat, j < k, cmd_list[k] = "else", Counted(b, j + 1, k),
         NEW m \in Nat, k < m, cmd_list[m] = "fi", Counted(b, k + 1, m)
  PROVE  Counted(b, i, m + 1)
<1> DEFINE c == if_cnt(b, i)
<1>1. c \in Int /\ if_cnt(b, i + 1) = c + 1
  BY CountStep
<1>2. if_cnt(b, j) = c + 1 /\ if_cnt(b, j + 1) = c + 1
  <2>1. if_cnt(b, j) = c + 1
    BY <1>1 DEF Counted
  <2> HIDE DEF c
  <2>2. b < j /\ cmd_list[j] \notin {"if", "fi"}
    OBVIOUS
  <2> QED
    BY <2>1, <2>2, CountStays
<1>3. if_cnt(b, k) = c + 1 /\ if_cnt(b, k + 1) = c + 1
  <2>1. if_cnt(b, k) = c + 1
    BY <1>2 DEF Counted
  <2> HIDE DEF c
  <2>2. b < k /\ cmd_list[k] \notin {"if", "fi"}
    OBVIOUS
  <2> QED
    BY <2>1, <2>2, CountStays
<1>4. if_cnt(b, m) = c + 1 /\ if_cnt(b, m + 1) = c
  <2>1. if_cnt(b, m) = c + 1
    BY <1>3 DEF Counted
  <2>2. if_cnt(b, m + 1) = if_cnt(b, m) - 1
    BY CountStep
  <2> HIDE DEF c
  <2> QED
    BY <1>1, <2>1, <2>2
<1> HIDE DEF c
<1>5. ASSUME NEW x \in i .. m, cmd_list[x] \in {"then", "else", "fi"} PROVE if_cnt(b, x) > c
  <2>1. CASE x \in {i, j, k, m}
    BY <1>1, <1>2, <1>3, <1>4, <1>5, <2>1
  <2>2. CASE x \in i + 1 .. j - 1
    <3>1. if_cnt(b, x) > c + 1
      BY <1>1, <1>5, <2>2 DEF Counted
    <3>2. if_cnt(b, x) \in Int
      BY <2>2, CountStep
    <3> QED
      BY <1>1, <3>1, <3>2
  <2>3. CASE x \in j + 1 .. k - 1
    <3>1. if_cnt(b, x) > c + 1
      BY <1>2, <1>5, <2>3 DEF Counted
    <3>2. if_cnt(b, x) \in Int
      BY <2>3, CountStep
    <3> QED
      BY <1>1, <3>1, <3>2
  <2>4. CASE x \in k + 1 .. m - 1
    <3>1. if_cnt(b, x) > c + 1
      BY <1>3, <1>5, <2>4 DEF Counted
    <3>2. if_cnt(b, x) \in Int
      BY <2>4, CountStep
    <3> QED
      BY <1>1, <3>1, <3>2
  <2> QED
    BY <2>1, <2>2, <2>3, <2>4
<1>6. (m + 1) - 1 = m
  OBVIOUS
<1> QED
  BY <1>4, <1>5, <1>6 DEF Counted, c

LEMMA OneCounted ==
  ASSUME Len(cmd_list) \in Nat, NEW b \in Nat, NEW i \in Nat, b < i, NEW f, NEW e, OneIs(f, i, e),
         i + 2 \in 1 .. Len(cmd_list) /\ e = f[i + 2] => e \in Nat /\ i + 2 < e /\ Counted(b, i + 2, e)
  PROVE  Counted(b, i, e)
<1> DEFINE K == {"then", "else", "fi"}
<1>1. cmd_list[i] \notin K \cup {"if"} /\ if_cnt(b, i + 1) = if_cnt(b, i) /\ if_cnt(b, i) \in Int
  <2>1. cmd_list[i] \in {"cmd", "cd", "exit"}
    BY DEF OneIs
  <2>2. cmd_list[i] \notin K \cup {"if"} /\ cmd_list[i] \notin {"if", "fi"}
    BY <2>1
  <2>3. b + 1 <= i
    OBVIOUS
  <2> HIDE DEF K
  <2> QED
    BY <2>2, <2>3, CountStep
<1>2. CASE e = i + 1
  <2>1. \A k \in i .. e - 1 : k = i
    BY <1>2
  <2> QED
    BY <1>1, <1>2, <2>1 DEF Counted
<1>3. CASE i + 2 \in 1 .. Len(cmd_list) /\ cmd_list[i + 2] \in {"cmd", "cd", "exit"} /\ cmd_list[i + 1] = ">" /\ e = i + 3
  <2>1. if_cnt(b, i + 2) = if_cnt(b, i)
    <3>1. b < i + 1 /\ i + 1 \in Nat /\ (i + 1) + 1 = i + 2
      OBVIOUS
    <3>2. cmd_list[i + 1] \notin {"if", "fi"}
      BY <1>3
    <3>3. if_cnt(b, (i + 1) + 1) = if_cnt(b, i)
      BY <1>1, <3>1, <3>2, CountStays
    <3> QED
      BY <3>1, <3>3
  <2>2. if_cnt(b, i + 3) = if_cnt(b, i)
    <3>1. b < i + 2 /\ i + 2 \in Nat /\ (i + 2) + 1 = i + 3
      OBVIOUS
    <3>2. cmd_list[i + 2] \notin {"if", "fi"}
      BY <1>3
    <3>3. if_cnt(b, (i + 2) + 1) = if_cnt(b, i)
      BY <2>1, <3>1, <3>2, CountStays
    <3> QED
      BY <3>1, <3>3
  <2>3. \A k \in i .. e - 1 : k = i \/ k = i + 1 \/ k = i + 2
    BY <1>3
  <2>4. cmd_list[i + 1] \notin K /\ cmd_list[i + 2] \notin K
    BY <1>3
  <2> QED
    BY <1>1, <1>3, <2>2, <2>3, <2>4 DEF Counted
<1>4. CASE i + 2 \in 1 .. Len(cmd_list) /\ cmd_list[i + 1] = "|" /\ e = f[i + 2]
  <2>1. if_cnt(b, i + 2) = if_cnt(b, i)
    <3>1. b < i + 1 /\ i + 1 \in Nat /\ (i + 1) + 1 = i + 2
      OBVIOUS
    <3>2. cmd_list[i + 1] \notin {"if", "fi"}
      BY <1>4
    <3>3. if_cnt(b, (i + 1) + 1) = if_cnt(b, i)
      BY <1>1, <3>1, <3>2, CountStays
    <3> QED
      BY <3>1, <3>3
  <2>2. Counted(b, i + 2, e) /\ e \in Nat /\ i + 2 < e
    BY <1>4
  <2>3. \A k \in i .. e - 1 : k = i \/ k = i + 1 \/ k \in i + 2 .. e - 1
    BY <2>2
  <2>4. cmd_list[i + 1] \notin K
    BY <1>4
  <2> QED
    BY <1>1, <2>1, <2>2, <2>3, <2>4 DEF Counted
<1> QED
  BY <1>2, <1>3, <1>4 DEF OneIs

\* What is behind an if that is a command, and behind another command.
LEMMA IfFacts ==
  ASSUME Len(cmd_list) \in Nat, DOMAIN cmd_list = 1 .. Len(cmd_list), NEW i \in 1 .. Len(cmd_list),
         cmd_list[i] = "if", After[i] # 0
  PROVE  IfIs(After, i, After[i])
<1>1. AfterKnown(After)
  BY AfterIs
<1>2. After[0] = 0 /\ After[i] = AfterBy(After, i) /\ \A k \in i + 1 .. Len(cmd_list) + 1 : Behind(After, k)
  BY <1>1 DEF AfterKnown
<1> QED
  BY <1>2, AfterIf

LEMMA OneFacts ==
  ASSUME Len(cmd_list) \in Nat, DOMAIN cmd_list = 1 .. Len(cmd_list), NEW i \in 1 .. Len(cmd_list),
         cmd_list[i] # "if", After[i] # 0
  PROVE  OneIs(After, i, After[i])
<1>1. AfterKnown(After)
  BY AfterIs
<1>2. After[i] = AfterBy(After, i)
  BY <1>1 DEF AfterKnown
<1>3. At(cmd_list, i) # "if"
  BY DEF At
<1> QED
  BY <1>2, <1>3, AfterOne

LEMMA AfterRange ==
  ASSUME Len(cmd_list) \in Nat, DOMAIN cmd_list = 1 .. Len(cmd_list), NEW i \in 1 .. Len(cmd_list), After[i] # 0
  PROVE  After[i] \in i + 1 .. Len(cmd_list) + 1
<1>1. AfterKnown(After)
  BY AfterIs
<1> QED
  BY <1>1 DEF AfterKnown, Behind

\* Every if in a command is a command itself.
IfsMean(i, e) == \A k \in i .. e - 1 : cmd_list[k] = "if" => After[k] # 0

LEMMA CommandsCounted ==
  ASSUME Len(cmd_list) \in Nat, DOMAIN cmd_list = 1 .. Len(cmd_list)
  PROVE  \A i \in 1 .. Len(cmd_list) :
           After[i] # 0 => IfsMean(i, After[i]) /\ \A b \in 0 .. i - 1 : Counted(b, i, After[i])
<1> DEFINE n == Len(cmd_list)
           P(i) == After[i] # 0 => IfsMean(i, After[i]) /\ \A b \in 0 .. i - 1 : Counted(b, i, After[i])
           S == {i \in 1 .. n : P(i)}
<1>1. ASSUME NEW i \in 1 .. n, \A k \in i + 1 .. n : P(k) PROVE P(i)
  <2> SUFFICES ASSUME After[i] # 0 PROVE IfsMean(i, After[i]) /\ \A b \in 0 .. i - 1 : Counted(b, i, After[i])
    OBVIOUS
  <2> DEFINE e == After[i]
  <2>1. CASE cmd_list[i] = "if"
    <3>1. IfIs(After, i, e)
      BY <2>1, IfFacts
    <3>2. PICK j, k, m : /\ j = After[i + 1] /\ j \in i + 2 .. n /\ cmd_list[j] = "then"
                         /\ k = After[j + 1] /\ k \in j + 2 .. n /\ cmd_list[k] = "else"
                         /\ m = After[k + 1] /\ m \in k + 2 .. n /\ cmd_list[m] = "fi"
                         /\ e = m + 1
      BY <3>1 DEF IfIs
    <3>3. /\ i \in Nat /\ j \in Nat /\ k \in Nat /\ m \in Nat /\ i + 2 <= j /\ j + 2 <= k /\ k + 2 <= m
          /\ i + 1 \in i + 1 .. n /\ j + 1 \in i + 1 .. n /\ k + 1 \in i + 1 .. n /\ j # 0 /\ k # 0 /\ m # 0
      <4>1. n \in Nat /\ j \in i + 2 .. n /\ k \in j + 2 .. n /\ m \in k + 2 .. n
        BY <3>2
      <4> HIDE DEF n, P, S
      <4> QED
        BY <4>1, IfParts
    <3>4. P(i + 1) /\ P(j + 1) /\ P(k + 1)
      BY <1>1, <3>3
    <3>5. IfsMean(i, e)
      <4>1. IfsMean(i + 1, j) /\ IfsMean(j + 1, k) /\ IfsMean(k + 1, m)
        BY <3>2, <3>3, <3>4
      <4> SUFFICES ASSUME NEW x \in i .. e - 1, cmd_list[x] = "if" PROVE After[x] # 0
        BY DEF IfsMean
      <4>2. x \in {i, j, k, m} \/ x \in i + 1 .. j - 1 \/ x \in j + 1 .. k - 1 \/ x \in k + 1 .. m - 1
        <5> HIDE DEF e
        <5>1. i \in Nat /\ j \in Nat /\ k \in Nat /\ m \in Nat
          BY <3>3
        <5>2. e = m + 1
          BY <3>2
        <5>3. x \in Nat /\ i <= x /\ x <= m
          BY <5>1, <5>2
        <5> QED
          BY <5>1, <5>3
      <4>3. x \in {i, j, k, m} => x = i
        BY <3>2
      <4> QED
        BY <4>1, <4>2, <4>3 DEF IfsMean
    <3>6. ASSUME NEW b \in 0 .. i - 1 PROVE Counted(b, i, e)
      <4>1. b \in 0 .. (i + 1) - 1 /\ b \in 0 .. (j + 1) - 1 /\ b \in 0 .. (k + 1) - 1
        <5> HIDE DEF n, P, S
        <5> QED
          BY <3>3
      <4>2. Counted(b, i + 1, j) /\ Counted(b, j + 1, k) /\ Counted(b, k + 1, m)
        BY <3>2, <3>3, <3>4, <4>1
      <4>3. /\ b \in Nat /\ i \in Nat /\ b < i /\ j \in Nat /\ i < j /\ k \in Nat /\ j < k
            /\ m \in Nat /\ k < m
        <5> HIDE DEF n, P, S
        <5> QED
          BY <3>3
      <4>4. Counted(b, i, m + 1)
        BY <2>1, <3>2, <4>2, <4>3, IfCounted
      <4> QED
        BY <3>2, <4>4
    <3> QED
      BY <3>5, <3>6
  <2>2. CASE cmd_list[i] # "if"
    <3>1. OneIs(After, i, e)
      BY <2>2, OneFacts
    <3>2. ASSUME i + 2 \in 1 .. n, e = After[i + 2]
          PROVE  IfsMean(i + 2, e) /\ e \in Nat /\ i + 2 < e /\ \A b \in 0 .. (i + 2) - 1 : Counted(b, i + 2, e)
      <4>1. P(i + 2)
        BY <1>1, <3>2
      <4>2. After[i + 2] \in (i + 2) + 1 .. n + 1
        BY <3>2, AfterRange
      <4> QED
        BY <3>2, <4>1, <4>2
    <3>3. ASSUME NEW b \in 0 .. i - 1 PROVE Counted(b, i, e)
      <4>1. b \in 0 .. (i + 2) - 1 /\ b \in Nat /\ i \in Nat /\ b < i
        OBVIOUS
      <4>2. i + 2 \in 1 .. n /\ e = After[i + 2] => e \in Nat /\ i + 2 < e /\ Counted(b, i + 2, e)
        BY <3>2, <4>1
      <4> QED
        BY <3>1, <4>1, <4>2, OneCounted
    <3>4. IfsMean(i, e)
      <4> SUFFICES ASSUME NEW x \in i .. e - 1, cmd_list[x] = "if" PROVE After[x] # 0
        BY DEF IfsMean
      <4>1. CASE e = i + 1
        BY <2>2, <4>1
      <4>2. CASE i + 2 \in 1 .. n /\ cmd_list[i + 2] \in {"cmd", "cd", "exit"} /\ cmd_list[i + 1] = ">" /\ e = i + 3
        <5>1. x = i \/ x = i + 1 \/ x = i + 2
          BY <4>2
        <5> QED
          BY <2>2, <4>2, <5>1
      <4>3. CASE i + 2 \in 1 .. n /\ cmd_list[i + 1] = "|" /\ e = After[i + 2]
        <5>1. x = i \/ x = i + 1 \/ x \in i + 2 .. e - 1
          BY <3>2, <4>3
        <5>2. IfsMean(i + 2, e)
          BY <3>2, <4>3
        <5> QED
          BY <2>2, <4>3, <5>1, <5>2 DEF IfsMean
      <4> QED
        BY <3>1, <4>1, <4>2, <4>3 DEF OneIs
    <3> QED
      BY <3>3, <3>4
  <2> QED
    BY <2>1, <2>2
<1>2. \A i \in 1 .. n : (\A k \in i + 1 .. n : k \in S) => i \in S
  <2> SUFFICES ASSUME NEW i \in 1 .. n, \A k \in i + 1 .. n : k \in S PROVE P(i)
    OBVIOUS
  <2>1. \A k \in i + 1 .. n : P(k)
    OBVIOUS
  <2> HIDE DEF P
  <2> QED
    BY <1>1, <2>1
<1>3. \A i \in 1 .. n : i \in S
  <2> HIDE DEF S
  <2> QED BY <1>2, FromTheEnd
<1> QED
  BY <1>3

LEMMA InThreeParts ==
  ASSUME NEW i \in Nat, NEW j \in Nat, NEW k \in Nat, NEW m \in Nat, NEW x \in i + 1 .. m - 1
  PROVE  x \in {j, k} \/ x \in i + 1 .. j - 1 \/ x \in j + 1 .. k - 1 \/ x \in k + 1 .. m - 1
OBVIOUS

LEMMA ScanOfParts ==
  ASSUME NEW i \in Nat, NEW j \in Nat, NEW k \in Nat, NEW m \in Nat, i + 2 <= j, j + 2 <= k, k + 2 <= m,
         cmd_list[j] = "then", cmd_list[k] = "else",
         Counted(i, i + 1, j), Counted(i, j + 1, k), Counted(i, k + 1, m)
  PROVE  /\ if_cnt(i, j) = 0 /\ if_cnt(i, k) = 0 /\ if_cnt(i, m) = 0
         /\ \A x \in i + 1 .. m - 1 :
              cmd_list[x] \in {"then", "else", "fi"} /\ if_cnt(i, x) = 0 => x \in {j, k}
<1>1. if_cnt(i, i + 1) = 0 /\ if_cnt(i, j) = 0
  <2>1. i \in Nat /\ i + 1 \in Nat /\ i + 1 <= i + 1
    OBVIOUS
  <2>2. if_cnt(i, i + 1) = 0
    BY <2>1, CountStep
  <2> QED
    BY <2>2 DEF Counted
<1>2. if_cnt(i, j + 1) = 0 /\ if_cnt(i, k) = 0
  <2>1. i < j /\ cmd_list[j] \notin {"if", "fi"}
    OBVIOUS
  <2>2. if_cnt(i, j + 1) = 0
    BY <1>1, <2>1, CountStays
  <2> QED
    BY <2>2 DEF Counted
<1>3. if_cnt(i, k + 1) = 0 /\ if_cnt(i, m) = 0
  <2>1. i < k /\ cmd_list[k] \notin {"if", "fi"}
    OBVIOUS
  <2>2. if_cnt(i, k + 1) = 0
    BY <1>2, <2>1, CountStays
  <2> QED
    BY <2>2 DEF Counted
<1>4. ASSUME NEW x \in i + 1 .. m - 1, cmd_list[x] \in {"then", "else", "fi"}, if_cnt(i, x) = 0
      PROVE  x \in {j, k}
  <2>1. x \in {j, k} \/ x \in i + 1 .. j - 1 \/ x \in j + 1 .. k - 1 \/ x \in k + 1 .. m - 1
    <3>1. i \in Nat /\ j \in Nat /\ k \in Nat /\ m \in Nat
      OBVIOUS
    <3> QED
      BY <3>1, InThreeParts
  <2>2. x \notin i + 1 .. j - 1
    <3>1. x \in i + 1 .. j - 1 => if_cnt(i, x) > if_cnt(i, i + 1)
      BY <1>4 DEF Counted
    <3> QED
      BY <1>1, <1>4, <3>1
  <2>3. x \notin j + 1 .. k - 1
    <3>1. x \in j + 1 .. k - 1 => if_cnt(i, x) > if_cnt(i, j + 1)
      BY <1>4 DEF Counted
    <3> QED
      BY <1>2, <1>4, <3>1
  <2>4. x \notin k + 1 .. m - 1
    <3>1. x \in k + 1 .. m - 1 => if_cnt(i, x) > if_cnt(i, k + 1)
      BY <1>4 DEF Counted
    <3> QED
      BY <1>3, <1>4, <3>1
  <2> QED
    BY <2>1, <2>2, <2>3, <2>4
<1> QED
  BY <1>1, <1>2, <1>3, <1>4

LEMMA CountedFrom ==
  ASSUME Len(cmd_list) \in Nat, DOMAIN cmd_list = 1 .. Len(cmd_list),
         NEW a \in 1 .. Len(cmd_list), NEW b \in Nat, b < a, NEW e, e # 0, e = After[a]
  PROVE  Counted(b, a, e)
<1>1. b \in 0 .. a - 1
  OBVIOUS
<1> QED
  BY <1>1, CommandsCounted

\* The commands of the if at i end at its then, its else and its fi.
PartsEnd(i, j, k, m) == j = After[i + 1] /\ k = After[j + 1] /\ m = After[k + 1]
PartsIn(n, i, j, k, m) == i \in 1 .. n /\ j \in i + 2 .. n /\ k \in j + 2 .. n /\ m \in k + 2 .. n

LEMMA PartsCounted ==
  ASSUME Len(cmd_list) \in Nat, DOMAIN cmd_list = 1 .. Len(cmd_list), NEW i \in Nat, NEW j \in Nat, NEW k \in Nat, NEW m \in Nat,
         i < j, j < k, i + 1 \in 1 .. Len(cmd_list), j + 1 \in 1 .. Len(cmd_list), k + 1 \in 1 .. Len(cmd_list),
         j # 0, k # 0, m # 0, PartsEnd(i, j, k, m)
  PROVE  Counted(i, i + 1, j) /\ Counted(i, j + 1, k) /\ Counted(i, k + 1, m)
<1>1. i < i + 1 /\ i < j + 1 /\ i < k + 1
  OBVIOUS
<1>2. Counted(i, i + 1, j)
  <2>1. j = After[i + 1]
    BY DEF PartsEnd
  <2> QED
    BY <1>1, <2>1, CountedFrom
<1>3. Counted(i, j + 1, k)
  <2>1. k = After[j + 1]
    BY DEF PartsEnd
  <2> QED
    BY <1>1, <2>1, CountedFrom
<1>4. Counted(i, k + 1, m)
  <2>1. m = After[k + 1]
    BY DEF PartsEnd
  <2> QED
    BY <1>1, <2>1, CountedFrom
<1> QED
  BY <1>2, <1>3, <1>4

LEMMA ScanOfIf ==
  ASSUME Len(cmd_list) \in Nat, DOMAIN cmd_list = 1 .. Len(cmd_list), NEW i, NEW j, NEW k, NEW m,
         PartsIn(Len(cmd_list), i, j, k, m), PartsEnd(i, j, k, m), cmd_list[j] = "then", cmd_list[k] = "else"
  PROVE  /\ if_cnt(i, j) = 0 /\ if_cnt(i, k) = 0 /\ if_cnt(i, m) = 0
         /\ \A x \in i + 1 .. m - 1 :
              cmd_list[x] \in {"then", "else", "fi"} /\ if_cnt(i, x) = 0 => x \in {j, k}
<1> DEFINE n == Len(cmd_list)
<1>1. n \in Nat /\ PartsIn(n, i, j, k, m)
  OBVIOUS
<1> HIDE DEF n
<1>2. /\ i \in Nat /\ j \in Nat /\ k \in Nat /\ m \in Nat /\ i + 2 <= j /\ j + 2 <= k /\ k + 2 <= m
      /\ i + 1 \in i + 1 .. n /\ j + 1 \in i + 1 .. n /\ k + 1 \in i + 1 .. n /\ j # 0 /\ k # 0 /\ m # 0
  <2>1. i \in 1 .. n /\ j \in i + 2 .. n /\ k \in j + 2 .. n /\ m \in k + 2 .. n
    BY <1>1 DEF PartsIn
  <2> QED
    BY <1>1, <2>1, IfParts
<1>3. i < j /\ j < k /\ i + 1 \in 1 .. n /\ j + 1 \in 1 .. n /\ k + 1 \in 1 .. n
  BY <1>1, <1>2
<1>4. Counted(i, i + 1, j) /\ Counted(i, j + 1, k) /\ Counted(i, k + 1, m)
  BY <1>2, <1>3, PartsCounted DEF n
<1> QED
  BY <1>2, <1>4, ScanOfParts

\* The then, the else and the fi that execute finds are those of the if it stands on.
LEMMA FoundAsMeant ==
  ASSUME ExecInv, NEW i \in 1 .. Len(cmd_list), cmd_list[i] = "if", After[i] # 0
  PROVE  then_locn(i) = After[i + 1] /\ else_locn(i) = After[After[i + 1] + 1]
<1> DEFINE n == Len(cmd_list)
<1>1. n \in Nat /\ DOMAIN cmd_list = 1 .. n
  BY InvFacts
<1>2. IfIs(After, i, After[i])
  BY <1>1, IfFacts
<1>3. PICK j, k, m : /\ j = After[i + 1] /\ j \in i + 2 .. n /\ cmd_list[j] = "then"
                     /\ k = After[j + 1] /\ k \in j + 2 .. n /\ cmd_list[k] = "else"
                     /\ m = After[k + 1] /\ m \in k + 2 .. n /\ cmd_list[m] = "fi"
                     /\ After[i] = m + 1
  BY <1>2 DEF IfIs
<1>4. /\ if_cnt(i, j) = 0 /\ if_cnt(i, k) = 0 /\ if_cnt(i, m) = 0
      /\ \A x \in i + 1 .. m - 1 :
           cmd_list[x] \in {"then", "else", "fi"} /\ if_cnt(i, x) = 0 => x \in {j, k}
  <2>1. PartsIn(Len(cmd_list), i, j, k, m) /\ PartsEnd(i, j, k, m)
    BY <1>3 DEF PartsIn, PartsEnd
  <2>2. cmd_list[j] = "then" /\ cmd_list[k] = "else"
    BY <1>3
  <2> QED
    BY <1>1, <2>1, <2>2, ScanOfIf
<1>5. i \in Nat /\ j \in Nat /\ k \in Nat /\ m \in Nat /\ i < j /\ j < k /\ k < m /\ m <= n
  <2>1. i \in 1 .. n /\ j \in i + 2 .. n /\ k \in j + 2 .. n /\ m \in k + 2 .. n
    BY <1>3
  <2> HIDE DEF n
  <2>2. /\ i \in Nat /\ j \in Nat /\ k \in Nat /\ m \in Nat /\ i + 2 <= j /\ j + 2 <= k /\ k + 2 <= m /\ m <= n
    BY <1>1, <2>1, IfParts
  <2> QED
    BY <2>2
<1>6. /\ fi_locn(i) \in Nat /\ fi_locn(i) <= n + 1
      /\ \A x \in At0("fi", i, n) : fi_locn(i) <= x
      /\ fi_locn(i) # n + 1 => fi_locn(i) \in At0("fi", i, n)
  BY <1>5, FiTyped
<1>7. fi_locn(i) = m
  <2>1. m \in At0("fi", i, n)
    <3>1. m \in i + 1 .. n
      BY <1>1, <1>5
    <3> QED
      BY <1>3, <1>4, <3>1 DEF At0
  <2>2. fi_locn(i) <= m /\ fi_locn(i) \in At0("fi", i, n)
    BY <1>1, <1>5, <1>6, <2>1
  <2>3. fi_locn(i) \in i + 1 .. n /\ cmd_list[fi_locn(i)] = "fi" /\ if_cnt(i, fi_locn(i)) = 0
    BY <2>2 DEF At0
  <2>4. fi_locn(i) \notin {j, k}
    BY <1>3, <2>3
  <2>5. fi_locn(i) \notin i + 1 .. m - 1
    BY <1>4, <2>3, <2>4
  <2> QED
    BY <1>1, <1>5, <2>2, <2>3, <2>5
<1>8. At0("then", i, m - 1) = {j} /\ At0("else", i, m - 1) = {k}
  <2>1. j \in i + 1 .. m - 1 /\ k \in i + 1 .. m - 1
    BY <1>5
  <2>2. \A x \in i + 1 .. m - 1 : cmd_list[x] = "then" /\ if_cnt(i, x) = 0 => x = j
    BY <1>3, <1>4
  <2>3. \A x \in i + 1 .. m - 1 : cmd_list[x] = "else" /\ if_cnt(i, x) = 0 => x = k
    BY <1>3, <1>4
  <2> QED
    BY <1>3, <1>4, <2>1, <2>2, <2>3 DEF At0
<1>9. then_locn(i) = j
  <2>1. {j} # {} => Max({j} \cup {0}) \in {j}
    BY <1>5, <1>7, <1>8, ArmTyped
  <2> QED
    BY <1>7, <1>8, <2>1 DEF then_locn
<1>10. else_locn(i) = k
  <2>1. {k} # {} => Max({k} \cup {0}) \in {k}
    BY <1>5, <1>7, <1>8, ArmTyped
  <2> QED
    BY <1>7, <1>8, <2>1 DEF else_locn
<1> QED
  BY <1>3, <1>9, <1>10

-----------------------------------------------------------------------------
(* Meaning is what its definition says.                                    *)

\* The ifs and the pipelines of the line are whole.
Whole == /\ Len(cmd_list) \in Nat /\ DOMAIN cmd_list = 1 .. Len(cmd_list) /\ exists \subseteq 1 .. Len(cmd_list)
         /\ \A k \in 1 .. Len(cmd_list) : /\ cmd_list[k] = "if" => After[k] # 0
                                          /\ cmd_list[k] = "|" => k + 1 <= Len(cmd_list)

Meanings == [ran : SUBSET (1 .. Len(cmd_list)), ok : BOOLEAN]

\* The branch that is taken, and Meaning at i, given what f says of the places behind it.
ArmBy(f, i) == IF f[i + 1].ok THEN After[i + 1] + 1 ELSE After[After[i + 1] + 1] + 1
MeaningBy(f, i) ==
  CASE cmd_list[i] = "if" -> [ran |-> f[i + 1].ran \cup f[ArmBy(f, i)].ran, ok |-> f[ArmBy(f, i)].ok]
    [] cmd_list[i] # "if" /\ At(cmd_list, i + 1) = "|" ->
         [ran |-> (exists \cap {i}) \cup f[i + 2].ran, ok |-> f[i + 2].ok]
    [] cmd_list[i] # "if" /\ At(cmd_list, i + 1) = ">" ->
         IF {i, i + 2} \subseteq exists THEN [ran |-> {i}, ok |-> TRUE] ELSE [ran |-> {}, ok |-> FALSE]
    [] OTHER -> [ran |-> exists \cap {i}, ok |-> i \in exists]

LEMMA ArmsAre ==
  ASSUME Whole, NEW i \in 1 .. Len(cmd_list), cmd_list[i] = "if"
  PROVE  /\ i + 1 \in i + 1 .. Len(cmd_list)
         /\ After[i + 1] \in i + 2 .. Len(cmd_list) /\ After[i + 1] + 1 \in i + 1 .. Len(cmd_list)
         /\ After[After[i + 1] + 1] + 1 \in i + 1 .. Len(cmd_list)
         /\ After[i] \in i + 1 .. Len(cmd_list) + 1
         /\ \A a \in {i + 1, After[i + 1] + 1, After[After[i + 1] + 1] + 1} : After[a] # 0 /\ After[a] < After[i]
<1> DEFINE n == Len(cmd_list)
<1>1. n \in Nat /\ DOMAIN cmd_list = 1 .. n /\ After[i] # 0
  BY DEF Whole
<1>2. IfIs(After, i, After[i])
  BY <1>1, IfFacts
<1>3. PICK j, k, m : /\ j = After[i + 1] /\ j \in i + 2 .. n /\ cmd_list[j] = "then"
                     /\ k = After[j + 1] /\ k \in j + 2 .. n /\ cmd_list[k] = "else"
                     /\ m = After[k + 1] /\ m \in k + 2 .. n /\ cmd_list[m] = "fi"
                     /\ After[i] = m + 1
  BY <1>2 DEF IfIs
<1> HIDE DEF n
<1>4. /\ i \in Nat /\ j \in Nat /\ k \in Nat /\ m \in Nat /\ i + 2 <= j /\ j + 2 <= k /\ k + 2 <= m /\ m <= n
      /\ i + 1 \in i + 1 .. n /\ j + 1 \in i + 1 .. n /\ k + 1 \in i + 1 .. n /\ m + 1 \in i + 1 .. n + 1
  <2>1. i \in 1 .. n /\ j \in i + 2 .. n /\ k \in j + 2 .. n /\ m \in k + 2 .. n
    BY <1>3 DEF n
  <2> QED
    BY <1>1, <2>1, IfParts
<1>5. /\ i + 1 \in i + 1 .. n /\ j + 1 \in i + 1 .. n /\ k + 1 \in i + 1 .. n /\ m + 1 \in i + 1 .. n + 1
      /\ j # 0 /\ k # 0 /\ m # 0 /\ j < m + 1 /\ k < m + 1 /\ m < m + 1
  BY <1>1, <1>4
<1> QED
  BY <1>3, <1>5 DEF n

LEMMA MeaningAtIf ==
  ASSUME NEW i, cmd_list[i] = "if", NEW f
  PROVE  MeaningBy(f, i) = [ran |-> f[i + 1].ran \cup f[ArmBy(f, i)].ran, ok |-> f[ArmBy(f, i)].ok]
BY DEF MeaningBy

LEMMA MeaningAtPipe ==
  ASSUME NEW i, cmd_list[i] # "if", NEW f, At(cmd_list, i + 1) = "|"
  PROVE  MeaningBy(f, i) = [ran |-> (exists \cap {i}) \cup f[i + 2].ran, ok |-> f[i + 2].ok]
BY DEF MeaningBy

LEMMA MeaningAtFile ==
  ASSUME NEW i, cmd_list[i] # "if", NEW f, At(cmd_list, i + 1) = ">"
  PROVE  MeaningBy(f, i) = IF {i, i + 2} \subseteq exists THEN [ran |-> {i}, ok |-> TRUE] ELSE [ran |-> {}, ok |-> FALSE]
BY DEF MeaningBy

LEMMA MeaningAtOne ==
  ASSUME NEW i, cmd_list[i] # "if", NEW f, At(cmd_list, i + 1) \notin {"|", ">"}
  PROVE  MeaningBy(f, i) = [ran |-> exists \cap {i}, ok |-> i \in exists]
BY DEF MeaningBy

LEMMA PipeIsInside ==
  ASSUME Whole, NEW i \in 1 .. Len(cmd_list), At(cmd_list, i + 1) = "|"
  PROVE  i + 2 \in i + 1 .. Len(cmd_list) /\ cmd_list[i + 1] = "|"
<1>1. Len(cmd_list) \in Nat /\ DOMAIN cmd_list = 1 .. Len(cmd_list) /\ i + 1 \in Nat
  BY DEF Whole
<1>2. At(cmd_list, i + 1) # Blank
  BY DEF Blank
<1>3. i + 1 \in 1 .. Len(cmd_list) /\ cmd_list[i + 1] = "|"
  BY <1>1, <1>2, PlaceIs
<1>4. (i + 1) + 1 <= Len(cmd_list)
  BY <1>3 DEF Whole
<1> QED
  BY <1>1, <1>3, <1>4

LEMMA OneMeaning ==
  ASSUME NEW r \in SUBSET (1 .. Len(cmd_list)), NEW v \in BOOLEAN
  PROVE  [ran |-> r, ok |-> v] \in Meanings
BY DEF Meanings

LEMMA MeaningTyped ==
  ASSUME Whole, NEW i \in 1 .. Len(cmd_list), NEW f, \A k \in i + 1 .. Len(cmd_list) : f[k] \in Meanings
  PROVE  MeaningBy(f, i) \in Meanings
<1>1. CASE cmd_list[i] = "if"
  <2>1. i + 1 \in i + 1 .. Len(cmd_list) /\ ArmBy(f, i) \in i + 1 .. Len(cmd_list)
    BY <1>1, ArmsAre DEF ArmBy
  <2>2. f[i + 1] \in Meanings /\ f[ArmBy(f, i)] \in Meanings
    BY <2>1
  <2>3. MeaningBy(f, i) = [ran |-> f[i + 1].ran \cup f[ArmBy(f, i)].ran, ok |-> f[ArmBy(f, i)].ok]
    BY <1>1, MeaningAtIf
  <2> QED
    BY <2>2, <2>3 DEF Meanings
<1>2. CASE cmd_list[i] # "if" /\ At(cmd_list, i + 1) = "|"
  <2>1. f[i + 2] \in Meanings
    BY <1>2, PipeIsInside
  <2>2. MeaningBy(f, i) = [ran |-> (exists \cap {i}) \cup f[i + 2].ran, ok |-> f[i + 2].ok]
    BY <1>2, MeaningAtPipe
  <2> QED
    BY <2>1, <2>2 DEF Meanings
<1>3. CASE cmd_list[i] # "if" /\ At(cmd_list, i + 1) = ">"
  <2>1. {} \in SUBSET (1 .. Len(cmd_list)) /\ {i} \in SUBSET (1 .. Len(cmd_list))
    OBVIOUS
  <2>2. [ran |-> {i}, ok |-> TRUE] \in Meanings /\ [ran |-> {}, ok |-> FALSE] \in Meanings
    BY <2>1, OneMeaning
  <2>3. MeaningBy(f, i) = IF {i, i + 2} \subseteq exists THEN [ran |-> {i}, ok |-> TRUE] ELSE [ran |-> {}, ok |-> FALSE]
    BY <1>3, MeaningAtFile
  <2> QED
    BY <2>2, <2>3
<1>4. CASE cmd_list[i] # "if" /\ At(cmd_list, i + 1) \notin {"|", ">"}
  <2>1. exists \cap {i} \in SUBSET (1 .. Len(cmd_list)) /\ (i \in exists) \in BOOLEAN
    OBVIOUS
  <2>2. [ran |-> exists \cap {i}, ok |-> i \in exists] \in Meanings
    BY <2>1, OneMeaning
  <2> QED
    BY <1>4, <2>2, MeaningAtOne
<1> QED
  BY <1>1, <1>2, <1>3, <1>4

LEMMA SameMeaning ==
  ASSUME Whole, NEW i \in 1 .. Len(cmd_list), NEW f, NEW g, \A k \in i + 1 .. Len(cmd_list) : g[k] = f[k]
  PROVE  MeaningBy(g, i) = MeaningBy(f, i)
<1>1. CASE cmd_list[i] = "if"
  <2>1. g[i + 1] = f[i + 1] /\ ArmBy(f, i) \in i + 1 .. Len(cmd_list)
    BY <1>1, ArmsAre DEF ArmBy
  <2>2. ArmBy(g, i) = ArmBy(f, i) /\ g[ArmBy(f, i)] = f[ArmBy(f, i)]
    BY <2>1 DEF ArmBy
  <2> QED
    BY <1>1, <2>1, <2>2, MeaningAtIf
<1>2. CASE cmd_list[i] # "if" /\ At(cmd_list, i + 1) = "|"
  <2>1. g[i + 2] = f[i + 2]
    BY <1>2, PipeIsInside
  <2> QED
    BY <1>2, <2>1, MeaningAtPipe
<1>3. CASE cmd_list[i] # "if" /\ At(cmd_list, i + 1) = ">"
  BY <1>3, MeaningAtFile
<1>4. CASE cmd_list[i] # "if" /\ At(cmd_list, i + 1) \notin {"|", ">"}
  BY <1>4, MeaningAtOne
<1> QED
  BY <1>1, <1>2, <1>3, <1>4

LEMMA MeaningIs ==
  ASSUME Whole
  PROVE  \A i \in 1 .. Len(cmd_list) : Meaning[i] = MeaningBy(Meaning, i) /\ Meaning[i] \in Meanings
<1> DEFINE n == Len(cmd_list)
           D == 1 .. n
           Good(f, m) == \A i \in D : i > n - m => f[i] = MeaningBy(f, i)
           Defined(m) == \E f \in [D -> Meanings] : Good(f, m)
           S == {m \in Nat : m <= n => Defined(m)}
<1>0. n \in Nat
  BY DEF Whole
<1>1. 0 \in S
  <2>1. [ran |-> {}, ok |-> FALSE] \in Meanings
    BY OneMeaning
  <2> DEFINE f == [i \in D |-> [ran |-> {}, ok |-> FALSE]]
  <2>2. f \in [D -> Meanings]
    BY <2>1
  <2> HIDE DEF f
  <2>3. Good(f, 0)
    BY <1>0
  <2> QED
    BY <2>2, <2>3
<1>2. ASSUME NEW m \in Nat, m + 1 <= n, NEW f \in [D -> Meanings], Good(f, m)
      PROVE  \E g \in [D -> Meanings] : Good(g, m + 1)
  <2> DEFINE j == n - m
             e == MeaningBy(f, j)
             g == [f EXCEPT ![j] = e]
  <2>1. j \in D
    BY <1>0, <1>2
  <2>2. e \in Meanings
    <3>1. j \in 1 .. Len(cmd_list) /\ \A k \in j + 1 .. Len(cmd_list) : f[k] \in Meanings
      BY <1>0, <2>1
    <3> HIDE DEF j
    <3> QED
      BY <3>1, MeaningTyped
  <2>3. g \in [D -> Meanings] /\ g[j] = e /\ \A k \in D : k # j => g[k] = f[k]
    <3> HIDE DEF e, j
    <3> QED BY <2>1, <2>2
  <2> HIDE DEF g
  <2>4. ASSUME NEW i \in D, i > n - (m + 1) PROVE g[i] = MeaningBy(g, i)
    <3>1. i >= j
      BY <1>0, <2>4
    <3>2. MeaningBy(g, i) = MeaningBy(f, i)
      <4>1. \A k \in i + 1 .. Len(cmd_list) : g[k] = f[k]
        BY <1>0, <2>1, <2>3, <3>1
      <4> QED
        BY <4>1, SameMeaning
    <3>3. CASE i = j
      BY <2>3, <3>2, <3>3
    <3>4. CASE i # j
      <4>1. g[i] = f[i] /\ i > n - m
        BY <1>0, <2>1, <2>3, <3>1, <3>4
      <4> QED
        BY <1>2, <3>2, <4>1
    <3> QED
      BY <3>3, <3>4
  <2>5. Good(g, m + 1)
    BY <2>4
  <2> QED
    BY <2>3, <2>5
<1>3. ASSUME NEW m \in Nat, m <= n => Defined(m), m + 1 <= n PROVE Defined(m + 1)
  <2>1. Defined(m)
    BY <1>0, <1>3
  <2> HIDE DEF Good
  <2>2. PICK f \in [D -> Meanings] : Good(f, m)
    BY <2>1
  <2> QED
    BY <1>2, <1>3, <2>2
<1>4. Defined(n)
  <2> HIDE DEF Defined
  <2>1. \A m \in Nat : m \in S => m + 1 \in S
    BY <1>3
  <2>2. \A m \in Nat : m \in S
    <3> HIDE DEF S
    <3> QED BY <1>1, <2>1, Induction
  <2> QED
    BY <1>0, <2>2
<1>5. PICK f \in [D -> Meanings] : Good(f, n)
  <2> HIDE DEF Good
  <2> QED BY <1>4
<1>6. \A i \in D : f[i] = MeaningBy(f, i)
  BY <1>0, <1>5
<1>7. f = [i \in D |-> MeaningBy(f, i)]
  <2> HIDE DEF D, Good
  <2> QED BY <1>6
<1>8. \E h : h = [i \in D |-> MeaningBy(h, i)]
  BY <1>7
<1>9. Meaning = [i \in D |-> MeaningBy(Meaning, i)]
  BY <1>8 DEF Meaning, MeaningBy, ArmBy
<1> HIDE DEF Good, Defined, S
<1>10. \A i \in D : Meaning[i] = MeaningBy(Meaning, i)
  BY <1>9
<1> DEFINE T == {i \in D : Meaning[i] \in Meanings}
<1>11. \A i \in 1 .. n : (\A k \in i + 1 .. n : k \in T) => i \in T
  <2> SUFFICES ASSUME NEW i \in D, \A k \in i + 1 .. n : k \in T PROVE Meaning[i] \in Meanings
    OBVIOUS
  <2>1. \A k \in i + 1 .. n : Meaning[k] \in Meanings
    OBVIOUS
  <2>2. MeaningBy(Meaning, i) \in Meanings
    BY <2>1, MeaningTyped
  <2> QED
    BY <1>10, <2>2
<1>12. \A i \in 1 .. n : i \in T
  <2> HIDE DEF T
  <2> QED BY <1>0, <1>11, FromTheEnd
<1> QED
  BY <1>10, <1>12

-----------------------------------------------------------------------------
(* The processes of a line do what it means.                               *)

LEMMA MeaningStays ==
  ASSUME cmd_list' = cmd_list, exists' = exists
  PROVE  After' = After /\ Meaning' = Meaning
<1>1. After' = After
  BY DEF After, At, Then, Simple
<1>2. Meaning' = Meaning
  BY DEF Meaning, After, At, Then, Simple
<1> QED
  BY <1>1, <1>2

\* A line whose meaning execute follows.
Clean == Sentence /\ NoStrayReturns /\ ToSet(cmd_list) \cap {"cd", "exit"} = {}

LEMMA SentenceIsWhole ==
  ASSUME ExecInv, Sentence
  PROVE  Whole /\ After[1] # 0 /\ 1 \in 1 .. Len(cmd_list)
<1> DEFINE n == Len(cmd_list)
           e == After[1]
<1>1. n \in Nat /\ DOMAIN cmd_list = 1 .. n /\ exists \subseteq 1 .. n
  BY InvFacts DEF ExecInv, LineInv
<1>2. cmd_list # <<>> /\ e # 0 /\ 1 \in 1 .. n
  <2>1. cmd_list # <<>> /\ After[1] # 0 /\ cmd_list \in Seq(Tokens)
    BY DEF Sentence, ExecInv, LineInv
  <2> QED
    BY <1>1, <2>1
<1>3. IfsMean(1, e) /\ LetThrough(1, e)
  BY <1>1, <1>2, CommandsCounted, CommandsLetThrough
<1>4. \A i \in e .. n : cmd_list[i] \in {"", "&"}
  BY DEF Sentence
<1>5. e \in 2 .. n + 1
  BY <1>1, <1>2, AfterRange
<1>6. ASSUME NEW k \in 1 .. n
      PROVE  /\ cmd_list[k] = "if" => After[k] # 0
             /\ cmd_list[k] = "|" => k + 1 <= n
  <2> HIDE DEF e
  <2>1. CASE k \in 1 .. e - 1
    <3>1. cmd_list[k] = "if" => After[k] # 0
      BY <1>3, <2>1 DEF IfsMean
    <3>2. cmd_list[k] = "|" => k + 1 <= e - 1
      BY <1>3, <2>1 DEF LetThrough
    <3> QED
      BY <1>1, <1>5, <3>1, <3>2
  <2>2. CASE k \in e .. n
    BY <1>4, <2>2
  <2> QED
    BY <1>1, <1>5, <2>1, <2>2
<1> QED
  BY <1>1, <1>2, <1>6 DEF Whole

\* What execute makes of a command is what the command is.
LEMMA ShapeOfCommand ==
  ASSUME ExecInv, Whole, NEW p \in DOMAIN procs, procs[p].at \in 1 .. Len(cmd_list), After[procs[p].at] # 0
  PROVE  LET i == procs[p].at
         IN  /\ Nested(p) <=> cmd_list[i] = "if"
             /\ Piped(p) <=> cmd_list[i] # "if" /\ At(cmd_list, i + 1) = "|"
             /\ Redirected(p) <=> cmd_list[i] # "if" /\ At(cmd_list, i + 1) = ">"
             /\ Piped(p) => i + 2 \in 1 .. Len(cmd_list) /\ After[i + 2] = After[i] /\ cmd_list[i + 1] = "|"
<1> DEFINE i == procs[p].at
           n == Len(cmd_list)
<1>1. n \in Nat /\ DOMAIN cmd_list = 1 .. n /\ i \in 1 .. n
  BY DEF Whole
<1>2. CASE cmd_list[i] = "if"
  <2>1. i + 1 \in 1 .. n /\ After[i + 1] # 0 /\ After[i + 1] \in i + 2 .. n /\ After[i + 1] + 1 \in i + 1 .. n
    BY <1>2, ArmsAre
  <2>2. cmd_list[i + 1] \notin {"|", ">"}
    <3>1. LetThrough(i + 1, After[i + 1])
      BY <1>1, <2>1, CommandsLetThrough
    <3> QED
      BY <3>1 DEF LetThrough
  <2>3. Rest(p) > 2
    BY <1>1, <2>1 DEF Rest
  <2> QED
    BY <1>2, <2>2, <2>3 DEF Nested, Piped, Redirected, Token
<1>3. CASE cmd_list[i] # "if"
  <2>1. OneIs(After, i, After[i])
    BY <1>1, <1>3, OneFacts
  <2>2. After[i] = AfterBy(After, i)
    <3>1. AfterKnown(After)
      BY <1>1, AfterIs
    <3> QED
      BY <1>1, <3>1 DEF AfterKnown
  <2>3. Simple(i)
    BY <1>1, <2>1 DEF OneIs, Simple, At
  <2>4. At(cmd_list, i) # "if"
    BY <1>3 DEF At
  <2>5. ASSUME At(cmd_list, i + 1) \in {"|", ">"}
        PROVE  /\ i + 2 \in 1 .. n /\ cmd_list[i + 1] = At(cmd_list, i + 1)
               /\ At(cmd_list, i + 1) = "|" => After[i + 2] = After[i]
    <3>1. Simple(i + 2)
      BY <2>2, <2>3, <2>4, <2>5 DEF AfterBy
    <3>2. i + 2 \in 1 .. n
      BY <1>1, <3>1, SimpleIs
    <3>3. cmd_list[i + 1] = At(cmd_list, i + 1)
      BY <1>1, <3>2 DEF At
    <3>4. At(cmd_list, i + 1) = "|" => After[i + 2] = After[i]
      BY <2>2, <2>3, <2>4, <3>1 DEF AfterBy
    <3> QED
      BY <3>2, <3>3, <3>4
  <2>6. ~Nested(p)
    BY <1>3 DEF Nested, Token
  <2>7. Rest(p) > 2 <=> i + 2 <= n
    BY <1>1 DEF Rest
  <2>8. i + 2 <= n => cmd_list[i + 1] = At(cmd_list, i + 1)
    BY <1>1 DEF At
  <2> HIDE DEF i, n
  <2>9. Piped(p) <=> At(cmd_list, i + 1) = "|"
    BY <1>1, <2>5, <2>7, <2>8 DEF Piped, i, n
  <2>10. Redirected(p) <=> At(cmd_list, i + 1) = ">"
    BY <1>1, <2>5, <2>7, <2>8 DEF Redirected, i, n
  <2> QED
    BY <1>3, <2>5, <2>6, <2>9, <2>10 DEF i, n
<1> QED
  BY <1>2, <1>3

Waits(r) == r.pc \in {"wait", "read"}

\* Whether a process comes to its end without an error, and the programs it has still to
\* run itself.
OkOf(r) == \/ r.pc \in {"execute", "wait", "read"} /\ Meaning[r.at].ok
           \/ r.pc = "single" /\ r.at \in exists
           \/ r.pc \in {"program", "ended"}
Due(r) == CASE r.pc = "execute" -> Meaning[r.at].ran
            [] r.pc \in {"wait", "read"} -> Meaning[ArmBy(Meaning, r.at)].ran
            [] r.pc = "single" -> exists \cap {r.at}
            [] OTHER -> {}

\* The command at i is part of the condition of an if.
InCondition(i) == \E k \in 1 .. i - 1 : cmd_list[k] = "if" /\ After[i] <= After[k + 1]

\* A process stands on a command; those that have a pipe to write to are in a condition,
\* and nobody who is to fail has two.
Placed(r) == /\ r.at \in 1 .. Len(cmd_list) /\ After[r.at] # 0
             /\ r.conds # <<>> => InCondition(r.at)
             /\ ~OkOf(r) => Len(r.conds) <= 1

\* What p will read says whether its condition succeeds: of those who could write to its
\* pipe only its child may fail, and if it does it is not over before it has written.
Holds(r, m) == \E k \in DOMAIN r.conds : r.conds[k] = m
Awaits(ps, d, p) ==
  LET child == ps[ps[p].child]
  IN  /\ OkOf(child) <=> Meaning[ps[p].at + 1].ok
      /\ \A q \in DOMAIN ps : Holds(ps[q], ps[p].mb) => OkOf(ps[q]) \/ q = ps[p].child
      /\ d[ps[p].mb] => ~OkOf(child)
      /\ ~OkOf(child) /\ ~d[ps[p].mb] =>
           child.pc \notin Over /\ child.conds # <<>> /\ child.conds[Len(child.conds)] = ps[p].mb
      /\ ps[p].pc = "read" => child.pc \in Over

AllPlaced(ps) == \A p \in DOMAIN ps : Placed(ps[p])
AllAwait(ps, d) == \A p \in DOMAIN ps : Waits(ps[p]) => Awaits(ps, d, p)
\* What has run and what is due is what the line means.
AllDue(ps, rn) == \A x : x \in Meaning[1].ran <=> x \in rn \/ \E p \in DOMAIN ps : x \in Due(ps[p])

\* A process in the condition of an if that comes to another one finds a condition that succeeds.
LEMMA InnerSucceeds ==
  ASSUME Whole, NoStrayReturns, NEW i \in 1 .. Len(cmd_list), cmd_list[i] = "if", InCondition(i)
  PROVE  Meaning[i + 1].ok
<1>1. PICK k \in 1 .. i - 1 : cmd_list[k] = "if" /\ After[i] <= After[k + 1]
  BY DEF InCondition
<1>2. Len(cmd_list) \in Nat /\ DOMAIN cmd_list = 1 .. Len(cmd_list)
  BY DEF Whole
<1>3. k \in 1 .. Len(cmd_list) /\ After[i] \in i + 1 .. Len(cmd_list) + 1 /\ After[k + 1] \in k + 2 .. Len(cmd_list)
  BY <1>1, <1>2, ArmsAre
<1>4. i \in k + 1 .. After[k + 1] - 1
  BY <1>1, <1>2, <1>3
<1> QED
  BY <1>1, <1>2, <1>3, <1>4 DEF NoStrayReturns

LEMMA StillInCondition ==
  ASSUME Whole, NEW i \in 1 .. Len(cmd_list), After[i] # 0, InCondition(i),
         NEW b \in i .. Len(cmd_list), After[b] # 0, After[b] <= After[i]
  PROVE  InCondition(b)
<1>1. PICK k \in 1 .. i - 1 : cmd_list[k] = "if" /\ After[i] <= After[k + 1]
  BY DEF InCondition
<1>2. Len(cmd_list) \in Nat /\ DOMAIN cmd_list = 1 .. Len(cmd_list)
  BY DEF Whole
<1>3. After[i] \in Nat /\ After[b] \in Nat /\ After[k + 1] \in Nat
  <2>1. After[i] \in Nat /\ After[b] \in Nat
    BY <1>2, AfterRange
  <2>2. After[k + 1] \in k + 2 .. Len(cmd_list) /\ k \in Nat
    BY <1>1, <1>2, ArmsAre
  <2> QED
    BY <1>2, <2>1, <2>2
<1>4. After[b] <= After[k + 1] /\ k \in 1 .. b - 1
  BY <1>1, <1>2, <1>3
<1> QED
  BY <1>1, <1>4 DEF InCondition

\* One process goes on, with the pipes it had, and no pipe is written to.
GoesOn(p, r) ==
  /\ procs[p].pc \notin Over
  /\ r.conds = procs[p].conds /\ r.child = procs[p].child /\ r.mb = procs[p].mb
  /\ OkOf(r) <=> OkOf(procs[p])
  /\ Placed(r)
  /\ Waits(r) => Waits(procs[p]) /\ r.at = procs[p].at
  /\ r.pc = "read" => procs[procs[p].child].pc \in Over
  /\ r.pc \in Over => OkOf(r) \/ r.conds = <<>> \/ ~HasReader(r.conds[Len(r.conds)])

LEMMA GoingOnKeepsAll ==
  ASSUME ExecInv, AllPlaced(procs), AllAwait(procs, data), NEW p \in DOMAIN procs, NEW r, GoesOn(p, r),
         NEW ps, ps = [procs EXCEPT ![p] = r]
  PROVE  AllPlaced(ps) /\ AllAwait(ps, data)
<1>1. DOMAIN ps = DOMAIN procs /\ \A q \in DOMAIN procs : ps[q] = IF q = p THEN r ELSE procs[q]
  OBVIOUS
<1>2. AllPlaced(ps)
  BY <1>1 DEF AllPlaced, GoesOn
<1>3. ASSUME NEW q \in DOMAIN procs
      PROVE  /\ ps[q].conds = procs[q].conds /\ ps[q].child = procs[q].child /\ ps[q].mb = procs[q].mb
             /\ OkOf(ps[q]) <=> OkOf(procs[q])
             /\ Waits(ps[q]) => Waits(procs[q]) /\ ps[q].at = procs[q].at
             /\ procs[q].pc \in Over => ps[q].pc \in Over
  BY <1>1 DEF GoesOn
<1>4. ASSUME NEW q \in DOMAIN procs, Waits(ps[q]) PROVE Awaits(ps, data, q)
  <2> DEFINE c == procs[q].child
             m == procs[q].mb
  <2>1. Waits(procs[q]) /\ ps[q].at = procs[q].at /\ ps[q].child = c /\ ps[q].mb = m
    BY <1>3, <1>4
  <2>2. Awaits(procs, data, q)
    BY <2>1 DEF AllAwait
  <2>3. c > q /\ c \in DOMAIN procs
    <3>1. c > q /\ c \in 0 .. Len(procs) /\ q \in 1 .. Len(procs)
      BY <2>1, InvFacts DEF ExecInv, WaitInv, ProcsInv, Waits
    <3> QED
      BY <3>1, InvFacts
  <2>4. OkOf(ps[c]) <=> Meaning[procs[q].at + 1].ok
    BY <1>3, <2>2, <2>3 DEF Awaits
  <2>5. \A o \in DOMAIN ps : Holds(ps[o], m) => OkOf(ps[o]) \/ o = c
    BY <1>1, <1>3, <2>2 DEF Awaits, Holds
  <2>6. data[m] => ~OkOf(ps[c])
    BY <1>3, <2>2, <2>3 DEF Awaits
  <2>7. ASSUME ~OkOf(ps[c]), ~data[m]
        PROVE  ps[c].pc \notin Over /\ ps[c].conds # <<>> /\ ps[c].conds[Len(ps[c].conds)] = m
    <3>1. procs[c].pc \notin Over /\ procs[c].conds # <<>> /\ procs[c].conds[Len(procs[c].conds)] = m
      BY <1>3, <2>2, <2>3, <2>7 DEF Awaits
    <3>2. HasReader(m)
      BY <2>1 DEF HasReader, Waits
    <3>3. ps[c].pc \notin Over
      <4>1. CASE c # p
        BY <1>1, <2>3, <3>1, <4>1
      <4>2. CASE c = p
        <5>1. ps[c] = r
          BY <1>1, <4>2
        <5> QED
          BY <2>7, <3>1, <3>2, <4>2, <5>1 DEF GoesOn
      <4> QED
        BY <4>1, <4>2
    <3> QED
      BY <1>3, <2>3, <3>1, <3>3
  <2>8. ASSUME ps[q].pc = "read" PROVE ps[c].pc \in Over
    <3>1. procs[c].pc \in Over
      <4>1. CASE q = p
        BY <1>1, <2>8, <4>1 DEF GoesOn
      <4>2. CASE q # p
        <5>1. procs[q].pc = "read"
          BY <1>1, <2>8, <4>2
        <5> QED
          BY <2>2, <5>1 DEF Awaits
      <4> QED
        BY <4>1, <4>2
    <3> QED
      BY <1>3, <2>3, <3>1
  <2> HIDE DEF c, m
  <2> QED
    BY <2>1, <2>4, <2>5, <2>6, <2>7, <2>8 DEF Awaits
<1> QED
  BY <1>1, <1>2, <1>4 DEF AllAwait

LEMMA DueGoesOn ==
  ASSUME AllDue(procs, ran), NEW p \in DOMAIN procs, NEW r, NEW ps, ps = [procs EXCEPT ![p] = r],
         NEW rn, rn \cup Due(r) = ran \cup Due(procs[p])
  PROVE  AllDue(ps, rn)
<1>1. DOMAIN ps = DOMAIN procs /\ \A q \in DOMAIN procs : ps[q] = IF q = p THEN r ELSE procs[q]
  OBVIOUS
<1>2. ASSUME NEW x
      PROVE  (x \in rn \/ \E q \in DOMAIN ps : x \in Due(ps[q])) <=> (x \in ran \/ \E q \in DOMAIN procs : x \in Due(procs[q]))
  <2>1. x \in rn \/ x \in Due(r) <=> x \in ran \/ x \in Due(procs[p])
    OBVIOUS
  <2> QED
    BY <1>1, <2>1
<1> QED
  BY <1>2 DEF AllDue

\* A process that fails writes to the pipe of its condition and goes back.
Writes(p, r) ==
  LET c == procs[p].conds
  IN  /\ procs[p].pc = "return" /\ c # <<>>
      /\ r.pc = "return" /\ r.at = procs[p].at /\ r.child = procs[p].child /\ r.mb = procs[p].mb /\ r.conds = Front(c)

LEMMA WritingKeepsAll ==
  ASSUME ExecInv, AllPlaced(procs), AllAwait(procs, data), NEW p \in DOMAIN procs, NEW r, Writes(p, r),
         NEW ps, ps = [procs EXCEPT ![p] = r], NEW d, d = [data EXCEPT ![Last(procs[p].conds)] = TRUE]
  PROVE  AllPlaced(ps) /\ AllAwait(ps, d)
<1> DEFINE w == Last(procs[p].conds)
<1>1. DOMAIN ps = DOMAIN procs /\ \A q \in DOMAIN procs : ps[q] = IF q = p THEN r ELSE procs[q]
  OBVIOUS
<1>2. /\ procs[p].conds \in Seq(Nat) /\ procs[p].conds # <<>> /\ DOMAIN procs[p].conds = 1 .. Len(procs[p].conds)
      /\ Len(procs[p].conds) \in Nat \ {0} /\ w = procs[p].conds[Len(procs[p].conds)]
      /\ r.conds \in Seq(Nat) /\ Len(r.conds) = Len(procs[p].conds) - 1
      /\ \A k \in DOMAIN r.conds : k \in DOMAIN procs[p].conds /\ r.conds[k] = procs[p].conds[k]
  <2>1. procs[p].conds \in Seq(Nat) /\ procs[p].conds # <<>> /\ r.conds = Front(procs[p].conds)
    BY InvFacts DEF Processes, Writes
  <2>2. /\ Len(procs[p].conds) \in Nat \ {0} /\ w = procs[p].conds[Len(procs[p].conds)]
        /\ r.conds \in Seq(Nat) /\ Len(r.conds) = Len(procs[p].conds) - 1
        /\ \A k \in 1 .. Len(procs[p].conds) - 1 : r.conds[k] = procs[p].conds[k]
    BY <2>1, StackFacts
  <2>3. DOMAIN r.conds = 1 .. Len(procs[p].conds) - 1 /\ DOMAIN procs[p].conds = 1 .. Len(procs[p].conds)
    BY <2>1, <2>2
  <2> HIDE DEF w
  <2> QED
    BY <2>1, <2>2, <2>3
<1> HIDE DEF w
<1>3. w \in DOMAIN data /\ \A m \in DOMAIN data : d[m] = IF m = w THEN TRUE ELSE data[m]
  <2>1. Len(procs[p].conds) \in DOMAIN procs[p].conds
    BY <1>2
  <2>2. w \in DOMAIN data
    BY <1>2, <2>1 DEF ExecInv, ProcsInv
  <2> QED
    BY <2>2 DEF w
<1>4. ~OkOf(procs[p]) /\ ~OkOf(r) /\ ~Waits(r) /\ ~Waits(procs[p]) /\ procs[p].pc \notin Over /\ r.pc \notin Over
  BY DEF OkOf, Waits, Writes, Over
<1>5. Holds(procs[p], w)
  <2>1. Len(procs[p].conds) \in DOMAIN procs[p].conds
    BY <1>2
  <2> QED
    BY <1>2, <2>1 DEF Holds
<1>6. AllPlaced(ps)
  <2>1. Placed(procs[p])
    BY DEF AllPlaced
  <2>2. Placed(r)
    BY <1>2, <1>4, <2>1 DEF Placed, Writes
  <2> QED
    BY <1>1, <2>2 DEF AllPlaced
<1>7. ASSUME NEW q \in DOMAIN procs
      PROVE  /\ OkOf(ps[q]) <=> OkOf(procs[q])
             /\ \A m : Holds(ps[q], m) => Holds(procs[q], m)
             /\ ps[q].pc \in Over <=> procs[q].pc \in Over
  <2>1. CASE q = p
    <3>1. ps[q] = r
      BY <1>1, <2>1
    <3> QED
      BY <1>2, <1>4, <2>1, <3>1 DEF Holds
  <2>2. CASE q # p
    BY <1>1, <2>2
  <2> QED
    BY <2>1, <2>2
<1>8. ASSUME NEW q \in DOMAIN procs, Waits(ps[q]) PROVE Awaits(ps, d, q)
  <2> DEFINE c == procs[q].child
             m == procs[q].mb
  <2>1. q # p /\ ps[q] = procs[q] /\ Waits(procs[q])
    BY <1>1, <1>4, <1>8
  <2>2. Awaits(procs, data, q)
    BY <2>1 DEF AllAwait
  <2>3. c \in DOMAIN procs /\ m \in DOMAIN data
    <3>1. c > q /\ c \in 0 .. Len(procs) /\ q \in 1 .. Len(procs) /\ m \in DOMAIN data
      BY <2>1, InvFacts DEF ExecInv, WaitInv, ProcsInv, Waits
    <3> QED
      BY <3>1, InvFacts
  <2>4. OkOf(ps[c]) <=> Meaning[procs[q].at + 1].ok
    BY <1>7, <2>2, <2>3 DEF Awaits
  <2>5. \A o \in DOMAIN ps : Holds(ps[o], m) => OkOf(ps[o]) \/ o = c
    BY <1>1, <1>7, <2>2 DEF Awaits
  <2>6. ASSUME d[m] PROVE ~OkOf(ps[c])
    <3>1. CASE m = w
      <4>1. p = c
        BY <1>4, <1>5, <2>2, <3>1 DEF Awaits
      <4> QED
        BY <1>4, <1>7, <4>1
    <3>2. CASE m # w
      <4>1. data[m]
        BY <1>3, <2>3, <2>6, <3>2
      <4> QED
        BY <1>7, <2>2, <2>3, <4>1 DEF Awaits
    <3> QED
      BY <3>1, <3>2
  <2>7. ASSUME ~OkOf(ps[c]), ~d[m]
        PROVE  ps[c].pc \notin Over /\ ps[c].conds # <<>> /\ ps[c].conds[Len(ps[c].conds)] = m
    <3>1. m # w /\ ~data[m]
      BY <1>3, <2>3, <2>7
    <3>2. procs[c].pc \notin Over /\ procs[c].conds # <<>> /\ procs[c].conds[Len(procs[c].conds)] = m
      BY <1>7, <2>2, <2>3, <2>7, <3>1 DEF Awaits
    <3>3. c # p
      BY <1>2, <3>1, <3>2
    <3> QED
      BY <1>1, <2>3, <3>2, <3>3
  <2>8. ps[q].pc = "read" => ps[c].pc \in Over
    BY <1>7, <2>1, <2>2, <2>3 DEF Awaits
  <2> HIDE DEF c, m
  <2> QED
    BY <2>1, <2>4, <2>5, <2>6, <2>7, <2>8 DEF Awaits, c, m
<1> QED
  BY <1>1, <1>6, <1>8 DEF AllAwait

\* A process makes another one, which can write to the pipes it has itself and perhaps to
\* a new one; it may fail only if it has none of the old ones.
Makes(p, r, s, d) ==
  /\ procs[p].pc = "execute"
  /\ r.conds = procs[p].conds /\ r.pc \notin Over /\ (OkOf(r) <=> OkOf(procs[p]))
  /\ \A m \in DOMAIN data : d[m] = data[m] /\ (Holds(s, m) => OkOf(s))
  /\ Placed(r) /\ Placed(s) /\ s.pc \in {"single", "execute"}

LEMMA ForkFacts ==
  ASSUME ExecInv, NEW p \in DOMAIN procs, NEW r, NEW s, NEW ps, ps = Append([procs EXCEPT ![p] = r], s)
  PROVE  /\ DOMAIN ps = 1 .. Len(procs) + 1 /\ Len(procs) \in Nat /\ DOMAIN procs = 1 .. Len(procs)
         /\ \A q \in DOMAIN procs : ps[q] = IF q = p THEN r ELSE procs[q]
         /\ ps[Len(procs) + 1] = s
<1>1. Len(procs) \in Nat /\ DOMAIN procs = 1 .. Len(procs)
  BY InvFacts
<1> DEFINE os == [procs EXCEPT ![p] = r]
           V == {os[q] : q \in DOMAIN procs} \cup {s}
<1>2. DOMAIN os = 1 .. Len(procs) /\ \A q \in DOMAIN procs : os[q] = IF q = p THEN r ELSE procs[q]
  BY <1>1
<1>3. os = [q \in 1 .. Len(procs) |-> os[q]]
  BY <1>1
<1> HIDE DEF os
<1>4. os \in Seq(V) /\ Len(os) = Len(procs) /\ s \in V
  <2>1. \A q \in 1 .. Len(procs) : os[q] \in V
    BY <1>1
  <2> HIDE DEF V
  <2>2. [q \in 1 .. Len(procs) |-> os[q]] \in Seq(V)
    BY <1>1, <2>1
  <2>3. os \in Seq(V)
    BY <1>3, <2>2
  <2>4. Len(os) = Len(procs)
    BY <1>1, <1>2, <2>3
  <2> QED
    BY <2>3, <2>4 DEF V
<1>5. ps = Append(os, s)
  BY DEF os
<1> HIDE DEF V
<1>6. /\ DOMAIN ps = 1 .. Len(procs) + 1 /\ ps[Len(procs) + 1] = s
      /\ \A q \in 1 .. Len(procs) : ps[q] = os[q]
  BY <1>1, <1>4, <1>5
<1> QED
  BY <1>1, <1>2, <1>6

LEMMA ForkKeepsOthers ==
  ASSUME ExecInv, AllPlaced(procs), AllAwait(procs, data), NEW p \in DOMAIN procs, NEW r, NEW s, NEW d,
         Makes(p, r, s, d), NEW ps, ps = Append([procs EXCEPT ![p] = r], s)
  PROVE  /\ AllPlaced(ps)
         /\ \A q \in DOMAIN ps : Waits(ps[q]) /\ q # p => Awaits(ps, d, q)
<1> DEFINE n == Len(procs)
<1>1. /\ DOMAIN ps = 1 .. n + 1 /\ n \in Nat /\ DOMAIN procs = 1 .. n
      /\ \A q \in DOMAIN procs : ps[q] = IF q = p THEN r ELSE procs[q]
      /\ ps[n + 1] = s
  BY ForkFacts
<1>2. AllPlaced(ps)
  <2> SUFFICES ASSUME NEW q \in DOMAIN ps PROVE Placed(ps[q])
    BY DEF AllPlaced
  <2>1. q = n + 1 \/ q \in DOMAIN procs
    BY <1>1
  <2> QED
    BY <1>1, <2>1 DEF AllPlaced, Makes
<1>3. ASSUME NEW q \in DOMAIN procs
      PROVE  /\ OkOf(ps[q]) <=> OkOf(procs[q])
             /\ ps[q].conds = procs[q].conds
             /\ ps[q].pc \in Over <=> procs[q].pc \in Over
  BY <1>1 DEF Makes, Over
<1>4. ASSUME NEW q \in DOMAIN ps, Waits(ps[q]), q # p PROVE Awaits(ps, d, q)
  <2> DEFINE c == procs[q].child
             m == procs[q].mb
  <2>1. q \in DOMAIN procs /\ ps[q] = procs[q] /\ Waits(procs[q])
    <3>1. q # n + 1
      BY <1>1, <1>4 DEF Makes, Waits
    <3> QED
      BY <1>1, <1>4, <3>1
  <2>2. Awaits(procs, data, q)
    BY <2>1 DEF AllAwait
  <2>3. c \in DOMAIN procs /\ m \in DOMAIN data
    <3>1. c > q /\ c \in 0 .. Len(procs) /\ q \in 1 .. Len(procs) /\ m \in DOMAIN data
      BY <2>1, InvFacts DEF ExecInv, WaitInv, ProcsInv, Waits
    <3> QED
      BY <3>1, InvFacts
  <2>4. OkOf(ps[c]) <=> Meaning[procs[q].at + 1].ok
    BY <1>3, <2>2, <2>3 DEF Awaits
  <2>5. ASSUME NEW o \in DOMAIN ps, Holds(ps[o], m) PROVE OkOf(ps[o]) \/ o = c
    <3>1. CASE o = n + 1
      BY <1>1, <2>3, <2>5, <3>1 DEF Makes
    <3>2. CASE o \in DOMAIN procs
      BY <1>3, <2>2, <2>5, <3>2 DEF Awaits, Holds
    <3> QED
      BY <1>1, <3>1, <3>2
  <2>6. d[m] <=> data[m]
    BY <2>3 DEF Makes
  <2>7. /\ data[m] => ~OkOf(ps[c])
        /\ ~OkOf(ps[c]) /\ ~data[m] =>
             ps[c].pc \notin Over /\ ps[c].conds # <<>> /\ ps[c].conds[Len(ps[c].conds)] = m
        /\ ps[q].pc = "read" => ps[c].pc \in Over
    BY <1>3, <2>1, <2>2, <2>3 DEF Awaits
  <2> HIDE DEF c, m
  <2> QED
    BY <2>1, <2>4, <2>5, <2>6, <2>7 DEF Awaits, c, m
<1> QED
  BY <1>2, <1>4

LEMMA DueForks ==
  ASSUME ExecInv, AllDue(procs, ran), NEW p \in DOMAIN procs, NEW r, NEW s, NEW ps,
         ps = Append([procs EXCEPT ![p] = r], s), Due(r) \cup Due(s) = Due(procs[p])
  PROVE  AllDue(ps, ran)
<1> DEFINE n == Len(procs)
<1>1. /\ DOMAIN ps = 1 .. n + 1 /\ n \in Nat /\ DOMAIN procs = 1 .. n
      /\ \A q \in DOMAIN procs : ps[q] = IF q = p THEN r ELSE procs[q]
      /\ ps[n + 1] = s
  BY ForkFacts
<1>2. ASSUME NEW x
      PROVE  (\E q \in DOMAIN ps : x \in Due(ps[q])) <=> (\E q \in DOMAIN procs : x \in Due(procs[q]))
  <2>1. x \in Due(r) \/ x \in Due(s) <=> x \in Due(procs[p])
    OBVIOUS
  <2>2. ASSUME NEW q \in DOMAIN procs, x \in Due(procs[q]) PROVE \E o \in DOMAIN ps : x \in Due(ps[o])
    <3>1. CASE q # p
      BY <1>1, <2>2, <3>1
    <3>2. CASE q = p /\ x \in Due(r)
      BY <1>1, <3>2
    <3>3. CASE q = p /\ x \in Due(s)
      <4>1. n + 1 \in DOMAIN ps
        BY <1>1
      <4> QED
        BY <1>1, <3>3, <4>1
    <3> QED
      BY <2>1, <2>2, <3>1, <3>2, <3>3
  <2>3. ASSUME NEW o \in DOMAIN ps, x \in Due(ps[o]) PROVE \E q \in DOMAIN procs : x \in Due(procs[q])
    <3>1. CASE o = n + 1
      BY <1>1, <2>1, <2>3, <3>1
    <3>2. CASE o \in DOMAIN procs
      BY <1>1, <2>1, <2>3, <3>2
    <3> QED
      BY <1>1, <3>1, <3>2
  <2> QED
    BY <2>2, <2>3
<1> QED
  BY <1>2 DEF AllDue

Doing(ps, d, rn) == AllPlaced(ps) /\ AllAwait(ps, d) /\ AllDue(ps, rn)

LEMMA CleanFacts ==
  ASSUME ExecInv, Clean
  PROVE  /\ Whole /\ NoStrayReturns /\ Len(cmd_list) \in Nat /\ DOMAIN cmd_list = 1 .. Len(cmd_list)
         /\ After[1] # 0 /\ 1 \in 1 .. Len(cmd_list)
         /\ \A i \in 1 .. Len(cmd_list) : /\ cmd_list[i] \notin {"cd", "exit"}
                                          /\ cmd_list[i] = "|" => i - 1 \in exists
<1>1. Whole /\ After[1] # 0 /\ 1 \in 1 .. Len(cmd_list)
  BY SentenceIsWhole DEF Clean
<1>2. Len(cmd_list) \in Nat /\ DOMAIN cmd_list = 1 .. Len(cmd_list)
  BY InvFacts
<1>3. \A i \in 1 .. Len(cmd_list) : cmd_list[i] \notin {"cd", "exit"}
  BY <1>2 DEF Clean, ToSet
<1> QED
  BY <1>1, <1>2, <1>3 DEF Clean, NoStrayReturns

\* A process with a new pc and place.
Gone(o, v, a) == [o EXCEPT !.pc = v, !.at = a]

LEMMA GoneIs ==
  ASSUME NEW o \in Processes, NEW v, NEW a
  PROVE  /\ Gone(o, v, a).pc = v /\ Gone(o, v, a).at = a /\ Gone(o, v, a).conds = o.conds
         /\ Gone(o, v, a).child = o.child /\ Gone(o, v, a).mb = o.mb
BY DEF Processes, Gone

LEMMA MovingKeepsAll ==
  ASSUME ExecInv, Doing(procs, data, ran), NEW p \in DOMAIN procs, NEW v, NEW a,
         procs' = [procs EXCEPT ![p].pc = v, ![p].at = a] \/ (procs' = [procs EXCEPT ![p].pc = v] /\ a = procs[p].at),
         data' = data, GoesOn(p, Gone(procs[p], v, a)), ran' \cup Due(Gone(procs[p], v, a)) = ran \cup Due(procs[p])
  PROVE  Doing(procs', data', ran')
<1> DEFINE r == Gone(procs[p], v, a)
<1>1. procs[p] \in Processes
  BY InvFacts
<1>2. procs' = [procs EXCEPT ![p] = r]
  <2>1. CASE procs' = [procs EXCEPT ![p].pc = v, ![p].at = a]
    BY <2>1 DEF Gone
  <2>2. CASE procs' = [procs EXCEPT ![p].pc = v] /\ a = procs[p].at
    <3>1. r = [procs[p] EXCEPT !.pc = v]
      BY <1>1, <2>2 DEF Processes, Gone
    <3> QED
      BY <2>2, <3>1
  <2> QED
    BY <2>1, <2>2
<1>3. GoesOn(p, r) /\ ran' \cup Due(r) = ran \cup Due(procs[p])
  OBVIOUS
<1> HIDE DEF r
<1>4. AllPlaced(procs) /\ AllAwait(procs, data) /\ AllDue(procs, ran)
  BY DEF Doing
<1>5. AllPlaced(procs') /\ AllAwait(procs', data)
  BY <1>2, <1>3, <1>4, GoingOnKeepsAll
<1>6. AllDue(procs', ran')
  BY <1>2, <1>3, <1>4, DueGoesOn
<1> QED
  BY <1>5, <1>6 DEF Doing

\* What the place of a process means.
LEMMA MeaningAt ==
  ASSUME ExecInv, Whole, NEW i \in 1 .. Len(cmd_list)
  PROVE  /\ Meaning[i].ok \in BOOLEAN /\ Meaning[i].ran \subseteq 1 .. Len(cmd_list)
         /\ cmd_list[i] = "if" => /\ Meaning[i].ran = Meaning[i + 1].ran \cup Meaning[ArmBy(Meaning, i)].ran
                                  /\ Meaning[i].ok <=> Meaning[ArmBy(Meaning, i)].ok
         /\ cmd_list[i] # "if" /\ At(cmd_list, i + 1) = "|" =>
              /\ Meaning[i].ran = (exists \cap {i}) \cup Meaning[i + 2].ran
              /\ Meaning[i].ok <=> Meaning[i + 2].ok
         /\ cmd_list[i] # "if" /\ At(cmd_list, i + 1) = ">" =>
              /\ Meaning[i].ran = IF {i, i + 2} \subseteq exists THEN {i} ELSE {}
              /\ Meaning[i].ok <=> {i, i + 2} \subseteq exists
         /\ cmd_list[i] # "if" /\ At(cmd_list, i + 1) \notin {"|", ">"} =>
              /\ Meaning[i].ran = exists \cap {i}
              /\ Meaning[i].ok <=> i \in exists
<1>1. Meaning[i] = MeaningBy(Meaning, i) /\ Meaning[i] \in Meanings
  BY MeaningIs
<1>2. Meaning[i].ok \in BOOLEAN /\ Meaning[i].ran \subseteq 1 .. Len(cmd_list)
  BY <1>1 DEF Meanings
<1>3. CASE cmd_list[i] = "if"
  <2>1. MeaningBy(Meaning, i) = [ran |-> Meaning[i + 1].ran \cup Meaning[ArmBy(Meaning, i)].ran,
                                 ok |-> Meaning[ArmBy(Meaning, i)].ok]
    BY <1>3, MeaningAtIf
  <2> QED
    BY <1>1, <1>2, <1>3, <2>1
<1>4. CASE cmd_list[i] # "if" /\ At(cmd_list, i + 1) = "|"
  <2>1. MeaningBy(Meaning, i) = [ran |-> (exists \cap {i}) \cup Meaning[i + 2].ran, ok |-> Meaning[i + 2].ok]
    BY <1>4, MeaningAtPipe
  <2> QED
    BY <1>1, <1>2, <1>4, <2>1
<1>5. CASE cmd_list[i] # "if" /\ At(cmd_list, i + 1) = ">"
  <2>1. MeaningBy(Meaning, i)
          = IF {i, i + 2} \subseteq exists THEN [ran |-> {i}, ok |-> TRUE] ELSE [ran |-> {}, ok |-> FALSE]
    BY <1>5, MeaningAtFile
  <2> QED
    BY <1>1, <1>2, <1>5, <2>1
<1>6. CASE cmd_list[i] # "if" /\ At(cmd_list, i + 1) \notin {"|", ">"}
  <2> DEFINE b == i \in exists
  <2>1. MeaningBy(Meaning, i) = [ran |-> exists \cap {i}, ok |-> b]
    BY <1>6, MeaningAtOne
  <2>2. b \in BOOLEAN
    OBVIOUS
  <2> HIDE DEF b
  <2>3. Meaning[i].ran = exists \cap {i} /\ (Meaning[i].ok <=> b)
    BY <1>1, <1>2, <2>1, <2>2
  <2> QED
    BY <1>2, <1>6, <2>3 DEF b
<1> QED
  BY <1>3, <1>4, <1>5, <1>6

LEMMA PlaceOf ==
  ASSUME ExecInv, AllPlaced(procs), NEW p \in DOMAIN procs
  PROVE  /\ procs[p] \in Processes /\ procs[p].at \in 1 .. Len(cmd_list) /\ procs[p].at \in Nat
         /\ After[procs[p].at] # 0 /\ Placed(procs[p])
BY InvFacts DEF AllPlaced, Placed, Processes

\* Due and OkOf of a process, by its pc.
LEMMA DueIs ==
  ASSUME NEW r
  PROVE  /\ r.pc = "execute" => Due(r) = Meaning[r.at].ran /\ (OkOf(r) <=> Meaning[r.at].ok)
         /\ r.pc \in {"wait", "read"} => Due(r) = Meaning[ArmBy(Meaning, r.at)].ran /\ (OkOf(r) <=> Meaning[r.at].ok)
         /\ r.pc = "single" => Due(r) = exists \cap {r.at} /\ (OkOf(r) <=> r.at \in exists)
         /\ r.pc \in {"program", "ended"} => Due(r) = {} /\ OkOf(r)
         /\ r.pc \in {"return", "returned"} => Due(r) = {} /\ ~OkOf(r)
BY DEF Due, OkOf

LEMMA RedirectKeepsAll ==
  ASSUME ExecInv, Clean, Doing(procs, data, ran), NEW p \in DOMAIN procs, ExecuteRedirect(p)
  PROVE  Doing(procs', data', ran')
<1> DEFINE i == procs[p].at
           v == IF i + 2 \in exists THEN "single" ELSE "return"
           r == Gone(procs[p], v, i)
<1>1. /\ procs[p].pc = "execute" /\ Redirected(p) /\ procs' = [procs EXCEPT ![p].pc = v] /\ data' = data /\ ran' = ran
  BY DEF ExecuteRedirect
<1>2. Whole
  BY CleanFacts
<1>3. procs[p] \in Processes /\ i \in 1 .. Len(cmd_list) /\ After[i] # 0 /\ Placed(procs[p])
  BY PlaceOf DEF Doing
<1>4. cmd_list[i] # "if" /\ At(cmd_list, i + 1) = ">"
  BY <1>1, <1>2, <1>3, ShapeOfCommand
<1>5. /\ Meaning[i].ran = IF {i, i + 2} \subseteq exists THEN {i} ELSE {}
      /\ Meaning[i].ok <=> {i, i + 2} \subseteq exists
  BY <1>2, <1>3, <1>4, MeaningAt
<1>6. r.pc = v /\ r.at = i /\ r.conds = procs[p].conds /\ r.child = procs[p].child /\ r.mb = procs[p].mb
  BY <1>3, GoneIs
<1> HIDE DEF i, r
<1>7. Due(procs[p]) = Meaning[i].ran /\ (OkOf(procs[p]) <=> Meaning[i].ok)
  BY <1>1, DueIs DEF i
<1>8. Due(r) = Due(procs[p]) /\ (OkOf(r) <=> OkOf(procs[p]))
  <2>1. CASE i + 2 \in exists
    <3>1. Due(r) = exists \cap {i} /\ (OkOf(r) <=> i \in exists)
      BY <1>6, <2>1, DueIs
    <3> QED
      BY <1>5, <1>7, <2>1, <3>1
  <2>2. CASE i + 2 \notin exists
    <3>1. Due(r) = {} /\ ~OkOf(r)
      BY <1>6, <2>2, DueIs
    <3> QED
      BY <1>5, <1>7, <2>2, <3>1
  <2> QED
    BY <2>1, <2>2
<1>9. Placed(r)
  BY <1>3, <1>6, <1>8 DEF Placed, i
<1>10. GoesOn(p, r)
  BY <1>1, <1>6, <1>8, <1>9 DEF GoesOn, Waits, Over
<1> QED
  BY <1>1, <1>8, <1>10, MovingKeepsAll DEF r, i

LEMMA SingleKeepsAll ==
  ASSUME ExecInv, Clean, Doing(procs, data, ran), NEW p \in DOMAIN procs, ExecuteSingle(p)
  PROVE  Doing(procs', data', ran')
<1> DEFINE i == procs[p].at
           v == IF i \in exists THEN "program" ELSE "return"
           r == Gone(procs[p], v, i)
<1>1. Whole /\ cmd_list[i] \notin {"exit", "set"}
  <2>1. Whole /\ cmd_list[i] # "exit" /\ i \in 1 .. Len(cmd_list) /\ After[i] # 0
        /\ Len(cmd_list) \in Nat /\ DOMAIN cmd_list = 1 .. Len(cmd_list)
    BY CleanFacts, PlaceOf DEF Doing
  <2> HIDE DEF i
  <2>2. ASSUME cmd_list[i] = "set" PROVE FALSE
    <3>1. At(cmd_list, i) = "set"
      BY <2>1, <2>2 DEF At
    <3>2. AfterBy(After, i) # 0
      BY <2>1, AfterIs DEF AfterKnown
    <3> QED
      BY <3>1, <3>2 DEF AfterBy, Simple
  <2> QED
    BY <2>1, <2>2
<1>2. /\ procs' = [procs EXCEPT ![p].pc = v] /\ data' = data
      /\ ran' = IF i \in exists THEN ran \cup {i} ELSE ran
      /\ \/ procs[p].pc = "single"
         \/ procs[p].pc = "execute" /\ ~Piped(p) /\ ~Redirected(p) /\ ~Nested(p)
  BY <1>1 DEF ExecuteSingle, Token
<1>3. procs[p] \in Processes /\ i \in 1 .. Len(cmd_list) /\ After[i] # 0 /\ Placed(procs[p])
  BY PlaceOf DEF Doing
<1>4. r.pc = v /\ r.at = i /\ r.conds = procs[p].conds /\ r.child = procs[p].child /\ r.mb = procs[p].mb
  BY <1>3, GoneIs
<1> HIDE DEF i, r
<1>5. Due(procs[p]) = exists \cap {i} /\ (OkOf(procs[p]) <=> i \in exists)
  <2>1. CASE procs[p].pc = "single"
    BY <2>1, DueIs DEF i
  <2>2. CASE procs[p].pc = "execute" /\ ~Piped(p) /\ ~Redirected(p) /\ ~Nested(p)
    <3>1. cmd_list[i] # "if" /\ At(cmd_list, i + 1) \notin {"|", ">"}
      BY <1>1, <1>3, <2>2, ShapeOfCommand DEF i
    <3>2. Meaning[i].ran = exists \cap {i} /\ (Meaning[i].ok <=> i \in exists)
      BY <1>1, <1>3, <3>1, MeaningAt
    <3>3. Due(procs[p]) = Meaning[i].ran /\ (OkOf(procs[p]) <=> Meaning[i].ok)
      BY <2>2, DueIs DEF i
    <3> QED
      BY <3>2, <3>3
  <2> QED
    BY <1>2, <2>1, <2>2
<1>6. /\ Due(r) = {} /\ (OkOf(r) <=> i \in exists)
      /\ r.pc \notin {"wait", "read", "ended", "returned"} /\ procs[p].pc \notin {"wait", "read", "ended", "returned"}
  <2>1. CASE i \in exists
    BY <1>2, <1>4, <2>1, DueIs
  <2>2. CASE i \notin exists
    BY <1>2, <1>4, <2>2, DueIs
  <2> QED
    BY <2>1, <2>2
<1>7. ran' \cup Due(r) = ran \cup Due(procs[p])
  BY <1>2, <1>5, <1>6
<1>8. Placed(r)
  BY <1>3, <1>4, <1>5, <1>6 DEF Placed, i
<1>9. GoesOn(p, r)
  BY <1>4, <1>5, <1>6, <1>8 DEF GoesOn, Waits, Over
<1> QED
  BY <1>2, <1>7, <1>9, MovingKeepsAll DEF r, i

LEMMA EndsKeepsAll ==
  ASSUME ExecInv, Clean, Doing(procs, data, ran), NEW p \in DOMAIN procs, Ends(p)
  PROVE  Doing(procs', data', ran')
<1> DEFINE i == procs[p].at
           r == Gone(procs[p], "ended", i)
<1>1. procs[p].pc = "program" /\ procs' = [procs EXCEPT ![p].pc = "ended"] /\ data' = data /\ ran' = ran
  BY DEF Ends
<1>2. procs[p] \in Processes /\ Placed(procs[p])
  BY PlaceOf DEF Doing
<1>3. r.pc = "ended" /\ r.at = i /\ r.conds = procs[p].conds /\ r.child = procs[p].child /\ r.mb = procs[p].mb
  BY <1>2, GoneIs
<1> HIDE DEF i, r
<1>4. Due(r) = {} /\ OkOf(r) /\ Due(procs[p]) = {} /\ OkOf(procs[p])
  BY <1>1, <1>3, DueIs
<1>5. Placed(r)
  BY <1>2, <1>3, <1>4 DEF Placed, i
<1>6. GoesOn(p, r)
  BY <1>1, <1>3, <1>4, <1>5 DEF GoesOn, Waits, Over
<1> QED
  BY <1>1, <1>4, <1>6, MovingKeepsAll DEF r, i

LEMMA WaitKeepsAll ==
  ASSUME ExecInv, Clean, Doing(procs, data, ran), NEW p \in DOMAIN procs, Wait(p)
  PROVE  Doing(procs', data', ran')
<1> DEFINE i == procs[p].at
           r == Gone(procs[p], "read", i)
<1>1. /\ procs[p].pc = "wait" /\ procs' = [procs EXCEPT ![p].pc = "read"] /\ data' = data /\ ran' = ran
      /\ procs[procs[p].child].pc \in Over
  BY DEF Wait
<1>2. procs[p] \in Processes /\ Placed(procs[p])
  BY PlaceOf DEF Doing
<1>3. r.pc = "read" /\ r.at = i /\ r.conds = procs[p].conds /\ r.child = procs[p].child /\ r.mb = procs[p].mb
  BY <1>2, GoneIs
<1> HIDE DEF i, r
<1>4. Due(r) = Due(procs[p]) /\ (OkOf(r) <=> OkOf(procs[p]))
  BY <1>1, <1>3, DueIs DEF i
<1>5. Placed(r)
  BY <1>2, <1>3, <1>4 DEF Placed, i
<1>6. GoesOn(p, r)
  BY <1>1, <1>3, <1>4, <1>5 DEF GoesOn, Waits, Over, i
<1> QED
  BY <1>1, <1>4, <1>6, MovingKeepsAll DEF r, i

\* The process finds in its pipe whether the condition failed, and goes to the branch the line means.
LEMMA ReadKeepsAll ==
  ASSUME ExecInv, Clean, Doing(procs, data, ran), NEW p \in DOMAIN procs, Read(p)
  PROVE  Doing(procs', data', ran')
<1> DEFINE i == procs[p].at
           b == Branch(p) + 1
           r == Gone(procs[p], "execute", b)
<1>1. /\ procs[p].pc = "read" /\ data' = data /\ ran' = ran
      /\ Branch(p) < Len(cmd_list) => procs' = [procs EXCEPT ![p].pc = "execute", ![p].at = b]
  BY DEF Read
<1>2. Whole /\ Len(cmd_list) \in Nat
  BY CleanFacts
<1>3. /\ procs[p] \in Processes /\ Placed(procs[p]) /\ i \in 1 .. Len(cmd_list) /\ i \in Nat /\ After[i] # 0
  BY PlaceOf DEF Doing
<1>4. cmd_list[i] = "if" /\ procs[p].mb \in DOMAIN data
  BY <1>1 DEF ExecInv, WaitInv, Token
<1>5. Awaits(procs, data, p)
  BY <1>1 DEF Doing, AllAwait, Waits
<1>6. data[procs[p].mb] <=> ~Meaning[i + 1].ok
  BY <1>1, <1>5 DEF Awaits
<1>7. b = ArmBy(Meaning, i)
  <2>1. then_locn(i) = After[i + 1] /\ else_locn(i) = After[After[i + 1] + 1]
    BY <1>3, <1>4, FoundAsMeant
  <2> QED
    BY <1>6, <2>1 DEF Branch, ArmBy
<1>8. b \in i + 1 .. Len(cmd_list) /\ After[b] # 0 /\ After[b] < After[i] /\ After[i] \in Nat /\ After[b] \in Nat
  <2>1. b \in {After[i + 1] + 1, After[After[i + 1] + 1] + 1}
    BY <1>7 DEF ArmBy
  <2>2. b \in i + 1 .. Len(cmd_list) /\ After[b] # 0 /\ After[b] < After[i] /\ After[i] \in i + 1 .. Len(cmd_list) + 1
    BY <1>2, <1>3, <1>4, <2>1, ArmsAre
  <2>3. After[b] \in b + 1 .. Len(cmd_list) + 1 /\ b \in 1 .. Len(cmd_list)
    BY <1>2, <1>3, <2>2, AfterRange DEF Whole
  <2> QED
    BY <1>2, <1>3, <2>2, <2>3
<1>9. r.pc = "execute" /\ r.at = b /\ r.conds = procs[p].conds /\ r.child = procs[p].child /\ r.mb = procs[p].mb
  BY <1>3, GoneIs
<1>13. procs' = [procs EXCEPT ![p].pc = "execute", ![p].at = b]
  <2>1. Branch(p) \in Nat
    BY <1>4, BranchTyped
  <2>2. Branch(p) + 1 <= Len(cmd_list)
    BY <1>8
  <2>3. Branch(p) < Len(cmd_list)
    BY <1>2, <2>1, <2>2
  <2> QED
    BY <1>1, <2>3
<1> HIDE DEF i, b, r
<1>10. Due(r) = Due(procs[p]) /\ (OkOf(r) <=> OkOf(procs[p]))
  <2>1. Due(r) = Meaning[b].ran /\ (OkOf(r) <=> Meaning[b].ok)
    BY <1>9, DueIs
  <2>2. Due(procs[p]) = Meaning[b].ran /\ (OkOf(procs[p]) <=> Meaning[i].ok)
    BY <1>1, <1>7, DueIs DEF i
  <2>3. Meaning[i].ok <=> Meaning[b].ok
    BY <1>2, <1>3, <1>4, <1>7, MeaningAt
  <2> QED
    BY <2>1, <2>2, <2>3
<1>11. Placed(r)
  <2>1. r.conds # <<>> => InCondition(b)
    <3>1. r.conds # <<>> => InCondition(i)
      BY <1>3, <1>9 DEF Placed, i
    <3>2. b \in i .. Len(cmd_list) /\ After[b] <= After[i]
      BY <1>2, <1>3, <1>8
    <3> QED
      BY <1>2, <1>3, <1>8, <3>1, <3>2, StillInCondition
  <2>2. ~OkOf(r) => Len(r.conds) <= 1
    BY <1>3, <1>9, <1>10 DEF Placed
  <2>3. r.at \in 1 .. Len(cmd_list) /\ After[r.at] # 0
    BY <1>2, <1>3, <1>8, <1>9
  <2> QED
    BY <1>9, <2>1, <2>2, <2>3 DEF Placed
<1>12. GoesOn(p, r)
  BY <1>1, <1>9, <1>10, <1>11 DEF GoesOn, Waits, Over
<1> QED
  BY <1>1, <1>10, <1>12, <1>13, MovingKeepsAll DEF r

LEMMA ReturnKeepsAll ==
  ASSUME ExecInv, Clean, Doing(procs, data, ran), NEW p \in DOMAIN procs, Return(p)
  PROVE  Doing(procs', data', ran')
<1> DEFINE i == procs[p].at
           c == procs[p].conds
<1>1. procs[p].pc = "return" /\ ran' = ran
  BY DEF Return
<1>2. procs[p] \in Processes /\ Placed(procs[p])
  BY PlaceOf DEF Doing
<1>3. Due(procs[p]) = {} /\ ~OkOf(procs[p])
  BY <1>1, DueIs
<1>4. CASE (c = <<>> \/ ~HasReader(Last(c))) /\ procs' = [procs EXCEPT ![p].pc = "returned"] /\ UNCHANGED data
  <2> DEFINE r == Gone(procs[p], "returned", i)
  <2>1. r.pc = "returned" /\ r.at = i /\ r.conds = c /\ r.child = procs[p].child /\ r.mb = procs[p].mb
    BY <1>2, GoneIs
  <2> HIDE DEF i, r
  <2>2. Due(r) = {} /\ ~OkOf(r)
    BY <2>1, DueIs
  <2>3. Placed(r)
    BY <1>2, <1>3, <2>1, <2>2 DEF Placed, i
  <2>4. r.conds = <<>> \/ ~HasReader(r.conds[Len(r.conds)])
    BY <1>4, <2>1 DEF Last
  <2>5. GoesOn(p, r)
    BY <1>1, <1>3, <2>1, <2>2, <2>3, <2>4 DEF GoesOn, Waits, Over
  <2> QED
    BY <1>1, <1>3, <1>4, <2>2, <2>5, MovingKeepsAll DEF r, i
<1>5. CASE c # <<>> /\ data' = [data EXCEPT ![Last(c)] = TRUE] /\ procs' = [procs EXCEPT ![p].conds = Front(c)]
  <2> DEFINE f == Front(c)
             r == [procs[p] EXCEPT !.conds = f]
  <2>1. r.pc = "return" /\ r.at = i /\ r.conds = f /\ r.child = procs[p].child /\ r.mb = procs[p].mb
    BY <1>1, <1>2 DEF Processes
  <2>2. procs' = [procs EXCEPT ![p] = r]
    BY <1>5
  <2> HIDE DEF r
  <2>3. Writes(p, r)
    BY <1>1, <1>5, <2>1 DEF Writes
  <2>4. AllPlaced(procs') /\ AllAwait(procs', data')
    BY <1>5, <2>2, <2>3, WritingKeepsAll DEF Doing
  <2>5. Due(r) = {}
    BY <2>1, DueIs
  <2>6. AllDue(procs', ran')
    BY <1>1, <1>3, <2>2, <2>5, DueGoesOn DEF Doing
  <2> QED
    BY <2>4, <2>6 DEF Doing
<1> QED
  BY <1>4, <1>5 DEF Return

\* The program in front of a | exists, so that nobody fails but the one that goes on.
LEMMA PipeKeepsAll ==
  ASSUME ExecInv, Clean, Doing(procs, data, ran), NEW p \in DOMAIN procs, ExecutePipe(p)
  PROVE  Doing(procs', data', ran')
<1> DEFINE i == procs[p].at
           b == i + 2
           r == [procs[p] EXCEPT !.at = b]
           s == Process(i, "single", procs[p].conds)
<1>1. /\ procs[p].pc = "execute" /\ Piped(p) /\ data' = data /\ ran' = ran
      /\ procs' = Append([procs EXCEPT ![p] = r], s)
  BY DEF ExecutePipe
<1>2. Whole /\ Len(cmd_list) \in Nat /\ \A k \in 1 .. Len(cmd_list) : cmd_list[k] = "|" => k - 1 \in exists
  BY CleanFacts
<1>3. /\ procs[p] \in Processes /\ Placed(procs[p]) /\ i \in 1 .. Len(cmd_list) /\ i \in Nat /\ After[i] # 0
  BY PlaceOf DEF Doing
<1>4. /\ cmd_list[i] # "if" /\ At(cmd_list, i + 1) = "|"
      /\ b \in 1 .. Len(cmd_list) /\ After[b] = After[i] /\ cmd_list[i + 1] = "|"
  BY <1>1, <1>2, <1>3, ShapeOfCommand
<1>5. i \in exists
  <2>1. i + 1 \in 1 .. Len(cmd_list) /\ (i + 1) - 1 = i
    BY <1>2, <1>3, <1>4
  <2> QED
    BY <1>2, <1>4, <2>1
<1>6. Meaning[i].ran = {i} \cup Meaning[b].ran /\ (Meaning[i].ok <=> Meaning[b].ok)
  <2>1. Meaning[i].ran = (exists \cap {i}) \cup Meaning[b].ran /\ (Meaning[i].ok <=> Meaning[b].ok)
    BY <1>2, <1>3, <1>4, MeaningAt
  <2> QED
    BY <1>5, <2>1
<1>7. /\ r.pc = "execute" /\ r.at = b /\ r.conds = procs[p].conds
      /\ s.pc = "single" /\ s.at = i /\ s.conds = procs[p].conds
  BY <1>1, <1>3 DEF Processes, Process
<1>8. After[i] \in Nat /\ After[b] # 0 /\ b \in i .. Len(cmd_list)
  <2>1. After[i] \in i + 1 .. Len(cmd_list) + 1
    BY <1>2, <1>3, AfterRange DEF Whole
  <2> QED
    BY <1>2, <1>3, <1>4, <2>1
<1> HIDE DEF i, b, r, s
<1>9. Due(procs[p]) = Meaning[i].ran /\ (OkOf(procs[p]) <=> Meaning[i].ok)
  BY <1>1, DueIs DEF i
<1>10. Due(r) = Meaning[b].ran /\ (OkOf(r) <=> Meaning[b].ok) /\ Due(s) = {i} /\ OkOf(s)
  <2>1. Due(r) = Meaning[b].ran /\ (OkOf(r) <=> Meaning[b].ok)
    BY <1>7, DueIs
  <2>2. Due(s) = exists \cap {i} /\ (OkOf(s) <=> i \in exists)
    BY <1>7, DueIs
  <2> QED
    BY <1>5, <2>1, <2>2
<1>11. procs[p].conds # <<>> => InCondition(i) /\ InCondition(b)
  <2>1. procs[p].conds # <<>> => InCondition(i)
    BY <1>3 DEF Placed, i
  <2>2. After[b] <= After[i]
    BY <1>4, <1>8
  <2>3. InCondition(i) => InCondition(b)
    BY <1>2, <1>3, <1>8, <2>2, StillInCondition
  <2> QED
    BY <2>1, <2>3
<1>12. Placed(r)
  <2>1. ~OkOf(r) => Len(r.conds) <= 1
    BY <1>3, <1>6, <1>7, <1>9, <1>10 DEF Placed
  <2> QED
    BY <1>4, <1>7, <1>8, <1>11, <2>1 DEF Placed
<1>13. Placed(s)
  BY <1>3, <1>7, <1>10, <1>11 DEF Placed
<1>14. Makes(p, r, s, data)
  BY <1>1, <1>6, <1>7, <1>9, <1>10, <1>12, <1>13 DEF Makes, Over
<1>15. AllPlaced(procs') /\ \A q \in DOMAIN procs' : Waits(procs'[q]) /\ q # p => Awaits(procs', data, q)
  BY <1>1, <1>14, ForkKeepsOthers DEF Doing
<1>16. ~Waits(procs'[p])
  <2>1. procs'[p] = r
    BY <1>1, ForkFacts
  <2> QED
    BY <1>7, <2>1 DEF Waits
<1>17. AllAwait(procs', data')
  BY <1>1, <1>15, <1>16 DEF AllAwait
<1>18. AllDue(procs', ran')
  <2>1. Due(r) \cup Due(s) = Due(procs[p])
    BY <1>6, <1>9, <1>10
  <2> QED
    BY <1>1, <2>1, DueForks DEF Doing
<1> QED
  BY <1>15, <1>17, <1>18 DEF Doing

\* The child of an if fails if its condition does; if the if is part of a condition, it does not.
LEMMA IfKeepsAll ==
  ASSUME ExecInv, Clean, Doing(procs, data, ran), NEW p \in DOMAIN procs, ExecuteIf(p)
  PROVE  Doing(procs', data', ran')
<1> DEFINE i == procs[p].at
           n == Len(procs) + 1
           m == Len(data) + 1
           b == i + 1
           r == Waiting(procs[p], n, m)
           k == Append(procs[p].conds, m)
           s == Process(b, "execute", k)
<1>1. Whole /\ NoStrayReturns /\ Len(cmd_list) \in Nat
  BY CleanFacts
<1>2. /\ procs[p] \in Processes /\ procs[p].conds \in Seq(Nat) /\ Placed(procs[p])
      /\ i \in 1 .. Len(cmd_list) /\ i \in Nat /\ After[i] # 0 /\ Len(data) \in Nat /\ DOMAIN data = 1 .. Len(data)
      /\ data \in Seq(BOOLEAN) /\ Len(procs) \in Nat /\ DOMAIN procs = 1 .. Len(procs)
  BY PlaceOf, InvFacts DEF Doing, Processes, ExecInv, ProcsInv
<1>3. procs[p].pc = "execute" /\ Nested(p) /\ data' = Append(data, FALSE) /\ ran' = ran
  BY DEF ExecuteIf
<1>4. /\ DOMAIN data' = 1 .. m /\ Len(data') = m /\ ~data'[m] /\ \A x \in DOMAIN data : data'[x] = data[x]
      /\ m \notin DOMAIN data
  BY <1>2, <1>3
<1>5. procs' = Append([procs EXCEPT ![p] = r], s)
  <2>1. procs' = Append([procs EXCEPT ![p].pc = "wait", ![p].child = Len(procs) + 1, ![p].mb = Len(data')],
                        Process(procs[p].at + 1, "execute", Append(procs[p].conds, Len(data'))))
    BY DEF ExecuteIf
  <2> HIDE DEF m, n
  <2>2. procs' = Append([procs EXCEPT ![p].pc = "wait", ![p].child = n, ![p].mb = m], s)
    BY <1>4, <2>1 DEF n
  <2>3. [procs EXCEPT ![p].pc = "wait", ![p].child = n, ![p].mb = m]
          = [procs EXCEPT ![p] = [procs[p] EXCEPT !.pc = "wait", !.child = n, !.mb = m]]
    OBVIOUS
  <2> QED
    BY <2>2, <2>3 DEF Waiting
<1>6. /\ r.pc = "wait" /\ r.at = i /\ r.conds = procs[p].conds /\ r.child = n /\ r.mb = m
      /\ s.pc = "execute" /\ s.at = b /\ s.conds = k
  <2> HIDE DEF n, m, k, b
  <2> QED BY <1>2 DEF Waiting, Process, Processes
<1>7. /\ k # <<>> /\ k[Len(k)] = m /\ Len(k) = Len(procs[p].conds) + 1 /\ DOMAIN k = 1 .. Len(k) /\ Len(k) \in Nat
      /\ \A x \in DOMAIN k : k[x] = m \/ (x \in DOMAIN procs[p].conds /\ k[x] = procs[p].conds[x])
  <2> DEFINE c == procs[p].conds
  <2>1. c \in Seq(Nat) /\ m \in Nat /\ k = Append(c, m)
    BY <1>2
  <2> HIDE DEF c, m, k
  <2>2. k \in Seq(Nat) /\ Len(k) = Len(c) + 1 /\ Len(c) \in Nat /\ DOMAIN c = 1 .. Len(c)
    BY <2>1
  <2>3. k[Len(k)] = m /\ \A x \in DOMAIN c : k[x] = c[x]
    BY <2>1, <2>2
  <2>4. DOMAIN k = 1 .. Len(k) /\ k # <<>>
    BY <2>2
  <2> QED
    BY <2>2, <2>3, <2>4 DEF c
<1>8. cmd_list[i] = "if"
  BY <1>1, <1>2, <1>3, ShapeOfCommand
<1>9. /\ b \in 1 .. Len(cmd_list) /\ After[b] # 0 /\ i \in 1 .. b - 1 /\ After[b] <= After[b]
  <2>1. b \in i + 1 .. Len(cmd_list) /\ After[b] # 0
    BY <1>1, <1>2, <1>8, ArmsAre
  <2>2. After[b] \in b + 1 .. Len(cmd_list) + 1
    BY <1>1, <1>2, <2>1, AfterRange DEF Whole
  <2> QED
    BY <1>1, <1>2, <2>1, <2>2
<1>10. InCondition(b)
  BY <1>8, <1>9 DEF InCondition
<1>11. /\ Meaning[i].ran = Meaning[b].ran \cup Meaning[ArmBy(Meaning, i)].ran
       /\ Due(procs[p]) = Meaning[i].ran /\ (OkOf(procs[p]) <=> Meaning[i].ok)
  BY <1>1, <1>2, <1>3, <1>8, MeaningAt, DueIs
<1>12. procs[p].conds # <<>> => Meaning[b].ok
  BY <1>1, <1>2, <1>8, InnerSucceeds DEF Placed
<1> HIDE DEF i, b, r, s, k, n, m
<1>13. /\ Due(r) = Meaning[ArmBy(Meaning, i)].ran /\ (OkOf(r) <=> Meaning[i].ok)
       /\ Due(s) = Meaning[b].ran /\ (OkOf(s) <=> Meaning[b].ok)
  BY <1>6, DueIs
<1>14. Placed(r)
  <2>1. OkOf(r) <=> OkOf(procs[p])
    BY <1>11, <1>13
  <2> QED
    BY <1>2, <1>6, <2>1 DEF Placed, i
<1>15. Placed(s)
  <2>1. ~OkOf(s) => Len(k) <= 1
    <3>1. procs[p].conds = <<>> => Len(k) <= 1
      BY <1>7
    <3>2. ~OkOf(s) => procs[p].conds = <<>>
      BY <1>12, <1>13
    <3> QED
      BY <3>1, <3>2
  <2> QED
    BY <1>6, <1>9, <1>10, <2>1 DEF Placed
<1>16. ASSUME NEW x \in DOMAIN data, Holds(s, x) PROVE OkOf(s)
  <2>1. PICK y \in DOMAIN k : k[y] = x
    BY <1>6, <1>16 DEF Holds
  <2>2. y \in DOMAIN procs[p].conds
    BY <1>4, <1>7, <2>1
  <2>3. procs[p].conds # <<>>
    BY <2>2
  <2> QED
    BY <1>12, <1>13, <2>3
<1>17. Makes(p, r, s, data')
  BY <1>3, <1>4, <1>6, <1>11, <1>13, <1>14, <1>15, <1>16 DEF Makes, Over
<1>18. AllPlaced(procs') /\ \A q \in DOMAIN procs' : Waits(procs'[q]) /\ q # p => Awaits(procs', data', q)
  <2>1. AllPlaced(procs) /\ AllAwait(procs, data)
    BY DEF Doing
  <2>2. PICK d : d = data'
    OBVIOUS
  <2>3. Makes(p, r, s, d)
    BY <1>17, <2>2
  <2> HIDE DEF r, s
  <2>4. \A ps : ps = Append([procs EXCEPT ![p] = r], s) =>
          AllPlaced(ps) /\ \A q \in DOMAIN ps : Waits(ps[q]) /\ q # p => Awaits(ps, d, q)
    BY <2>1, <2>3, ForkKeepsOthers
  <2> QED
    BY <1>5, <2>2, <2>4
<1>19. /\ DOMAIN procs' = 1 .. Len(procs) + 1
       /\ \A q \in DOMAIN procs : procs'[q] = IF q = p THEN r ELSE procs[q]
       /\ procs'[n] = s
  BY <1>5, ForkFacts DEF n
<1>20. Awaits(procs', data', p)
  <2>1. procs'[p] = r /\ r.child = n /\ r.mb = m /\ procs'[n] = s
    BY <1>6, <1>19
  <2>2. OkOf(s) <=> Meaning[r.at + 1].ok
    BY <1>6, <1>13 DEF b
  <2>3. ASSUME NEW q \in DOMAIN procs', Holds(procs'[q], m) PROVE q = n
    <3>1. CASE q \in DOMAIN procs
      <4>1. procs'[q].conds = procs[q].conds
        BY <1>6, <1>19, <3>1
      <4>2. \A x \in DOMAIN procs[q].conds : procs[q].conds[x] \in DOMAIN data
        BY <3>1 DEF ExecInv, ProcsInv
      <4> QED
        BY <1>4, <2>3, <4>1, <4>2 DEF Holds
    <3>2. CASE q \notin DOMAIN procs
      BY <1>2, <1>19, <3>2 DEF n
    <3> QED
      BY <3>1, <3>2
  <2>4. s.pc \notin Over /\ s.conds # <<>> /\ s.conds[Len(s.conds)] = m /\ r.pc # "read"
    BY <1>6, <1>7 DEF Over
  <2> QED
    BY <1>4, <2>1, <2>2, <2>3, <2>4 DEF Awaits
<1>21. AllAwait(procs', data')
  BY <1>18, <1>20 DEF AllAwait
<1>22. AllDue(procs', ran')
  <2>1. Due(r) \cup Due(s) = Due(procs[p])
    BY <1>11, <1>13
  <2> QED
    BY <1>3, <1>5, <2>1, DueForks DEF Doing
<1> QED
  BY <1>18, <1>21, <1>22 DEF Doing

LEMMA DoingStays ==
  ASSUME cmd_list' = cmd_list, exists' = exists
  PROVE  /\ Clean' <=> Clean
         /\ Doing(procs, data, ran)' <=> Doing(procs', data', ran')
<1>1. After' = After /\ Meaning' = Meaning
  BY MeaningStays
<1>2. Clean' <=> Clean
  BY <1>1 DEF Clean, Sentence, NoStrayReturns
<1>3. AllPlaced(procs)' <=> AllPlaced(procs')
  BY <1>1 DEF AllPlaced, Placed, OkOf, InCondition
<1>4. AllAwait(procs, data)' <=> AllAwait(procs', data')
  BY <1>1 DEF AllAwait, Awaits, OkOf, Waits, Holds
<1>5. AllDue(procs, ran)' <=> AllDue(procs', ran')
  BY <1>1 DEF AllDue, Due, ArmBy
<1> QED
  BY <1>2, <1>3, <1>4, <1>5 DEF Doing

\* The first process is to run the line.
Beginning == procs = <<Process(1, "execute", <<>>)>> /\ ran = {}
BeginsWell == ExecInv /\ Clean /\ Beginning => Doing(procs, data, ran)

LEMMA TheBeginning == BeginsWell
<1> SUFFICES ASSUME ExecInv, Clean, Beginning PROVE Doing(procs, data, ran)
  BY DEF BeginsWell
<1>1. Whole /\ After[1] # 0 /\ 1 \in 1 .. Len(cmd_list)
  BY CleanFacts
<1> DEFINE r == Process(1, "execute", <<>>)
<1>2. r.pc = "execute" /\ r.at = 1 /\ r.conds = <<>>
  BY DEF Process
<1> HIDE DEF r
<1>3. DOMAIN procs = {1} /\ procs[1] = r /\ ran = {}
  BY DEF Beginning, r
<1>4. Placed(r)
  BY <1>1, <1>2 DEF Placed
<1>5. Due(r) = Meaning[1].ran
  BY <1>2, DueIs
<1>6. AllPlaced(procs)
  BY <1>3, <1>4 DEF AllPlaced
<1>7. AllAwait(procs, data)
  BY <1>2, <1>3 DEF AllAwait, Waits
<1>8. AllDue(procs, ran)
  BY <1>3, <1>5 DEF AllDue
<1> QED
  BY <1>6, <1>7, <1>8 DEF Doing

\* As long as no call fails, the processes of a clean line do what it means.
MeansIt == Clean /\ faults = 0 /\ procs # <<>> => Doing(procs, data, ran)

LEMMA MeansStep ==
  ASSUME ExecInv, ExecInv', BeginsWell', MeansIt, [Next]_vars
  PROVE  MeansIt'
<1> SUFFICES ASSUME Clean', faults' = 0, procs' # <<>> PROVE Doing(procs, data, ran)'
  BY DEF MeansIt
<1>1. CASE Parse \/ Refuse \/ NotFound \/ BuiltIn
  <2>1. procs' = procs /\ status \in {"typed", "parsed", "set"}
    BY <1>1 DEF Parse, Refuse, NotFound, BuiltIn
  <2>2. procs = <<>>
    BY <2>1 DEF ExecInv, LineInv
  <2> QED
    BY <2>1, <2>2
<1>2. CASE Accept
  <2>1. procs' = <<Process(1, "execute", <<>>)>> /\ ran' = ran /\ status \in {"parsed", "set"}
    BY <1>2 DEF Accept
  <2>2. ran = {}
    BY <2>1 DEF ExecInv, LineInv, ProcsInv
  <2>3. Beginning'
    BY <2>1, <2>2 DEF Beginning, Process
  <2> QED
    BY <2>3 DEF BeginsWell
<1>3. ASSUME NEW p \in DOMAIN procs, Step(p) \/ Fails(p) PROVE Doing(procs, data, ran)'
  <2>1. UNCHANGED line
    BY <1>3 DEF Step, Fails, ExecutePipe, ExecuteRedirect, ExecuteIf, ExecuteSingle, Return, Ends, Wait, Read
  <2>2. cmd_list' = cmd_list /\ exists' = exists
    BY <2>1 DEF line
  <2>3. Clean /\ (Doing(procs, data, ran)' <=> Doing(procs', data', ran'))
    BY <2>2, DoingStays
  <2>4. CASE Fails(p)
    <3>1. faults \in Nat /\ faults' = faults + 1
      BY <2>4, InvFacts DEF Fails, ExecInv, ProcsInv
    <3> QED
      BY <3>1
  <2>5. CASE Step(p)
    <3>1. faults' = faults
      BY <2>5 DEF Step, ExecutePipe, ExecuteRedirect, ExecuteIf, ExecuteSingle, Return, Ends, Wait, Read
    <3>2. procs # <<>>
      OBVIOUS
    <3>3. Doing(procs, data, ran)
      BY <2>3, <3>1, <3>2 DEF MeansIt
    <3>4. Doing(procs', data', ran')
      BY <2>3, <2>5, <3>3, PipeKeepsAll, RedirectKeepsAll, IfKeepsAll, SingleKeepsAll, ReturnKeepsAll, EndsKeepsAll,
         WaitKeepsAll, ReadKeepsAll DEF Step
    <3> QED
      BY <2>3, <3>4
  <2> QED
    BY <1>3, <2>4, <2>5
<1>4. CASE UNCHANGED vars
  <2>1. UNCHANGED <<cmd_list, exists, procs, data, ran, faults>>
    BY <1>4 DEF vars, line
  <2>2. Clean /\ (Doing(procs, data, ran)' <=> Doing(procs', data', ran'))
    BY <2>1, DoingStays
  <2>3. Doing(procs, data, ran)
    BY <2>1, <2>2 DEF MeansIt
  <2> QED
    BY <2>1, <2>2, <2>3
<1> QED
  BY <1>1, <1>2, <1>3, <1>4 DEF Next

\* A line that runs has processes, over or not.
Started == status = "running" => 1 \in DOMAIN procs

LEMMA StartedStep ==
  ASSUME ExecInv, Started, [Next]_vars
  PROVE  Started'
<1>1. CASE Parse \/ Refuse \/ NotFound \/ BuiltIn \/ Accept
  BY <1>1 DEF Parse, Refuse, NotFound, BuiltIn, Accept, Started
<1>2. ASSUME NEW p \in DOMAIN procs, Step(p) \/ Fails(p) PROVE Started'
  <2>1. status = "running" /\ 1 \in DOMAIN procs
    BY Running DEF Started
  <2>2. Len(procs) \in Nat /\ DOMAIN procs = 1 .. Len(procs)
    BY InvFacts
  <2>3. CASE ExecutePipe(p) \/ ExecuteIf(p)
    <3>1. PICK r, s : procs' = Append([procs EXCEPT ![p] = r], s)
      <4>1. CASE ExecutePipe(p)
        <5> WITNESS [procs[p] EXCEPT !.at = procs[p].at + 2], Process(procs[p].at, "single", procs[p].conds)
        <5> QED
          BY <4>1 DEF ExecutePipe
      <4>2. CASE ExecuteIf(p)
        <5> WITNESS [procs[p] EXCEPT !.pc = "wait", !.child = Len(procs) + 1, !.mb = Len(data')],
                    Process(procs[p].at + 1, "execute", Append(procs[p].conds, Len(data')))
        <5> QED
          BY <4>2 DEF ExecuteIf
      <4> QED
        BY <2>3, <4>1, <4>2
    <3>2. DOMAIN procs' = 1 .. Len(procs) + 1
      BY <3>1, ForkFacts
    <3> QED
      BY <2>2, <3>2 DEF Started
  <2>4. CASE ExecuteRedirect(p) \/ ExecuteSingle(p) \/ Return(p) \/ Ends(p) \/ Wait(p) \/ Read(p) \/ Fails(p)
    <3>1. DOMAIN procs' = DOMAIN procs
      BY <2>4 DEF ExecuteRedirect, ExecuteSingle, Return, Ends, Wait, Read, Fails
    <3> QED
      BY <2>1, <3>1 DEF Started
  <2> QED
    BY <1>2, <2>3, <2>4 DEF Step
<1>3. CASE UNCHANGED vars
  BY <1>3 DEF vars, line, Started
<1> QED
  BY <1>1, <1>2, <1>3 DEF Next

\* What ran is what the line means, for lines of any length and ifs nested as deeply as one
\* likes: every if finds its own then and else (exe.c:237) and takes the branch its condition
\* calls for, however the processes take turns.
THEOREM LinesRunTheirBranches == Spec => []RunsTheBranches
<1>1. Init => MeansIt
  BY DEF Init, MeansIt
<1>2. BeginsWell
  BY TheBeginning
<1>3. ExecInv /\ ExecInv' /\ BeginsWell' /\ MeansIt /\ [Next]_vars => MeansIt'
  BY MeansStep
<1>4. Init => Started
  BY DEF Init, Started
<1>5. ExecInv /\ Started /\ [Next]_vars => Started'
  BY StartedStep
<1>6. ExecInv /\ Started /\ MeansIt => RunsTheBranches
  <2> SUFFICES ASSUME ExecInv, Started, MeansIt, Finished, status = "running", faults = 0, Clean PROVE ran = Meaning[1].ran
    BY DEF RunsTheBranches, Clean
  <2>1. procs # <<>>
    BY DEF Started
  <2>2. AllDue(procs, ran)
    BY <2>1 DEF MeansIt, Doing
  <2>3. \A p \in DOMAIN procs : Due(procs[p]) = {}
    BY DueIs DEF Finished, Over
  <2> QED
    BY <2>2, <2>3 DEF AllDue
<1> QED
  BY <1>1, <1>2, <1>3, <1>4, <1>5, <1>6, ExecInvHolds, PTL DEF Spec
-----------------------------------------------------------------------------
(* No two processes of a line are in each other's way: of any two, one is  *)
(* behind the whole command the other stands on, or in the condition the   *)
(* other waits for.  So nobody is left in a condition when its then branch *)
(* is entered, and nobody comes back to it.                                *)

InCond(i, a) == a \in i + 1 .. After[i + 1] - 1
InThen(i, a) == a \in After[i + 1] + 1 .. After[After[i + 1] + 1] - 1

\* A command that begins in another one ends in it.
Nests(i) == /\ After[i] # 0
            /\ \A a \in i .. After[i] - 1 : After[a] # 0 => After[a] <= After[i]

\* The parts of an if.
LEMMA PartsAre ==
  ASSUME Whole, NEW i \in 1 .. Len(cmd_list), cmd_list[i] = "if"
  PROVE  \E j, k, m \in Nat :
           /\ j = After[i + 1] /\ k = After[j + 1] /\ m = After[k + 1] /\ After[i] = m + 1
           /\ i \in Nat /\ i + 2 <= j /\ j + 2 <= k /\ k + 2 <= m
           /\ cmd_list[j] = "then" /\ cmd_list[k] = "else" /\ cmd_list[m] = "fi"
           /\ {i + 1, j + 1, k + 1, j, k, m} \subseteq i + 1 .. Len(cmd_list)
           /\ \A x \in {j, k, m} : x # 0 /\ x \in 1 .. Len(cmd_list) /\ At(cmd_list, x) \notin {"|", ">"}
<1> DEFINE n == Len(cmd_list)
<1>1. n \in Nat /\ DOMAIN cmd_list = 1 .. n /\ After[i] # 0
  BY DEF Whole
<1>2. IfIs(After, i, After[i])
  BY <1>1, IfFacts
<1>3. PICK j, k, m : /\ j = After[i + 1] /\ j \in i + 2 .. n /\ cmd_list[j] = "then"
                     /\ k = After[j + 1] /\ k \in j + 2 .. n /\ cmd_list[k] = "else"
                     /\ m = After[k + 1] /\ m \in k + 2 .. n /\ cmd_list[m] = "fi"
                     /\ After[i] = m + 1
  BY <1>2 DEF IfIs
<1> HIDE DEF n
<1>4. i \in Nat /\ j \in Nat /\ k \in Nat /\ m \in Nat /\ i + 2 <= j /\ j + 2 <= k /\ k + 2 <= m /\ m <= n
  <2>1. i \in 1 .. n /\ j \in i + 2 .. n /\ k \in j + 2 .. n /\ m \in k + 2 .. n
    BY <1>3 DEF n
  <2> QED
    BY <1>1, <2>1, IfParts
<1>5. /\ {i + 1, j + 1, k + 1, j, k, m} \subseteq i + 1 .. n
      /\ \A x \in {j, k, m} : x # 0 /\ x \in 1 .. n
  BY <1>1, <1>4
<1>6. \A x \in {j, k, m} : At(cmd_list, x) \notin {"|", ">"}
  <2>1. \A x \in {j, k, m} : cmd_list[x] \in {"then", "else", "fi"} /\ x \in DOMAIN cmd_list
    BY <1>1, <1>3, <1>5
  <2> QED
    BY <2>1 DEF At
<1> DEFINE P(x, y, z) ==
      /\ x = After[i + 1] /\ y = After[x + 1] /\ z = After[y + 1] /\ After[i] = z + 1
      /\ i \in Nat /\ i + 2 <= x /\ x + 2 <= y /\ y + 2 <= z
      /\ cmd_list[x] = "then" /\ cmd_list[y] = "else" /\ cmd_list[z] = "fi"
      /\ {i + 1, x + 1, y + 1, x, y, z} \subseteq i + 1 .. Len(cmd_list)
      /\ \A o \in {x, y, z} : o # 0 /\ o \in 1 .. Len(cmd_list) /\ At(cmd_list, o) \notin {"|", ">"}
<1>7. P(j, k, m)
  BY <1>3, <1>4, <1>5, <1>6 DEF n
<1> HIDE DEF P
<1>8. \E x, y, z \in Nat : P(x, y, z)
  BY <1>4, <1>7
<1> QED
  BY <1>8 DEF P

\* A keyword or an operator is no command.
LEMMA NoCommand ==
  ASSUME Whole, NEW a \in 1 .. Len(cmd_list), cmd_list[a] \in {"then", "else", "fi", "|", ">"}
  PROVE  After[a] = 0
<1>1. Len(cmd_list) \in Nat /\ DOMAIN cmd_list = 1 .. Len(cmd_list)
  BY DEF Whole
<1>2. cmd_list[a] # "if" /\ cmd_list[a] \notin {"cmd", "cd", "exit"}
  OBVIOUS
<1>3. After[a] # 0 => OneIs(After, a, After[a])
  BY <1>1, <1>2, OneFacts
<1> QED
  BY <1>2, <1>3 DEF OneIs

LEMMA CommandsNest ==
  ASSUME Whole
  PROVE  \A i \in 1 .. Len(cmd_list) :
           After[i] # 0 /\ At(cmd_list, After[i]) \notin {"|", ">"} => Nests(i)
<1> DEFINE n == Len(cmd_list)
           P(i) == After[i] # 0 /\ At(cmd_list, After[i]) \notin {"|", ">"} => Nests(i)
           S == {i \in 1 .. n : P(i)}
<1>1. n \in Nat /\ DOMAIN cmd_list = 1 .. n
  BY DEF Whole
<1>2. ASSUME NEW i \in 1 .. n, \A k \in i + 1 .. n : P(k) PROVE P(i)
  <2> SUFFICES ASSUME After[i] # 0, At(cmd_list, After[i]) \notin {"|", ">"},
                      NEW a \in i .. After[i] - 1, After[a] # 0
               PROVE  After[a] <= After[i]
    BY DEF Nests
  <2> DEFINE e == After[i]
  <2>1. e \in i + 1 .. n + 1 /\ i \in Nat /\ e \in Nat
    BY <1>1, AfterRange
  <2>2. a \in 1 .. n /\ a \in Nat
    <3> HIDE DEF e
    <3>1. a \in i .. e - 1
      BY DEF e
    <3> QED
      BY <1>1, <2>1, <3>1
  <2>3. ASSUME NEW c \in i + 1 .. n, After[c] # 0, At(cmd_list, After[c]) \notin {"|", ">"}, After[c] <= e,
               a \in c .. After[c] - 1
        PROVE  After[a] <= e
    <3>1. Nests(c)
      BY <1>2, <2>3
    <3>2. After[a] <= After[c]
      BY <2>3, <3>1 DEF Nests
    <3>3. c \in 1 .. n
      BY <1>1
    <3>4. After[a] \in Nat /\ After[c] \in Nat
      <4>1. After[a] \in a + 1 .. n + 1 /\ After[c] \in c + 1 .. n + 1
        BY <1>1, <2>2, <2>3, <3>3, AfterRange
      <4> QED
        BY <1>1, <2>2, <3>3, <4>1
    <3> HIDE DEF e
    <3> QED
      BY <2>1, <2>3, <3>2, <3>4
  <2>4. CASE cmd_list[i] = "if"
    <3>1. PICK j, k, m \in Nat :
            /\ j = After[i + 1] /\ k = After[j + 1] /\ m = After[k + 1] /\ After[i] = m + 1
            /\ i \in Nat /\ i + 2 <= j /\ j + 2 <= k /\ k + 2 <= m
            /\ cmd_list[j] = "then" /\ cmd_list[k] = "else" /\ cmd_list[m] = "fi"
            /\ {i + 1, j + 1, k + 1, j, k, m} \subseteq i + 1 .. n
            /\ \A x \in {j, k, m} : x # 0 /\ x \in 1 .. n /\ At(cmd_list, x) \notin {"|", ">"}
      BY <2>4, PartsAre
    <3>2. a \in {i, j, k, m} \/ a \in i + 1 .. j - 1 \/ a \in j + 1 .. k - 1 \/ a \in k + 1 .. m - 1
      <4>1. e = m + 1
        BY <3>1
      <4>2. i <= a /\ a <= m /\ a \in Nat /\ i \in Nat
        <5> HIDE DEF e
        <5>1. a \in i .. e - 1
          BY DEF e
        <5> QED
          BY <2>1, <2>2, <4>1, <5>1
      <4> HIDE DEF e, n
      <4> QED
        BY <4>2
    <3>3. a \notin {j, k, m}
      BY <2>2, <3>1, NoCommand
    <3>4. j <= e /\ k <= e /\ m <= e
      <4>1. e = m + 1 /\ j + 2 <= k /\ k + 2 <= m
        BY <3>1
      <4> HIDE DEF e
      <4> QED
        BY <4>1
    <3>5. CASE a = i
      BY <2>1, <3>5
    <3>6. ASSUME NEW c \in {i + 1, j + 1, k + 1}, NEW x \in {j, k, m}, After[c] = x, a \in c .. x - 1
          PROVE  After[a] <= e
      <4>1. c \in i + 1 .. n /\ After[c] # 0 /\ At(cmd_list, After[c]) \notin {"|", ">"} /\ After[c] <= e
        BY <3>1, <3>4, <3>6
      <4> QED
        BY <2>3, <3>6, <4>1
    <3> QED
      BY <3>1, <3>2, <3>3, <3>5, <3>6
  <2>5. CASE cmd_list[i] # "if"
    <3>1. OneIs(After, i, e)
      BY <1>1, <2>5, OneFacts
    <3>2. CASE a = i
      BY <2>1, <3>2
    <3>3. CASE a # i
      <4>1. CASE e = i + 1
        BY <2>1, <3>3, <4>1
      <4>2. CASE i + 2 \in 1 .. n /\ cmd_list[i + 2] \in {"cmd", "cd", "exit"} /\ cmd_list[i + 1] = ">" /\ e = i + 3
        <5>1. a = i + 1 \/ a = i + 2
          BY <2>1, <3>3, <4>2
        <5>2. a # i + 1
          BY <2>2, <4>2, NoCommand
        <5>3. a = i + 2
          BY <5>1, <5>2
        <5>4. OneIs(After, a, After[a])
          BY <1>1, <2>2, <4>2, <5>3, OneFacts
        <5>5. cmd_list[a + 1] \notin {"|", ">"} \/ a + 1 \notin DOMAIN cmd_list
          <6>1. a + 1 = e
            BY <2>1, <4>2, <5>3
          <6> QED
            BY <6>1 DEF At
        <5>6. a + 2 \in 1 .. n => a + 1 \in DOMAIN cmd_list
          BY <1>1, <2>2
        <5>7. After[a] = a + 1
          BY <5>4, <5>5, <5>6 DEF OneIs
        <5> QED
          BY <2>1, <4>2, <5>3, <5>7
      <4>3. CASE i + 2 \in 1 .. n /\ cmd_list[i + 1] = "|" /\ e = After[i + 2]
        <5>1. a = i + 1 \/ a \in i + 2 .. e - 1
          BY <2>1, <3>3
        <5>2. a # i + 1
          BY <2>2, <4>3, NoCommand
        <5>3. i + 2 \in i + 1 .. n /\ e <= e
          BY <1>1, <2>1, <4>3
        <5> QED
          BY <2>3, <4>3, <5>1, <5>2, <5>3
      <4> QED
        BY <3>1, <4>1, <4>2, <4>3 DEF OneIs
    <3> QED
      BY <3>2, <3>3
  <2> QED
    BY <2>4, <2>5
<1>3. \A i \in 1 .. n : (\A k \in i + 1 .. n : k \in S) => i \in S
  <2> SUFFICES ASSUME NEW i \in 1 .. n, \A k \in i + 1 .. n : k \in S PROVE P(i)
    OBVIOUS
  <2>1. \A k \in i + 1 .. n : P(k)
    OBVIOUS
  <2> HIDE DEF P
  <2> QED
    BY <1>2, <2>1
<1>4. \A i \in 1 .. n : i \in S
  <2> HIDE DEF S
  <2> QED BY <1>1, <1>3, FromTheEnd
<1> QED
  BY <1>4

\* Of a command that begins in the condition or in the then branch of an if.
LEMMA PartsNest ==
  ASSUME Whole, NEW i \in 1 .. Len(cmd_list), cmd_list[i] = "if", NEW a \in 1 .. Len(cmd_list), After[a] # 0
  PROVE  /\ InCond(i, a) => After[a] <= After[i + 1]
         /\ InThen(i, a) => After[a] <= After[After[i + 1] + 1]
<1>1. PICK j, k, m \in Nat :
        /\ j = After[i + 1] /\ k = After[j + 1] /\ m = After[k + 1] /\ After[i] = m + 1
        /\ {i + 1, j + 1, k + 1, j, k, m} \subseteq i + 1 .. Len(cmd_list)
        /\ \A x \in {j, k, m} : x # 0 /\ x \in 1 .. Len(cmd_list) /\ At(cmd_list, x) \notin {"|", ">"}
  BY PartsAre
<1>2. Len(cmd_list) \in Nat
  BY DEF Whole
<1>3. i + 1 \in 1 .. Len(cmd_list) /\ j + 1 \in 1 .. Len(cmd_list)
  <2>1. {i + 1, j + 1} \subseteq i + 1 .. Len(cmd_list) /\ i \in 1 .. Len(cmd_list)
    BY <1>1
  <2> QED
    BY <1>2, <2>1
<1>4. Nests(i + 1) /\ Nests(j + 1)
  BY <1>1, <1>3, CommandsNest
<1> QED
  BY <1>1, <1>4 DEF Nests, InCond, InThen

\* Where execute may go from a command at a: on with the right side of a pipeline, into the
\* condition of an if or one of its branches.
Enters(a, c) == \/ c = a
                \/ cmd_list[a] # "if" /\ c = a + 2 /\ cmd_list[a + 1] = "|" /\ After[c] = After[a]
                \/ cmd_list[a] = "if" /\ c \in {a + 1, After[a + 1] + 1, After[After[a + 1] + 1] + 1}

LEMMA EntersFacts ==
  ASSUME Whole, NEW a \in 1 .. Len(cmd_list), After[a] # 0, NEW c \in 1 .. Len(cmd_list), After[c] # 0, Enters(a, c)
  PROVE  a <= c /\ After[c] <= After[a] /\ After[a] \in a + 1 .. Len(cmd_list) + 1 /\ After[c] \in c + 1 .. Len(cmd_list) + 1
<1>1. Len(cmd_list) \in Nat /\ DOMAIN cmd_list = 1 .. Len(cmd_list)
  BY DEF Whole
<1>2. After[a] \in a + 1 .. Len(cmd_list) + 1 /\ After[c] \in c + 1 .. Len(cmd_list) + 1
  BY <1>1, AfterRange
<1>3. CASE cmd_list[a] # "if"
  BY <1>2, <1>3 DEF Enters
<1>4. CASE cmd_list[a] = "if" /\ c # a
  <2>1. c \in {a + 1, After[a + 1] + 1, After[After[a + 1] + 1] + 1}
    BY <1>4 DEF Enters
  <2>2. c \in a + 1 .. Len(cmd_list) /\ After[c] < After[a]
    BY <1>4, <2>1, ArmsAre
  <2> QED
    BY <1>2, <2>2
<1> QED
  BY <1>2, <1>3, <1>4

\* A then branch is entered from inside it or from its if, and so is a condition.
LEMMA EntersThen ==
  ASSUME Whole, NEW i \in 1 .. Len(cmd_list), cmd_list[i] = "if", NEW a \in 1 .. Len(cmd_list), After[a] # 0,
         NEW c \in 1 .. Len(cmd_list), After[c] # 0, Enters(a, c), InThen(i, c)
  PROVE  InThen(i, a) \/ (a = i /\ c = After[i + 1] + 1)
<1> SUFFICES ASSUME ~ InThen(i, a) PROVE a = i /\ c = After[i + 1] + 1
  OBVIOUS
<1>1. PICK j, k, m \in Nat :
        /\ j = After[i + 1] /\ k = After[j + 1] /\ m = After[k + 1] /\ After[i] = m + 1
        /\ i \in Nat /\ i + 2 <= j /\ j + 2 <= k /\ k + 2 <= m
        /\ cmd_list[j] = "then" /\ cmd_list[k] = "else" /\ cmd_list[m] = "fi"
        /\ {i + 1, j + 1, k + 1, j, k, m} \subseteq i + 1 .. Len(cmd_list)
        /\ \A x \in {j, k, m} : x # 0 /\ x \in 1 .. Len(cmd_list) /\ At(cmd_list, x) \notin {"|", ">"}
  BY PartsAre
<1>2. c \in j + 1 .. k - 1 /\ a \notin j + 1 .. k - 1
  BY <1>1 DEF InThen
<1> DEFINE ea == After[a]
           ec == After[c]
<1>3. a \in Nat /\ c \in Nat /\ a <= c /\ ec <= ea /\ ea \in Nat /\ ec \in Nat /\ c < ec /\ a < ea
  <2>1. a <= c /\ ec <= ea /\ ea \in a + 1 .. Len(cmd_list) + 1 /\ ec \in c + 1 .. Len(cmd_list) + 1
    BY EntersFacts
  <2>2. Len(cmd_list) \in Nat
    BY DEF Whole
  <2> HIDE DEF ea, ec
  <2> QED
    BY <2>1, <2>2
<1>4. a <= j
  <2> HIDE DEF ea, ec
  <2>1. c <= k - 1
    BY <1>2
  <2> QED
    BY <1>2, <1>3, <2>1
<1>5. a # j
  BY <1>1, NoCommand
<1>6. a < j /\ a # c /\ c > j /\ c < k
  <2> HIDE DEF ea, ec
  <2> QED
    BY <1>2, <1>3, <1>4, <1>5
<1>7. CASE cmd_list[a] # "if"
  <2>1. c = a + 2 /\ cmd_list[a + 1] = "|"
    BY <1>6, <1>7 DEF Enters
  <2>2. a + 1 = j
    <3> HIDE DEF ea, ec
    <3> QED
      BY <1>3, <1>6, <2>1
  <2> QED
    BY <1>1, <2>1, <2>2
<1>8. CASE cmd_list[a] = "if" /\ a = i
  <2>1. c \in {i + 1, j + 1, k + 1}
    BY <1>1, <1>6, <1>8 DEF Enters
  <2>2. i + 2 <= j /\ i \in Nat
    BY <1>1
  <2>3. c # i + 1 /\ c # k + 1
    <3> HIDE DEF ea, ec
    <3> QED
      BY <1>3, <1>6, <2>2
  <2> QED
    BY <1>1, <1>8, <2>1, <2>3
<1>9. CASE cmd_list[a] = "if" /\ a # i
  <2>1. PICK u, v, w \in Nat :
          /\ u = After[a + 1] /\ v = After[u + 1] /\ w = After[v + 1] /\ After[a] = w + 1
          /\ a \in Nat /\ a + 2 <= u /\ u + 2 <= v /\ v + 2 <= w
          /\ cmd_list[u] = "then" /\ cmd_list[v] = "else" /\ cmd_list[w] = "fi"
          /\ {a + 1, u + 1, v + 1, u, v, w} \subseteq a + 1 .. Len(cmd_list)
          /\ \A x \in {u, v, w} : x # 0 /\ x \in 1 .. Len(cmd_list) /\ At(cmd_list, x) \notin {"|", ">"}
    BY <1>9, PartsAre
  <2>2. c \in {a + 1, u + 1, v + 1}
    BY <1>6, <1>9, <2>1 DEF Enters
  <2>3. CASE a > i
    <3>1. a \in i + 1 .. j - 1
      <4> HIDE DEF ea, ec
      <4>1. a \in Nat /\ i \in Nat /\ j \in Nat /\ i < a /\ a < j
        BY <1>3, <1>6, <2>3
      <4> QED
        BY <4>1
    <3>2. InCond(i, a)
      BY <1>1, <3>1 DEF InCond
    <3>3. ea <= j
      BY <1>1, <3>2, PartsNest
    <3> HIDE DEF ea, ec
    <3> QED
      BY <1>3, <1>6, <3>3
  <2>4. CASE a < i
    <3>1. After[i] # 0
      BY <1>1
    <3>2. i # u /\ i # v
      BY <2>1
    <3>3. c = a + 1 => FALSE
      <4> HIDE DEF ea, ec
      <4>1. a + 1 <= i /\ i < j
        BY <1>1, <1>3, <2>4
      <4> QED
        BY <1>3, <1>6, <4>1
    <3>4. CASE c = u + 1
      <4>1. i \in a + 1 .. u - 1
        <5> HIDE DEF ea, ec
        <5>1. i < j /\ j < c /\ c = u + 1 /\ i \in Nat /\ a < i
          BY <1>1, <1>6, <2>4, <3>4
        <5>2. i < u
          BY <1>3, <3>2, <5>1
        <5> QED
          BY <1>3, <5>1, <5>2
      <4>2. InCond(a, i)
        BY <2>1, <4>1 DEF InCond
      <4>3. After[i] <= u
        BY <1>9, <2>1, <3>1, <4>2, PartsNest
      <4>4. m + 1 <= u /\ k + 2 <= m /\ c = u + 1 /\ c < k
        BY <1>1, <1>6, <3>4, <4>3
      <4> HIDE DEF ea, ec
      <4> QED
        BY <1>3, <4>4
    <3>5. CASE c = v + 1
      <4>1. i \in a + 1 .. u - 1 \/ i \in u + 1 .. v - 1
        <5> HIDE DEF ea, ec
        <5>1. i < j /\ j < c /\ c = v + 1 /\ i \in Nat /\ a < i
          BY <1>1, <1>6, <2>4, <3>5
        <5>2. i < v
          BY <1>3, <3>2, <5>1
        <5> QED
          BY <1>3, <3>2, <5>1, <5>2
      <4>2. InCond(a, i) \/ InThen(a, i)
        BY <2>1, <4>1 DEF InCond, InThen
      <4>3. After[i] <= u \/ After[i] <= v
        BY <1>9, <2>1, <3>1, <4>2, PartsNest
      <4>4. (m + 1 <= u \/ m + 1 <= v) /\ k + 2 <= m /\ c = v + 1 /\ c < k /\ u + 2 <= v
        BY <1>1, <1>6, <2>1, <3>5, <4>3
      <4> HIDE DEF ea, ec
      <4> QED
        BY <1>3, <4>4
    <3> QED
      BY <2>2, <3>3, <3>4, <3>5
  <2>5. a > i \/ a < i
    <3> HIDE DEF ea, ec
    <3>1. i \in Nat
      BY <1>1
    <3> QED
      BY <1>3, <1>9, <3>1
  <2> QED
    BY <2>3, <2>4, <2>5
<1> QED
  BY <1>7, <1>8, <1>9

LEMMA EntersCond ==
  ASSUME Whole, NEW i \in 1 .. Len(cmd_list), cmd_list[i] = "if", NEW a \in 1 .. Len(cmd_list), After[a] # 0,
         NEW c \in 1 .. Len(cmd_list), After[c] # 0, Enters(a, c), InCond(i, c)
  PROVE  InCond(i, a) \/ (a = i /\ c = i + 1)
<1>1. PICK j, k, m \in Nat :
        /\ j = After[i + 1] /\ k = After[j + 1] /\ m = After[k + 1] /\ After[i] = m + 1
        /\ i \in Nat /\ i + 2 <= j /\ j + 2 <= k /\ k + 2 <= m
        /\ cmd_list[j] = "then" /\ cmd_list[k] = "else" /\ cmd_list[m] = "fi"
        /\ {i + 1, j + 1, k + 1, j, k, m} \subseteq i + 1 .. Len(cmd_list)
        /\ \A x \in {j, k, m} : x # 0 /\ x \in 1 .. Len(cmd_list) /\ At(cmd_list, x) \notin {"|", ">"}
  BY PartsAre
<1>2. a <= c /\ a \in Nat /\ c \in Nat
  <2>1. a <= c /\ Len(cmd_list) \in Nat
    BY EntersFacts DEF Whole
  <2> QED
    BY <2>1
<1>3. i + 1 <= c /\ c <= j - 1
  BY <1>1, <1>2 DEF InCond
<1>4. CASE a > i
  <2>1. a \in i + 1 .. j - 1
    BY <1>1, <1>2, <1>3, <1>4
  <2> QED
    BY <1>1, <2>1 DEF InCond
<1>5. CASE a <= i
  <2>1. a # c
    BY <1>1, <1>2, <1>3, <1>5
  <2>2. CASE cmd_list[a] # "if"
    <3>1. c = a + 2 /\ cmd_list[a + 1] = "|"
      BY <2>1, <2>2 DEF Enters
    <3>2. a = i \/ a + 1 = i
      BY <1>1, <1>2, <1>3, <1>5, <3>1
    <3> QED
      BY <2>2, <3>1, <3>2
  <2>3. CASE cmd_list[a] = "if" /\ a = i
    <3>1. c \in {i + 1, j + 1, k + 1}
      BY <1>1, <2>1, <2>3 DEF Enters
    <3>2. c # j + 1 /\ c # k + 1
      <4>1. j + 2 <= k
        BY <1>1
      <4> QED
        BY <1>2, <1>3, <4>1
    <3> QED
      BY <2>3, <3>1, <3>2
  <2>4. CASE cmd_list[a] = "if" /\ a # i
    <3>1. PICK u, v, w \in Nat :
            /\ u = After[a + 1] /\ v = After[u + 1] /\ w = After[v + 1] /\ After[a] = w + 1
            /\ a \in Nat /\ a + 2 <= u /\ u + 2 <= v /\ v + 2 <= w
            /\ cmd_list[u] = "then" /\ cmd_list[v] = "else" /\ cmd_list[w] = "fi"
            /\ {a + 1, u + 1, v + 1, u, v, w} \subseteq a + 1 .. Len(cmd_list)
            /\ \A x \in {u, v, w} : x # 0 /\ x \in 1 .. Len(cmd_list) /\ At(cmd_list, x) \notin {"|", ">"}
      BY <2>4, PartsAre
    <3>2. c \in {a + 1, u + 1, v + 1} /\ i # u /\ i # v /\ After[i] # 0 /\ a < i
      <4>1. c \in {a + 1, u + 1, v + 1}
        BY <2>1, <2>4, <3>1 DEF Enters
      <4>2. cmd_list[u] = "then" /\ cmd_list[v] = "else"
        BY <3>1
      <4>3. i # u /\ i # v
        BY <4>2
      <4>4. After[i] # 0
        BY DEF Whole
      <4>5. i \in Nat
        BY <1>1
      <4> QED
        BY <1>2, <1>5, <2>4, <4>1, <4>3, <4>4, <4>5
    <3>3. c # a + 1
      BY <1>1, <1>2, <1>3, <3>2
    <3>9. /\ i \in Nat /\ a \in Nat /\ c \in Nat /\ i + 1 <= c /\ c <= j - 1 /\ j + 2 <= k /\ k + 2 <= m
          /\ a < i /\ a + 2 <= u /\ u + 2 <= v
      BY <1>1, <1>2, <1>3, <3>1, <3>2
    <3>4. i \in a + 1 .. u - 1 \/ i \in u + 1 .. v - 1
      <4>2. i < u \/ (i > u /\ i < v)
        BY <3>2, <3>3, <3>9
      <4> QED
        BY <3>9, <4>2
    <3>5. InCond(a, i) \/ InThen(a, i)
      BY <3>1, <3>4 DEF InCond, InThen
    <3>6. (InCond(a, i) => After[i] <= u) /\ (InThen(a, i) => After[i] <= v)
      BY <2>4, <3>1, <3>2, PartsNest
    <3>7. CASE InCond(a, i)
      <4>1. m + 1 <= u
        BY <1>1, <3>6, <3>7
      <4> QED
        BY <3>2, <3>3, <3>9, <4>1
    <3>8. CASE InThen(a, i) /\ ~InCond(a, i)
      <4>1. m + 1 <= v /\ i \in u + 1 .. v - 1
        BY <1>1, <3>1, <3>4, <3>6, <3>8 DEF InCond
      <4>2. c = v + 1
        <5>1. c = u + 1 => FALSE
          BY <3>9, <4>1
        <5> QED
          BY <3>2, <3>3, <5>1
      <4> QED
        BY <3>9, <4>1, <4>2
    <3> QED
      BY <3>5, <3>7, <3>8
  <2> QED
    BY <2>2, <2>3, <2>4
<1> QED
  BY <1>2, <1>4, <1>5, <1>1

\* Nobody goes from one command both into the condition of an if and into its then branch,
\* other than from the if itself.
LEMMA EntersTwice ==
  ASSUME Whole, NEW i \in 1 .. Len(cmd_list), cmd_list[i] = "if", NEW a \in 1 .. Len(cmd_list), After[a] # 0,
         NEW c \in 1 .. Len(cmd_list), After[c] # 0, Enters(a, c), InThen(i, c),
         NEW b \in 1 .. Len(cmd_list), After[b] # 0, Enters(a, b), InCond(i, b)
  PROVE  a = i /\ c = After[i + 1] + 1
<1>1. InThen(i, a) \/ (a = i /\ c = After[i + 1] + 1)
  BY EntersThen
<1>2. InCond(i, a) \/ a = i
  BY EntersCond
<1>3. /\ i + 2 <= After[i + 1] /\ After[i + 1] \in Nat /\ i \in Nat
  <2>1. After[i + 1] \in i + 2 .. Len(cmd_list) /\ Len(cmd_list) \in Nat
    BY ArmsAre DEF Whole
  <2> QED
    BY <2>1
<1>4. ASSUME InThen(i, a) PROVE FALSE
  <2>1. a >= After[i + 1] + 1 /\ a \in Int
    BY <1>3, <1>4 DEF InThen
  <2>2. CASE InCond(i, a)
    <3>1. a <= After[i + 1] - 1
      BY <1>3, <2>2 DEF InCond
    <3> QED
      BY <1>3, <2>1, <3>1
  <2>3. CASE a = i
    BY <1>3, <2>1, <2>3
  <2> QED
    BY <1>2, <2>2, <2>3
<1> QED
  BY <1>1, <1>4

\* What a process may still do, and which of two is behind the other or in its condition.
Active(r) == r.pc \in {"execute", "wait", "read"}
Before(q, p) == q.at < p.at /\ (Active(q) => After[q.at] <= p.at)
Within(p, q) == Waits(p) /\ p.at < q.at /\ After[q.at] <= After[p.at + 1]
Apart(p, q) == Before(p, q) \/ Before(q, p) \/ Within(p, q) \/ Within(q, p)

\* Who is in the condition p waits for is over, has written or can write; and who is in a
\* condition is over when somebody is in the then branch.
CanWrite(p, q, d) == Within(p, q) /\ q.pc \notin Over => d[p.mb] \/ Holds(q, p.mb)
Late(p, q) == \A i \in 1 .. Len(cmd_list) :
                cmd_list[i] = "if" /\ InThen(i, p.at) /\ InCond(i, q.at) => q.pc \in Over
Peace(p, q, d) == Apart(p, q) /\ CanWrite(p, q, d) /\ Late(p, q)
Seated(r, d) == /\ r.at \in 1 .. Len(cmd_list) /\ After[r.at] # 0
                /\ Waits(r) => cmd_list[r.at] = "if" /\ r.mb \in DOMAIN d
AllSeated(ps, d) == \A p \in DOMAIN ps : Seated(ps[p], d)
AllPeace(ps, d) == \A p, q \in DOMAIN ps : p # q => Peace(ps[p], ps[q], d)
Orderly(ps, d) == AllSeated(ps, d) /\ AllPeace(ps, d)
Grows(d, e) == \A m \in DOMAIN d : m \in DOMAIN e /\ (d[m] => e[m])

LEMMA SeatFacts ==
  ASSUME Whole, NEW r, NEW d, Seated(r, d)
  PROVE  /\ r.at \in Nat /\ After[r.at] \in Nat /\ r.at < After[r.at]
         /\ Waits(r) => After[r.at + 1] \in Nat /\ r.at + 2 <= After[r.at + 1] /\ After[r.at + 1] < After[r.at]
<1>1. Len(cmd_list) \in Nat /\ DOMAIN cmd_list = 1 .. Len(cmd_list) /\ r.at \in 1 .. Len(cmd_list) /\ After[r.at] # 0
  BY DEF Whole, Seated
<1>2. After[r.at] \in r.at + 1 .. Len(cmd_list) + 1
  BY <1>1, AfterRange
<1>3. ASSUME Waits(r)
      PROVE  After[r.at + 1] \in Nat /\ r.at + 2 <= After[r.at + 1] /\ After[r.at + 1] < After[r.at]
  <2>1. cmd_list[r.at] = "if"
    BY <1>3 DEF Seated
  <2>2. /\ After[r.at + 1] \in r.at + 2 .. Len(cmd_list) /\ After[r.at + 1] < After[r.at]
    BY <1>1, <2>1, ArmsAre
  <2> QED
    BY <1>1, <2>2
<1> QED
  BY <1>1, <1>2, <1>3

\* A process that stays where it is and does not become more active.
StaysPut(x, r, d, e) == /\ r.at = x.at /\ (Active(r) => Active(x)) /\ (Waits(x) <=> Waits(r)) /\ r.mb = x.mb
                        /\ x.pc \in Over => r.pc \in Over
                        /\ r.pc \notin Over => \A m \in DOMAIN d : Holds(x, m) => Holds(r, m) \/ e[m]

LEMMA StayingIsPeace ==
  ASSUME NEW x, NEW y, NEW r, NEW d, NEW e, Grows(d, e), Seated(x, d), Seated(y, d),
         Peace(x, y, d), Peace(y, x, d), StaysPut(x, r, d, e)
  PROVE  Peace(r, y, e) /\ Peace(y, r, e)
<1>1. Before(x, y) => Before(r, y)
  BY DEF Before, StaysPut
<1>2. Before(y, x) => Before(y, r)
  BY DEF Before, StaysPut
<1>3. (Within(x, y) <=> Within(r, y)) /\ (Within(y, x) <=> Within(y, r))
  BY DEF Within, StaysPut
<1>4. Apart(r, y) /\ Apart(y, r)
  BY <1>1, <1>2, <1>3 DEF Peace, Apart
<1>5. CanWrite(r, y, e)
  <2>1. Within(x, y) => x.mb \in DOMAIN d /\ r.mb = x.mb
    BY DEF Within, Seated, StaysPut
  <2> QED
    BY <1>3, <2>1 DEF Peace, CanWrite, Grows
<1>6. CanWrite(y, r, e)
  <2>1. Within(y, x) => y.mb \in DOMAIN d
    BY DEF Within, Seated
  <2> QED
    BY <1>3, <2>1 DEF Peace, CanWrite, Grows, StaysPut
<1>7. Late(r, y) /\ Late(y, r)
  BY DEF Peace, Late, StaysPut
<1> QED
  BY <1>4, <1>5, <1>6, <1>7 DEF Peace

\* Behind or in the condition of one that stands on a command is behind or in the
\* condition of one that goes on into it.
LEMMA GoingOnIsApart ==
  ASSUME Whole, NEW d, NEW e, NEW x, NEW y, NEW r, Seated(x, d), Seated(y, d), Seated(r, e), Active(x), ~Waits(r),
         Enters(x.at, r.at), Waits(x) => After[x.at + 1] < r.at, Apart(x, y)
  PROVE  Apart(r, y) /\ Apart(y, r) /\ (Within(y, r) => Within(y, x)) /\ ~Within(r, y)
<1> DEFINE a == x.at
           ea == After[x.at]
           ca == After[x.at + 1]
           b == y.at
           eb == After[y.at]
           cb == After[y.at + 1]
           c == r.at
           ec == After[r.at]
<1>1. a \in Nat /\ ea \in Nat /\ a < ea /\ (Waits(x) => ca \in Nat /\ ca < ea)
  BY SeatFacts
<1>2. b \in Nat /\ eb \in Nat /\ b < eb /\ (Waits(y) => cb \in Nat /\ b + 2 <= cb /\ cb < eb)
  BY SeatFacts
<1>3. c \in Nat /\ ec \in Nat /\ c < ec
  BY SeatFacts
<1>4. a <= c /\ ec <= ea
  BY EntersFacts DEF Seated
<1>5. Waits(x) => ca < c
  OBVIOUS
<1>6. Waits(y) => Active(y)
  BY DEF Waits, Active
<1>7. /\ Before(x, y) => a < b /\ ea <= b
      /\ Before(y, x) => b < a /\ (Active(y) => eb <= a)
      /\ Within(x, y) => Waits(x) /\ a < b /\ eb <= ca
      /\ Within(y, x) <=> Waits(y) /\ b < a /\ ea <= cb
  BY DEF Before, Within
<1>8. /\ Before(r, y) <=> c < b /\ (Active(r) => ec <= b)
      /\ Before(y, r) <=> b < c /\ (Active(y) => eb <= c)
      /\ Within(y, r) <=> Waits(y) /\ b < c /\ ec <= cb
      /\ ~Within(r, y)
  BY DEF Before, Within
<1> HIDE DEF a, ea, ca, b, eb, cb, c, ec
<1>9. CASE Before(x, y)
  <2>1. Before(r, y)
    BY <1>1, <1>2, <1>3, <1>4, <1>7, <1>8, <1>9
  <2>2. ~Within(y, r)
    BY <1>1, <1>2, <1>3, <1>4, <1>7, <1>8, <1>9
  <2> QED
    BY <1>8, <2>1, <2>2 DEF Apart
<1>10. CASE Before(y, x)
  <2>1. Before(y, r)
    BY <1>1, <1>2, <1>3, <1>4, <1>7, <1>8, <1>10
  <2>2. ~Within(y, r)
    BY <1>1, <1>2, <1>3, <1>4, <1>6, <1>7, <1>8, <1>10
  <2> QED
    BY <1>8, <2>1, <2>2 DEF Apart
<1>11. CASE Within(x, y)
  <2>1. Before(y, r)
    BY <1>1, <1>2, <1>3, <1>5, <1>7, <1>8, <1>11
  <2>2. ~Within(y, r)
    BY <1>1, <1>2, <1>3, <1>5, <1>7, <1>8, <1>11
  <2> QED
    BY <1>8, <2>1, <2>2 DEF Apart
<1>12. CASE Within(y, x)
  <2>1. Within(y, r)
    BY <1>1, <1>2, <1>3, <1>4, <1>7, <1>8, <1>12
  <2> QED
    BY <1>8, <1>12, <2>1 DEF Apart
<1> QED
  BY <1>9, <1>10, <1>11, <1>12 DEF Apart

\* Of the others only those a process waits for are in the condition of the if it stands on,
\* and nobody is in its then branch.
LEMMA ApartInParts ==
  ASSUME Whole, NEW d, NEW x, NEW y, Seated(x, d), Seated(y, d), Active(x), cmd_list[x.at] = "if", Apart(x, y)
  PROVE  /\ InCond(x.at, y.at) => Within(x, y)
         /\ InThen(x.at, y.at) => FALSE
<1> DEFINE a == x.at
           ea == After[x.at]
           b == y.at
           eb == After[y.at]
           cb == After[y.at + 1]
<1>1. a \in 1 .. Len(cmd_list)
  BY DEF Seated
<1>2. PICK j, k, m \in Nat :
        /\ j = After[a + 1] /\ k = After[j + 1] /\ m = After[k + 1] /\ After[a] = m + 1
        /\ a \in Nat /\ a + 2 <= j /\ j + 2 <= k /\ k + 2 <= m
        /\ cmd_list[j] = "then" /\ cmd_list[k] = "else" /\ cmd_list[m] = "fi"
        /\ {a + 1, j + 1, k + 1, j, k, m} \subseteq a + 1 .. Len(cmd_list)
        /\ \A o \in {j, k, m} : o # 0 /\ o \in 1 .. Len(cmd_list) /\ At(cmd_list, o) \notin {"|", ">"}
  BY <1>1, PartsAre
<1>3. ea = m + 1
  BY <1>2
<1>4. b \in Nat /\ eb \in Nat /\ b < eb
  BY SeatFacts
<1>5. /\ InCond(a, b) <=> b \in a + 1 .. j - 1
      /\ InThen(a, b) <=> b \in j + 1 .. k - 1
  BY <1>2 DEF InCond, InThen
<1>6. /\ Before(x, y) => a < b /\ ea <= b
      /\ Before(y, x) => b < a
      /\ Within(x, y) => a < b /\ eb <= j
      /\ Within(y, x) => b < a
  BY <1>2 DEF Before, Within
<1>7. a \in Nat /\ a + 2 <= j /\ j + 2 <= k /\ k + 2 <= m
  BY <1>2
<1>8. Before(x, y) \/ Before(y, x) \/ Within(x, y) \/ Within(y, x)
  BY DEF Apart
<1> HIDE DEF a, ea, b, eb, cb
<1>9. InCond(a, b) => Within(x, y)
  <2> SUFFICES ASSUME InCond(a, b) PROVE Within(x, y)
    OBVIOUS
  <2>1. a + 1 <= b /\ b <= j - 1
    BY <1>4, <1>5, <1>7
  <2>2. ~Before(x, y) /\ ~Before(y, x) /\ ~Within(y, x)
    BY <1>3, <1>4, <1>6, <1>7, <2>1
  <2> QED
    BY <1>8, <2>2
<1>10. InThen(a, b) => FALSE
  <2> SUFFICES ASSUME InThen(a, b) PROVE FALSE
    OBVIOUS
  <2>1. j + 1 <= b /\ b <= k - 1
    BY <1>4, <1>5, <1>7
  <2>2. ~Before(x, y) /\ ~Before(y, x) /\ ~Within(y, x) /\ ~Within(x, y)
    BY <1>3, <1>4, <1>6, <1>7, <2>1
  <2> QED
    BY <1>8, <2>2
<1> QED
  BY <1>9, <1>10 DEF a, b

\* A process r that goes on from where x was, or is made there.
GoesInto(x, r, y, d, e) ==
  /\ Active(x) /\ ~Waits(r) /\ Enters(x.at, r.at)
  /\ Waits(x) => r.at # x.at + 1 /\ After[x.at + 1] < r.at
  /\ \A m \in DOMAIN d : Holds(x, m) => Holds(r, m)
  /\ cmd_list[x.at] = "if" /\ r.at = After[x.at + 1] + 1 /\ Within(x, y) => y.pc \in Over

LEMMA GoingIntoIsPeace ==
  ASSUME Whole, NEW x, NEW y, NEW r, NEW d, NEW e, Grows(d, e), Seated(x, d), Seated(y, d), Seated(r, e),
         Peace(x, y, d), Peace(y, x, d), GoesInto(x, r, y, d, e)
  PROVE  Peace(r, y, e) /\ Peace(y, r, e)
<1>1. /\ x.at \in 1 .. Len(cmd_list) /\ After[x.at] # 0 /\ r.at \in 1 .. Len(cmd_list) /\ After[r.at] # 0
      /\ Active(x) /\ ~Waits(r) /\ Enters(x.at, r.at) /\ Apart(x, y)
      /\ Waits(x) => r.at # x.at + 1 /\ After[x.at + 1] < r.at
  BY DEF Seated, GoesInto, Peace
<1>2. Apart(r, y) /\ Apart(y, r) /\ (Within(y, r) => Within(y, x)) /\ ~Within(r, y)
  BY <1>1, GoingOnIsApart
<1>3. CanWrite(r, y, e)
  BY <1>2 DEF CanWrite
<1>4. x.pc \notin Over
  BY <1>1 DEF Active, Over
<1>5. CanWrite(y, r, e)
  <2> SUFFICES ASSUME Within(y, r) PROVE e[y.mb] \/ Holds(r, y.mb)
    BY DEF CanWrite
  <2>1. Within(y, x)
    BY <1>2
  <2>2. y.mb \in DOMAIN d
    BY DEF Within, Seated
  <2>3. d[y.mb] \/ Holds(x, y.mb)
    BY <1>4, <2>1 DEF Peace, CanWrite
  <2> QED
    BY <2>2, <2>3 DEF Grows, GoesInto
<1>6. Late(r, y)
  <2> SUFFICES ASSUME NEW i \in 1 .. Len(cmd_list), cmd_list[i] = "if", InThen(i, r.at), InCond(i, y.at)
               PROVE  y.pc \in Over
    BY DEF Late
  <2>1. InThen(i, x.at) \/ (x.at = i /\ r.at = After[i + 1] + 1)
    BY <1>1, EntersThen
  <2>2. CASE InThen(i, x.at)
    BY <2>2 DEF Peace, Late
  <2>3. CASE x.at = i /\ r.at = After[i + 1] + 1
    <3>1. Within(x, y)
      BY <1>1, <2>3, ApartInParts
    <3> QED
      BY <2>3, <3>1 DEF GoesInto
  <2> QED
    BY <2>1, <2>2, <2>3
<1>7. Late(y, r)
  <2> SUFFICES ASSUME NEW i \in 1 .. Len(cmd_list), cmd_list[i] = "if", InThen(i, y.at), InCond(i, r.at)
               PROVE  FALSE
    BY DEF Late
  <2>1. InCond(i, x.at) \/ (x.at = i /\ r.at = i + 1)
    BY <1>1, EntersCond
  <2>2. CASE InCond(i, x.at)
    BY <1>4, <2>2 DEF Peace, Late
  <2>3. CASE x.at = i
    BY <1>1, <2>3, ApartInParts
  <2> QED
    BY <2>1, <2>2, <2>3
<1> QED
  BY <1>2, <1>3, <1>5, <1>6, <1>7 DEF Peace

\* A process that begins to wait has nobody in its condition yet.
LEMMA WaitingIsPeace ==
  ASSUME Whole, NEW x, NEW y, NEW r, NEW d, NEW e, Grows(d, e), Seated(x, d), Seated(y, d), Seated(r, e),
         Peace(x, y, d), Peace(y, x, d), x.pc = "execute", r.pc = "wait", r.at = x.at, r.conds = x.conds
  PROVE  Peace(r, y, e) /\ Peace(y, r, e)
<1> DEFINE a == x.at
           ea == After[x.at]
           ca == After[x.at + 1]
           b == y.at
           eb == After[y.at]
<1>1. /\ Before(x, y) <=> Before(r, y)
      /\ Before(y, x) <=> Before(y, r)
      /\ Within(y, x) <=> Within(y, r)
      /\ ~Within(x, y)
      /\ Before(x, y) => ea <= b
      /\ Before(y, x) => b < a
      /\ Within(y, x) => b < a
      /\ Within(r, y) => a < b /\ eb <= ca
  BY DEF Before, Within, Active, Waits
<1>2. Apart(r, y) /\ Apart(y, r)
  BY <1>1 DEF Peace, Apart
<1>3. Before(x, y) \/ b < a
  BY <1>1 DEF Peace, Apart
<1>4. ~Within(r, y)
  <2>1. b \in Nat /\ eb \in Nat /\ b < eb
    BY SeatFacts
  <2>2. a \in Nat /\ ea \in Nat /\ ca \in Nat /\ ca < ea
    <3>1. r.at \in Nat /\ After[r.at] \in Nat /\ (Waits(r) => After[r.at + 1] \in Nat /\ After[r.at + 1] < After[r.at])
      BY SeatFacts
    <3> QED
      BY <3>1 DEF Waits
  <2> HIDE DEF a, ea, ca, b, eb
  <2> QED
    BY <1>1, <1>3, <2>1, <2>2
<1>5. CanWrite(r, y, e)
  BY <1>4 DEF CanWrite
<1>6. CanWrite(y, r, e)
  <2>1. Within(y, x) => y.mb \in DOMAIN d
    BY DEF Within, Seated
  <2>2. x.pc \notin Over
    BY DEF Over
  <2> QED
    BY <1>1, <2>1, <2>2 DEF Peace, CanWrite, Grows, Holds
<1>7. Late(r, y) /\ Late(y, r)
  <2>1. x.pc \notin Over
    BY DEF Over
  <2> QED
    BY <2>1 DEF Peace, Late
<1> QED
  BY <1>2, <1>5, <1>6, <1>7 DEF Peace

\* The two that one becomes when it makes another one.
LEMMA TwoPiped ==
  ASSUME Whole, NEW d, NEW a \in 1 .. Len(cmd_list), cmd_list[a] # "if", NEW r, NEW s, Seated(r, d), Seated(s, d),
         r.at = a + 2, Enters(a, r.at), s.at = a, s.pc = "single", ~Waits(r)
  PROVE  Peace(r, s, d) /\ Peace(s, r, d)
<1>1. a \in Nat
  OBVIOUS
<1>2. Before(s, r)
  BY <1>1 DEF Before, Active
<1>3. ~Within(r, s) /\ ~Within(s, r)
  BY DEF Within, Waits
<1>4. After[a] # 0 /\ Enters(a, s.at) /\ s.at \in 1 .. Len(cmd_list) /\ r.at \in 1 .. Len(cmd_list) /\ After[r.at] # 0
  BY DEF Seated, Enters
<1>5. Late(r, s) /\ Late(s, r)
  BY <1>4, EntersTwice DEF Late
<1> QED
  BY <1>2, <1>3, <1>5 DEF Peace, Apart, CanWrite

LEMMA TwoOfIf ==
  ASSUME Whole, NEW d, NEW a \in 1 .. Len(cmd_list), cmd_list[a] = "if", NEW r, NEW s, Seated(r, d), Seated(s, d),
         r.at = a, r.pc = "wait", s.at = a + 1, ~Waits(s), Holds(s, r.mb)
  PROVE  Peace(r, s, d) /\ Peace(s, r, d)
<1>1. a \in Nat
  OBVIOUS
<1>2. Within(r, s)
  <2>1. s.at \in Nat /\ After[s.at] \in Nat
    BY SeatFacts
  <2> QED
    BY <1>1, <2>1 DEF Within, Waits
<1>3. ~Within(s, r)
  BY DEF Within
<1>4. /\ After[a] # 0 /\ Enters(a, s.at) /\ s.at \in 1 .. Len(cmd_list) /\ r.at \in 1 .. Len(cmd_list) /\ After[s.at] # 0
      /\ Enters(a, r.at)
  BY DEF Seated, Enters
<1>5. a + 2 <= After[a + 1] /\ After[a + 1] \in Nat
  BY SeatFacts DEF Waits
<1>6. Late(r, s)
  <2> SUFFICES ASSUME NEW i \in 1 .. Len(cmd_list), cmd_list[i] = "if", InThen(i, r.at), InCond(i, s.at) PROVE FALSE
    BY DEF Late
  <2>1. a = i /\ r.at = After[i + 1] + 1
    BY <1>4, EntersTwice
  <2> QED
    BY <1>1, <1>5, <2>1
<1>7. Late(s, r)
  <2> SUFFICES ASSUME NEW i \in 1 .. Len(cmd_list), cmd_list[i] = "if", InThen(i, s.at), InCond(i, r.at) PROVE FALSE
    BY DEF Late
  <2>1. a = i /\ s.at = After[i + 1] + 1
    BY <1>4, EntersTwice
  <2> QED
    BY <1>1, <1>5, <2>1
<1> QED
  BY <1>2, <1>3, <1>6, <1>7 DEF Peace, Apart, CanWrite

LEMMA PeaceStays ==
  ASSUME NEW x, NEW y, NEW d, NEW e, Grows(d, e), Seated(x, d), Seated(y, d), Peace(x, y, d), Peace(y, x, d)
  PROVE  Peace(x, y, e) /\ Seated(x, e)
<1>1. StaysPut(x, x, d, e)
  BY DEF StaysPut
<1>2. Peace(x, y, e)
  BY <1>1, StayingIsPeace
<1> QED
  BY <1>2 DEF Seated, Grows

\* One process changes and lives in peace with the others as they are.
Welcome(p, r, e) == /\ Seated(r, e)
                    /\ \A q \in DOMAIN procs : q # p => Peace(r, procs[q], e) /\ Peace(procs[q], r, e)

LEMMA SeatedStays ==
  ASSUME NEW x, NEW d, NEW e, Grows(d, e), Seated(x, d)
  PROVE  Seated(x, e)
BY DEF Seated, Grows

LEMMA OneChanges ==
  ASSUME Orderly(procs, data), NEW p \in DOMAIN procs, NEW r, NEW e, Grows(data, e), Welcome(p, r, e),
         NEW ps, ps = [procs EXCEPT ![p] = r]
  PROVE  Orderly(ps, e)
<1>1. DOMAIN ps = DOMAIN procs /\ \A q \in DOMAIN procs : ps[q] = IF q = p THEN r ELSE procs[q]
  OBVIOUS
<1>2. ASSUME NEW q \in DOMAIN ps PROVE Seated(ps[q], e)
  <2>1. q # p => Seated(procs[q], e)
    BY <1>1, SeatedStays DEF Orderly, AllSeated
  <2> QED
    BY <1>1, <2>1 DEF Welcome
<1>3. ASSUME NEW q \in DOMAIN ps, NEW o \in DOMAIN ps, q # o PROVE Peace(ps[q], ps[o], e)
  <2>1. CASE q = p \/ o = p
    BY <1>1, <1>3, <2>1 DEF Welcome
  <2>2. CASE q # p /\ o # p
    <3>1. /\ Seated(procs[q], data) /\ Seated(procs[o], data)
          /\ Peace(procs[q], procs[o], data) /\ Peace(procs[o], procs[q], data)
      BY <1>1, <1>3 DEF Orderly, AllSeated, AllPeace
    <3>2. Peace(procs[q], procs[o], e)
      BY <3>1, PeaceStays
    <3> QED
      BY <1>1, <2>2, <3>2
  <2> QED
    BY <2>1, <2>2
<1> QED
  BY <1>2, <1>3 DEF Orderly, AllSeated, AllPeace

LEMMA OneForks ==
  ASSUME ExecInv, Orderly(procs, data), NEW p \in DOMAIN procs, NEW r, NEW s, NEW e, Grows(data, e),
         Welcome(p, r, e), Welcome(p, s, e), Peace(r, s, e), Peace(s, r, e),
         NEW ps, ps = Append([procs EXCEPT ![p] = r], s)
  PROVE  Orderly(ps, e)
<1> DEFINE n == Len(procs)
<1>1. /\ DOMAIN ps = 1 .. n + 1 /\ n \in Nat /\ DOMAIN procs = 1 .. n
      /\ \A q \in DOMAIN procs : ps[q] = IF q = p THEN r ELSE procs[q]
      /\ ps[n + 1] = s
  BY ForkFacts
<1> DEFINE os == [procs EXCEPT ![p] = r]
<1>2. Orderly(os, e)
  BY OneChanges
<1>3. DOMAIN os = DOMAIN procs /\ \A q \in DOMAIN procs : os[q] = ps[q]
  BY <1>1
<1> HIDE DEF os, n
<1>4. \A q \in DOMAIN procs : Seated(ps[q], e)
  BY <1>2, <1>3 DEF Orderly, AllSeated
<1>5. \A q, o \in DOMAIN procs : q # o => Peace(ps[q], ps[o], e)
  BY <1>2, <1>3 DEF Orderly, AllPeace
<1>6. \A q \in DOMAIN procs : Peace(ps[q], s, e) /\ Peace(s, ps[q], e)
  BY <1>1 DEF Welcome
<1>7. \A q \in DOMAIN ps : q \in DOMAIN procs \/ q = n + 1
  BY <1>1
<1>8. Seated(s, e)
  BY DEF Welcome
<1>9. AllSeated(ps, e)
  BY <1>1, <1>4, <1>7, <1>8 DEF AllSeated
<1>10. AllPeace(ps, e)
  BY <1>1, <1>5, <1>6, <1>7 DEF AllPeace
<1> QED
  BY <1>9, <1>10 DEF Orderly

LEMMA StayingIsOrderly ==
  ASSUME Orderly(procs, data), NEW p \in DOMAIN procs, NEW r, NEW e, Grows(data, e), StaysPut(procs[p], r, data, e),
         NEW ps, ps = [procs EXCEPT ![p] = r]
  PROVE  Orderly(ps, e)
<1>1. \A q \in DOMAIN procs : Seated(procs[q], data)
  BY DEF Orderly, AllSeated
<1>2. Seated(r, e)
  BY <1>1 DEF Seated, StaysPut, Grows
<1>3. ASSUME NEW q \in DOMAIN procs, q # p PROVE Peace(r, procs[q], e) /\ Peace(procs[q], r, e)
  <2>1. Peace(procs[p], procs[q], data) /\ Peace(procs[q], procs[p], data)
    BY <1>3 DEF Orderly, AllPeace
  <2> QED
    BY <1>1, <2>1, StayingIsPeace
<1>4. Welcome(p, r, e)
  BY <1>2, <1>3 DEF Welcome
<1> QED
  BY <1>4, OneChanges

\* Who changes its pc only, and not into one that can do more.
LEMMA PcIsOrderly ==
  ASSUME ExecInv, Orderly(procs, data), NEW p \in DOMAIN procs, NEW v, procs' = [procs EXCEPT ![p].pc = v], data' = data,
         v \in {"read", "single", "return", "program", "ended", "returned"}, procs[p].pc \notin Over,
         v = "read" <=> procs[p].pc = "wait", procs[p].pc # "read"
  PROVE  Orderly(procs', data')
<1> DEFINE r == [procs[p] EXCEPT !.pc = v]
<1>1. procs[p] \in Processes
  BY InvFacts
<1>2. r.pc = v /\ r.at = procs[p].at /\ r.conds = procs[p].conds /\ r.mb = procs[p].mb
  BY <1>1 DEF Processes
<1>3. procs' = [procs EXCEPT ![p] = r]
  OBVIOUS
<1> HIDE DEF r
<1>4. Grows(data, data')
  BY DEF Grows
<1>5. Waits(procs[p]) <=> Waits(r)
  BY <1>2 DEF Waits
<1>6. Active(r) => Active(procs[p])
  BY <1>2 DEF Active
<1>7. StaysPut(procs[p], r, data, data')
  BY <1>2, <1>5, <1>6 DEF StaysPut, Holds
<1> QED
  BY <1>3, <1>4, <1>7, StayingIsOrderly

LEMMA ReturnIsOrderly ==
  ASSUME ExecInv, Orderly(procs, data), NEW p \in DOMAIN procs, Return(p)
  PROVE  Orderly(procs', data')
<1> DEFINE c == procs[p].conds
<1>1. procs[p].pc = "return"
  BY DEF Return
<1>2. CASE procs' = [procs EXCEPT ![p].pc = "returned"] /\ UNCHANGED data
  BY <1>1, <1>2, PcIsOrderly DEF Over
<1>3. CASE c # <<>> /\ data' = [data EXCEPT ![Last(c)] = TRUE] /\ procs' = [procs EXCEPT ![p].conds = Front(c)]
  <2> DEFINE f == Front(c)
             r == [procs[p] EXCEPT !.conds = f]
             w == Last(c)
  <2>1. procs[p] \in Processes /\ c \in Seq(Nat)
    BY InvFacts DEF Processes
  <2>2. r.pc = procs[p].pc /\ r.at = procs[p].at /\ r.conds = f /\ r.mb = procs[p].mb
    BY <2>1 DEF Processes
  <2>3. procs' = [procs EXCEPT ![p] = r]
    BY <1>3
  <2>4. /\ Len(c) \in Nat \ {0} /\ w = c[Len(c)] /\ Len(f) = Len(c) - 1 /\ f \in Seq(Nat)
        /\ \A k \in 1 .. Len(c) - 1 : f[k] = c[k]
    BY <1>3, <2>1, StackFacts
  <2>5. DOMAIN c = 1 .. Len(c) /\ DOMAIN f = 1 .. Len(c) - 1
    BY <2>1, <2>4
  <2> HIDE DEF r, f, w, c
  <2>6. w \in DOMAIN data
    <3>1. Len(c) \in DOMAIN c
      BY <2>4, <2>5
    <3> QED
      BY <2>4, <3>1 DEF ExecInv, ProcsInv, c
  <2>7. /\ data' = [data EXCEPT ![w] = TRUE]
        /\ Grows(data, data') /\ data'[w]
    BY <1>3, <2>6 DEF Grows, w
  <2>8. ASSUME NEW m \in DOMAIN data, Holds(procs[p], m) PROVE Holds(r, m) \/ data'[m]
    <3>1. PICK k \in DOMAIN c : c[k] = m
      BY <2>8 DEF Holds, c
    <3>2. CASE k = Len(c)
      BY <2>4, <2>7, <3>1, <3>2
    <3>3. CASE k # Len(c)
      <4>1. k \in DOMAIN f /\ f[k] = m
        BY <2>4, <2>5, <3>1, <3>3
      <4> QED
        BY <2>2, <4>1 DEF Holds
    <3> QED
      BY <3>2, <3>3
  <2>9. StaysPut(procs[p], r, data, data')
    BY <2>2, <2>8 DEF StaysPut, Active, Waits
  <2> QED
    BY <2>3, <2>7, <2>9, StayingIsOrderly
<1> QED
  BY <1>2, <1>3 DEF Return

LEMMA PipeIsOrderly ==
  ASSUME ExecInv, Whole, Orderly(procs, data), NEW p \in DOMAIN procs, ExecutePipe(p)
  PROVE  Orderly(procs', data')
<1> DEFINE i == procs[p].at
           b == i + 2
           r == [procs[p] EXCEPT !.at = b]
           s == Process(i, "single", procs[p].conds)
<1>1. procs[p].pc = "execute" /\ Piped(p) /\ data' = data /\ procs' = Append([procs EXCEPT ![p] = r], s)
  BY DEF ExecutePipe
<1>2. \A q \in DOMAIN procs : Seated(procs[q], data)
  BY DEF Orderly, AllSeated
<1>3. procs[p] \in Processes /\ i \in 1 .. Len(cmd_list) /\ i \in Nat /\ After[i] # 0
  BY <1>2, InvFacts DEF Seated, Processes
<1>4. cmd_list[i] # "if" /\ b \in 1 .. Len(cmd_list) /\ After[b] = After[i] /\ cmd_list[i + 1] = "|"
  BY <1>1, <1>3, ShapeOfCommand
<1>5. /\ r.pc = "execute" /\ r.at = b /\ r.conds = procs[p].conds
      /\ s.pc = "single" /\ s.at = i /\ s.conds = procs[p].conds
  BY <1>1, <1>3 DEF Processes, Process
<1>6. Enters(i, b) /\ Enters(i, i)
  BY <1>4 DEF Enters
<1> HIDE DEF r, s
<1>7. ~Waits(r) /\ ~Waits(s) /\ ~Waits(procs[p]) /\ Active(procs[p])
  BY <1>1, <1>5 DEF Waits, Active
<1>8. Seated(r, data) /\ Seated(s, data) /\ Grows(data, data)
  BY <1>3, <1>4, <1>5, <1>7 DEF Seated, Grows
<1>9. ASSUME NEW q \in DOMAIN procs, q # p, NEW o \in {r, s}
      PROVE  Peace(o, procs[q], data) /\ Peace(procs[q], o, data)
  <2>1. Peace(procs[p], procs[q], data) /\ Peace(procs[q], procs[p], data)
    BY <1>9 DEF Orderly, AllPeace
  <2>2. GoesInto(procs[p], o, procs[q], data, data)
    BY <1>4, <1>5, <1>6, <1>7 DEF GoesInto, Holds
  <2> QED
    BY <1>2, <1>8, <2>1, <2>2, GoingIntoIsPeace
<1>10. Welcome(p, r, data) /\ Welcome(p, s, data)
  BY <1>8, <1>9 DEF Welcome
<1>11. Peace(r, s, data) /\ Peace(s, r, data)
  <2>1. r.at = i + 2 /\ Enters(i, r.at)
    BY <1>5, <1>6
  <2> QED
    BY <1>3, <1>4, <1>5, <1>7, <1>8, <2>1, TwoPiped
<1> QED
  BY <1>1, <1>8, <1>10, <1>11, OneForks

LEMMA IfIsOrderly ==
  ASSUME ExecInv, Whole, Orderly(procs, data), NEW p \in DOMAIN procs, ExecuteIf(p)
  PROVE  Orderly(procs', data')
<1> DEFINE i == procs[p].at
           n == Len(procs) + 1
           m == Len(data) + 1
           b == i + 1
           r == Waiting(procs[p], n, m)
           k == Append(procs[p].conds, m)
           s == Process(b, "execute", k)
<1>1. \A q \in DOMAIN procs : Seated(procs[q], data)
  BY DEF Orderly, AllSeated
<1>2. /\ procs[p] \in Processes /\ procs[p].conds \in Seq(Nat)
      /\ i \in 1 .. Len(cmd_list) /\ i \in Nat /\ After[i] # 0 /\ Len(data) \in Nat /\ DOMAIN data = 1 .. Len(data)
      /\ data \in Seq(BOOLEAN) /\ Len(procs) \in Nat /\ DOMAIN procs = 1 .. Len(procs)
  BY <1>1, InvFacts DEF Seated, Processes, ExecInv, ProcsInv
<1>3. procs[p].pc = "execute" /\ Nested(p) /\ data' = Append(data, FALSE)
  BY DEF ExecuteIf
<1>4. /\ DOMAIN data' = 1 .. m /\ Len(data') = m /\ m \in DOMAIN data' /\ Grows(data, data')
  <2>1. DOMAIN data' = 1 .. m /\ Len(data') = m /\ \A x \in DOMAIN data : data'[x] = data[x]
    BY <1>2, <1>3
  <2> QED
    BY <1>2, <2>1 DEF Grows
<1>5. procs' = Append([procs EXCEPT ![p] = r], s)
  <2>1. procs' = Append([procs EXCEPT ![p].pc = "wait", ![p].child = Len(procs) + 1, ![p].mb = Len(data')],
                        Process(procs[p].at + 1, "execute", Append(procs[p].conds, Len(data'))))
    BY DEF ExecuteIf
  <2> HIDE DEF m, n
  <2>2. procs' = Append([procs EXCEPT ![p].pc = "wait", ![p].child = n, ![p].mb = m], s)
    BY <1>4, <2>1 DEF n
  <2>3. [procs EXCEPT ![p].pc = "wait", ![p].child = n, ![p].mb = m]
          = [procs EXCEPT ![p] = [procs[p] EXCEPT !.pc = "wait", !.child = n, !.mb = m]]
    OBVIOUS
  <2> QED
    BY <2>2, <2>3 DEF Waiting
<1>6. /\ r.pc = "wait" /\ r.at = i /\ r.conds = procs[p].conds /\ r.mb = m
      /\ s.pc = "execute" /\ s.at = b /\ s.conds = k
  <2> HIDE DEF n, m, k, b
  <2> QED BY <1>2 DEF Waiting, Process, Processes
<1>7. /\ Holds(s, m) /\ \A x \in DOMAIN data : Holds(procs[p], x) => Holds(s, x)
  <2> DEFINE c == procs[p].conds
  <2>1. c \in Seq(Nat) /\ m \in Nat /\ k = Append(c, m)
    BY <1>2
  <2> HIDE DEF c, m, k
  <2>2. k \in Seq(Nat) /\ Len(k) = Len(c) + 1 /\ Len(c) \in Nat /\ DOMAIN c = 1 .. Len(c)
    BY <2>1
  <2>3. k[Len(k)] = m /\ \A x \in DOMAIN c : k[x] = c[x]
    BY <2>1, <2>2
  <2>4. DOMAIN k = 1 .. Len(k)
    BY <2>2
  <2>5. Len(k) \in DOMAIN k /\ DOMAIN c \subseteq DOMAIN k
    BY <2>2, <2>4
  <2> QED
    BY <1>6, <2>3, <2>5 DEF Holds, c
<1>8. cmd_list[i] = "if"
  BY <1>2, <1>3, ShapeOfCommand
<1>9. b \in 1 .. Len(cmd_list) /\ After[b] # 0
  <2>1. b \in i + 1 .. Len(cmd_list) /\ After[b] # 0
    BY <1>2, <1>8, ArmsAre
  <2>2. Len(cmd_list) \in Nat
    BY DEF Whole
  <2> HIDE DEF b
  <2> QED
    BY <1>2, <2>1, <2>2
<1>10. Enters(i, b)
  BY <1>8 DEF Enters
<1>11. b # After[i + 1] + 1
  <2>1. After[i + 1] \in i + 2 .. Len(cmd_list) /\ Len(cmd_list) \in Nat
    BY <1>2, <1>8, ArmsAre DEF Whole
  <2> QED
    BY <1>2, <2>1
<1> HIDE DEF r, s, k, n, m, b
<1>12. ~Waits(s) /\ ~Waits(procs[p]) /\ Active(procs[p])
  BY <1>3, <1>6 DEF Waits, Active
<1>13. Seated(r, data') /\ Seated(s, data')
  BY <1>2, <1>4, <1>6, <1>8, <1>9, <1>12 DEF Seated
<1>14. ASSUME NEW q \in DOMAIN procs, q # p
       PROVE  /\ Peace(r, procs[q], data') /\ Peace(procs[q], r, data')
              /\ Peace(s, procs[q], data') /\ Peace(procs[q], s, data')
  <2>1. Peace(procs[p], procs[q], data) /\ Peace(procs[q], procs[p], data)
    BY <1>14 DEF Orderly, AllPeace
  <2>2. GoesInto(procs[p], s, procs[q], data, data')
    BY <1>6, <1>7, <1>10, <1>11, <1>12 DEF GoesInto
  <2>3. Peace(s, procs[q], data') /\ Peace(procs[q], s, data')
    BY <1>1, <1>4, <1>13, <2>1, <2>2, GoingIntoIsPeace
  <2>4. Peace(r, procs[q], data') /\ Peace(procs[q], r, data')
    BY <1>1, <1>3, <1>4, <1>6, <1>13, <2>1, WaitingIsPeace
  <2> QED
    BY <2>3, <2>4
<1>15. Welcome(p, r, data') /\ Welcome(p, s, data')
  BY <1>13, <1>14 DEF Welcome
<1>16. Peace(r, s, data') /\ Peace(s, r, data')
  <2>1. r.at = i /\ s.at = i + 1 /\ Holds(s, r.mb)
    BY <1>6, <1>7 DEF b
  <2> HIDE DEF i
  <2> QED
    BY <1>2, <1>6, <1>8, <1>12, <1>13, <2>1, TwoOfIf
<1> QED
  BY <1>4, <1>5, <1>15, <1>16, OneForks

\* Who goes into the then branch has read nothing when nobody could write any more.
LEMMA ReadIsOrderly ==
  ASSUME ExecInv, Whole, Orderly(procs, data), NEW p \in DOMAIN procs, Read(p)
  PROVE  Orderly(procs', data')
<1> DEFINE i == procs[p].at
           b == Branch(p) + 1
           r == Gone(procs[p], "execute", b)
<1>1. /\ procs[p].pc = "read" /\ data' = data /\ (data[procs[p].mb] \/ ~Open(procs[p].mb))
      /\ Branch(p) < Len(cmd_list) => procs' = [procs EXCEPT ![p].pc = "execute", ![p].at = b]
  BY DEF Read
<1>2. \A q \in DOMAIN procs : Seated(procs[q], data)
  BY DEF Orderly, AllSeated
<1>3. /\ procs[p] \in Processes /\ i \in 1 .. Len(cmd_list) /\ i \in Nat /\ After[i] # 0
  BY <1>2, InvFacts DEF Seated, Processes
<1>4. cmd_list[i] = "if" /\ procs[p].mb \in DOMAIN data
  BY <1>1 DEF ExecInv, WaitInv, Token
<1>5. then_locn(i) = After[i + 1] /\ else_locn(i) = After[After[i + 1] + 1]
  BY <1>3, <1>4, FoundAsMeant
<1>6. b = IF data[procs[p].mb] THEN After[After[i + 1] + 1] + 1 ELSE After[i + 1] + 1
  BY <1>5 DEF Branch
<1>7. /\ i + 2 <= After[i + 1] /\ After[i + 1] + 2 <= After[After[i + 1] + 1]
      /\ After[i + 1] \in Nat /\ After[After[i + 1] + 1] \in Nat
  <2>1. PICK j, k, m \in Nat :
          /\ j = After[i + 1] /\ k = After[j + 1] /\ m = After[k + 1] /\ After[i] = m + 1
          /\ i \in Nat /\ i + 2 <= j /\ j + 2 <= k /\ k + 2 <= m
          /\ cmd_list[j] = "then" /\ cmd_list[k] = "else" /\ cmd_list[m] = "fi"
          /\ {i + 1, j + 1, k + 1, j, k, m} \subseteq i + 1 .. Len(cmd_list)
          /\ \A o \in {j, k, m} : o # 0 /\ o \in 1 .. Len(cmd_list) /\ At(cmd_list, o) \notin {"|", ">"}
    BY <1>3, <1>4, PartsAre
  <2> QED
    BY <2>1
<1>8. Len(cmd_list) \in Nat
  BY DEF Whole
<1>9. b \in 1 .. Len(cmd_list) /\ After[b] # 0
  <2>1. b \in {After[i + 1] + 1, After[After[i + 1] + 1] + 1}
    BY <1>6
  <2>2. b \in i + 1 .. Len(cmd_list) /\ After[b] # 0
    BY <1>3, <1>4, <2>1, ArmsAre
  <2> HIDE DEF b
  <2> QED
    BY <1>3, <1>8, <2>2
<1>10. r.pc = "execute" /\ r.at = b /\ r.conds = procs[p].conds
  BY <1>3, GoneIs
<1>11. procs' = [procs EXCEPT ![p] = r]
  <2>1. Branch(p) \in Nat
    BY <1>4, BranchTyped
  <2>2. Branch(p) + 1 <= Len(cmd_list)
    BY <1>9
  <2>3. Branch(p) < Len(cmd_list)
    BY <1>8, <2>1, <2>2
  <2> QED
    BY <1>1, <2>3 DEF Gone
<1>12. Enters(i, b)
  <2>1. b \in {After[i + 1] + 1, After[After[i + 1] + 1] + 1}
    BY <1>6
  <2> HIDE DEF b, i
  <2> QED
    BY <1>4, <2>1 DEF Enters
<1>13. b # i + 1 /\ After[i + 1] < b
  <2> DEFINE u == After[i + 1]
             v == After[u + 1]
  <2>1. b = v + 1 \/ b = u + 1
    BY <1>6
  <2>2. i + 2 <= u /\ u + 2 <= v /\ u \in Nat /\ v \in Nat
    BY <1>7
  <2> HIDE DEF u, v, b
  <2>3. b # i + 1 /\ u < b
    BY <1>3, <2>1, <2>2
  <2> QED
    BY <2>3 DEF u
<1>14. b = After[i + 1] + 1 => ~data[procs[p].mb] /\ ~Open(procs[p].mb)
  <2> DEFINE u == After[i + 1]
             v == After[u + 1]
  <2>1. data[procs[p].mb] => b = v + 1
    BY <1>6
  <2>2. u + 2 <= v /\ u \in Nat /\ v \in Nat
    BY <1>7
  <2> HIDE DEF u, v, b
  <2>3. b = u + 1 => ~data[procs[p].mb]
    BY <2>1, <2>2
  <2> QED
    BY <1>1, <2>3 DEF u
<1> HIDE DEF r, b
<1>15. ~Waits(r) /\ Active(procs[p])
  BY <1>1, <1>10 DEF Waits, Active
<1>16. Seated(r, data) /\ Grows(data, data)
  BY <1>9, <1>10, <1>15 DEF Seated, Grows
<1>17. ASSUME NEW q \in DOMAIN procs, q # p
       PROVE  Peace(r, procs[q], data) /\ Peace(procs[q], r, data)
  <2>1. Peace(procs[p], procs[q], data) /\ Peace(procs[q], procs[p], data)
    BY <1>17 DEF Orderly, AllPeace
  <2>2. ASSUME r.at = After[i + 1] + 1, Within(procs[p], procs[q]) PROVE procs[q].pc \in Over
    <3>1. ~data[procs[p].mb] /\ ~Open(procs[p].mb)
      BY <1>10, <1>14, <2>2
    <3>2. procs[q].pc \in Over \/ Holds(procs[q], procs[p].mb)
      BY <2>1, <2>2, <3>1 DEF Peace, CanWrite
    <3>3. Holds(procs[q], procs[p].mb) => procs[p].mb \in ToSet(procs[q].conds)
      BY DEF Holds, ToSet
    <3> QED
      BY <3>1, <3>2, <3>3 DEF Open
  <2>3. GoesInto(procs[p], r, procs[q], data, data)
    BY <1>10, <1>12, <1>13, <1>15, <2>2 DEF GoesInto, Holds
  <2> QED
    BY <1>2, <1>16, <2>1, <2>3, GoingIntoIsPeace
<1>18. Welcome(p, r, data)
  BY <1>16, <1>17 DEF Welcome
<1> QED
  BY <1>1, <1>11, <1>16, <1>18, OneChanges

LEMMA StepIsOrderly ==
  ASSUME ExecInv, Whole, Orderly(procs, data), NEW p \in DOMAIN procs, Step(p) \/ Fails(p)
  PROVE  Orderly(procs', data')
<1>1. Seated(procs[p], data)
  BY DEF Orderly, AllSeated
<1>2. CASE ExecutePipe(p)
  BY <1>2, PipeIsOrderly
<1>3. CASE ExecuteRedirect(p)
  <2> DEFINE v == IF procs[p].at + 2 \in exists THEN "single" ELSE "return"
  <2>1. procs[p].pc = "execute" /\ procs' = [procs EXCEPT ![p].pc = v] /\ data' = data
    BY <1>3 DEF ExecuteRedirect
  <2>2. v \in {"single", "return"}
    OBVIOUS
  <2> HIDE DEF v
  <2> QED
    BY <2>1, <2>2, PcIsOrderly DEF Over
<1>4. CASE ExecuteIf(p)
  BY <1>4, IfIsOrderly
<1>5. CASE ExecuteSingle(p)
  <2>1. /\ procs[p].pc \in {"single", "execute"} /\ data' = data
        /\ \E v \in {"program", "return", "returned"} : procs' = [procs EXCEPT ![p].pc = v]
    BY <1>5 DEF ExecuteSingle
  <2>2. PICK v \in {"program", "return", "returned"} : procs' = [procs EXCEPT ![p].pc = v]
    BY <2>1
  <2> QED
    BY <2>1, <2>2, PcIsOrderly DEF Over
<1>6. CASE Return(p)
  BY <1>6, ReturnIsOrderly
<1>7. CASE Ends(p)
  BY <1>7, PcIsOrderly DEF Ends, Over
<1>8. CASE Wait(p)
  BY <1>8, PcIsOrderly DEF Wait, Over
<1>9. CASE Read(p)
  BY <1>9, ReadIsOrderly
<1>10. CASE Fails(p)
  BY <1>10, PcIsOrderly DEF Fails, Over
<1> QED
  BY <1>2, <1>3, <1>4, <1>5, <1>6, <1>7, <1>8, <1>9, <1>10 DEF Step

\* The processes of a line that means something are in nobody's way.
IsOrderly == Sentence => Orderly(procs, data)
StartsOrderly == ExecInv /\ Sentence /\ procs = <<Process(1, "execute", <<>>)>> => Orderly(procs, data)

LEMMA TheFirstIsOrderly == StartsOrderly
<1> SUFFICES ASSUME ExecInv, Sentence, procs = <<Process(1, "execute", <<>>)>> PROVE Orderly(procs, data)
  BY DEF StartsOrderly
<1>1. After[1] # 0 /\ 1 \in 1 .. Len(cmd_list)
  BY SentenceIsWhole
<1>2. DOMAIN procs = {1} /\ procs[1].at = 1 /\ procs[1].pc = "execute"
  BY DEF Process
<1>3. AllSeated(procs, data)
  BY <1>1, <1>2 DEF AllSeated, Seated, Waits
<1>4. AllPeace(procs, data)
  BY <1>2 DEF AllPeace
<1> QED
  BY <1>3, <1>4 DEF Orderly

LEMMA OrderlyStays ==
  ASSUME cmd_list' = cmd_list, exists' = exists
  PROVE  /\ Sentence' <=> Sentence
         /\ Orderly(procs, data)' <=> Orderly(procs', data')
<1>1. After' = After
  BY MeaningStays
<1>2. Sentence' <=> Sentence
  BY <1>1 DEF Sentence
<1>3. AllSeated(procs, data)' <=> AllSeated(procs', data')
  BY <1>1 DEF AllSeated, Seated, Waits
<1>4. AllPeace(procs, data)' <=> AllPeace(procs', data')
  BY <1>1 DEF AllPeace, Peace, Apart, Before, Within, CanWrite, Late, InCond, InThen, Active, Waits, Holds
<1> QED
  BY <1>2, <1>3, <1>4 DEF Orderly

LEMMA OrderlyStep ==
  ASSUME ExecInv, ExecInv', StartsOrderly', IsOrderly, [Next]_vars
  PROVE  IsOrderly'
<1> SUFFICES ASSUME Sentence' PROVE Orderly(procs, data)'
  BY DEF IsOrderly
<1>1. CASE Parse \/ Refuse \/ NotFound \/ BuiltIn
  <2>1. procs' = procs /\ status \in {"typed", "parsed", "set"}
    BY <1>1 DEF Parse, Refuse, NotFound, BuiltIn
  <2>2. procs = <<>>
    BY <2>1 DEF ExecInv, LineInv
  <2>3. DOMAIN procs' = {}
    BY <2>1, <2>2
  <2> QED
    BY <2>3 DEF Orderly, AllSeated, AllPeace
<1>2. CASE Accept
  <2>1. procs' = <<Process(1, "execute", <<>>)>>
    BY <1>2 DEF Accept
  <2> QED
    BY <2>1 DEF StartsOrderly, Process
<1>3. ASSUME NEW p \in DOMAIN procs, Step(p) \/ Fails(p) PROVE Orderly(procs, data)'
  <2>1. UNCHANGED line
    BY <1>3 DEF Step, Fails, ExecutePipe, ExecuteRedirect, ExecuteIf, ExecuteSingle, Return, Ends, Wait, Read
  <2>2. Sentence /\ (Orderly(procs, data)' <=> Orderly(procs', data'))
    BY <2>1, OrderlyStays DEF line
  <2>3. Orderly(procs, data) /\ Whole
    BY <2>2, SentenceIsWhole DEF IsOrderly
  <2> QED
    BY <1>3, <2>2, <2>3, StepIsOrderly
<1>4. CASE UNCHANGED vars
  <2>1. UNCHANGED <<cmd_list, exists, procs, data>>
    BY <1>4 DEF vars, line
  <2>2. Sentence /\ (Orderly(procs, data)' <=> Orderly(procs', data'))
    BY <2>1, OrderlyStays
  <2> QED
    BY <2>1, <2>2 DEF IsOrderly
<1> QED
  BY <1>1, <1>2, <1>3, <1>4 DEF Next

\* When a then branch is entered, and as long as anybody is in it, nobody is left in the
\* condition (exe.c:255-280), however deep the if is, whatever fails and whoever is slow:
\* who waits reads until the last one that was started in its condition is over.
THEOREM ConditionsAreOver == Spec => []ThenAfterCondition
<1>1. Init => IsOrderly
  BY DEF Init, IsOrderly, Orderly, AllSeated, AllPeace
<1>2. StartsOrderly
  BY TheFirstIsOrderly
<1>3. ExecInv /\ ExecInv' /\ StartsOrderly' /\ IsOrderly /\ [Next]_vars => IsOrderly'
  BY OrderlyStep
<1>4. ExecInv /\ IsOrderly => ThenAfterCondition
  <2> SUFFICES ASSUME ExecInv, IsOrderly, NEW p \in DOMAIN procs, NEW q \in DOMAIN procs, NEW i \in 1 .. procs[p].at,
                      cmd_list[i] = "if", procs[q].pc \notin Over, Sentence,
                      procs[p].at \in then_locn(i) + 1 .. else_locn(i) - 1, procs[q].at \in i + 1 .. then_locn(i) - 1
               PROVE  FALSE
    BY DEF ThenAfterCondition
  <2>1. Whole /\ Orderly(procs, data) /\ Len(cmd_list) \in Nat
    BY SentenceIsWhole, InvFacts DEF IsOrderly
  <2>2. procs[p].at \in 1 .. Len(cmd_list)
    BY <2>1 DEF Orderly, AllSeated, Seated
  <2>3. i \in 1 .. Len(cmd_list)
    BY <2>1, <2>2
  <2>4. After[i] # 0
    BY <2>1, <2>3 DEF Whole
  <2>5. then_locn(i) = After[i + 1] /\ else_locn(i) = After[After[i + 1] + 1]
    BY <2>3, <2>4, FoundAsMeant
  <2>6. InThen(i, procs[p].at) /\ InCond(i, procs[q].at)
    BY <2>5 DEF InThen, InCond
  <2>7. p # q
    <3>1. After[i + 1] \in i + 2 .. Len(cmd_list)
      BY <2>1, <2>3, ArmsAre
    <3>2. After[i + 1] \in Nat
      BY <2>1, <2>3, <3>1
    <3> QED
      BY <2>6, <3>2 DEF InThen, InCond
  <2>8. Late(procs[p], procs[q])
    BY <2>1, <2>7 DEF Orderly, AllPeace, Peace
  <2> QED
    BY <2>3, <2>6, <2>8 DEF Late
<1> QED
  BY <1>1, <1>2, <1>3, <1>4, ExecInvHolds, PTL DEF Spec

-----------------------------------------------------------------------------
(* An alias is spelled out.  The text as it is typed and the text with its *)
(* aliases spelled out are scanned side by side, piece by piece: a piece   *)
(* that stays takes both scans the same way (SameCourse), a value is kept  *)
(* whole where its name is kept (ValueKept).  After each piece the two     *)
(* states have the same flags, the tokens of one mean those of the other,  *)
(* and the token that is being filled is the same or has its alias spelled *)
(* out (Alike).                                                            *)

AliasesOK == alias_s \in Aliases /\ AliasesAreWords

\* The pieces of a text with its aliases spelled out, and those of its first n pieces.
SpelledAt(t, i) == IF Stands(t, i) THEN alias_s[t[i]] ELSE <<t[i]>>
SpelledTo(t, n) == FlattenSeq([i \in 1 .. n |-> SpelledAt(t, i)])

\* The first word of what is being filled is an alias, so far or for good.
Named(p, j) == /\ j \in 1 .. Len(p) /\ \A i \in 1 .. j - 1 : p[i] = Blank
               /\ p[j] \in DOMAIN alias_s
Alone(p, j) == Named(p, j) /\ (j < Len(p) => p[j + 1] = Blank)
MayBe(p, j) == Named(p, j) /\ (j < Len(p) => p[j + 1] \in {Blank, "if"})
SpeltOut(p, j) == Replaced(p, j, alias_s[p[j]])

\* What the tokens mean.
Meant(toks) == [k \in DOMAIN toks |-> IF IsFile(toks, k) THEN toks[k] ELSE Substituted(toks[k])]

\* An alias that may still go on; what of the first scan the second has to have, the token as
\* it is or with its alias spelled out.
MayGrow(t, n, s) == /\ s.q_st = FALSE /\ Named(s.param, Len(s.param)) /\ n > 0 /\ t[n] = s.param[Len(s.param)]
                   /\ At(t, n + 1) \notin Breaks
OpenSame(t, n, s) == AfterFile(s) \/ MayGrow(t, n, s) \/ \A j \in 1 .. Len(s.param) : ~ MayBe(s.param, j)
OpenSpelt(t, n, s, j) == /\ ~ AfterFile(s) /\ Alone(s.param, j)
                         /\ j = Len(s.param) => s.q_st = FALSE /\ At(t, n + 1) \in Breaks
Alike(t, n, s, u) == /\ SameFlags(s, u) /\ NoHit(u.param) /\ Cleaned(u.toks) = Meant(Cleaned(s.toks))
                     /\ \/ u.param = s.param /\ OpenSame(t, n, s)
                        \/ \E j \in 1 .. Len(s.param) : OpenSpelt(t, n, s, j) /\ u.param = SpeltOut(s.param, j)

-----------------------------------------------------------------------------
(* The value of an alias is scanned without being cut.                     *)

\* What a word of a value is not.
LEMMA NotSpecial ==
  ASSUME NEW c, c \notin Special
  PROVE  c # Quote /\ c \notin Operators /\ c \notin Keywords /\ c # "alias" /\ c # "set" /\ c # "cd" /\ c # "=" /\ c # "fi" /\ c # "if"
BY DEF Special, Keywords

\* Such a word goes to the token that is being filled.
LEMMA WordKept ==
  ASSUME NEW s \in ScanStates, NEW c \in Words, c \notin Special, s.q_st = FALSE, NoHit(s.param),
         c = Blank => s.space_encountered = FALSE /\ s.param # <<>> /\ Last(s.param) \notin Keywords
  PROVE  PieceKept(s, c, Scan(s, c))
<1> DEFINE r == Scan(s, c)
           p == s.param
<1>1. c # Quote /\ c \notin Operators /\ c # "fi"
  BY NotSpecial
<1>2. p \in Texts
  BY DEF ScanStates
<1>3. \A k \in 1 .. 4 : ~ EndsWith(Append(p, c), Pattern[k])
  <2> HIDE DEF p
  <2>1. c # Blank \/ p = <<>> \/ Last(p) \notin Keywords
    BY DEF p
  <2> QED
    BY <1>1, <1>2, <2>1, NeitherEnds
<1>4. \/ QuoteKept(s, c, r) \/ QuotedKept(s, c, r) \/ OperatorCuts(s, c, r)
      \/ BlankDropped(s, c, r) \/ PieceKept(s, c, r)
      \/ \E k \in 1 .. 4 : KeywordCuts(s, c, r, k)
  BY ScanSays
<1> HIDE DEF r
<1>5. ~ QuoteKept(s, c, r) /\ ~ QuotedKept(s, c, r) /\ ~ OperatorCuts(s, c, r) /\ ~ BlankDropped(s, c, r)
  BY <1>1 DEF QuoteKept, QuotedKept, OperatorCuts, BlankDropped
<1>6. \A k \in 1 .. 4 : ~ KeywordCuts(s, c, r, k)
  BY <1>3 DEF KeywordCuts
<1> QED
  BY <1>4, <1>5, <1>6 DEF r

\* One word of the value more.
LEMMA ValueMore ==
  ASSUME NEW u \in Texts, NEW s \in ScanStates, NEW v \in Texts, IsWords(v), NEW m \in Nat, m < Len(v),
         NEW r, ValueSoFar(u, s, v, m, r)
  PROVE  ValueSoFar(u, s, v, m + 1, Scan(r, v[m + 1]))
<1> DEFINE c == v[m + 1]
           x == SubSeq(v, 1, m)
           q == Scan(r, c)
           p == s.param
<1>1. Len(v) \in Nat /\ m + 1 \in 1 .. Len(v) /\ c \in Words /\ 1 \in 1 .. m + 1
  BY DEF Texts
<1>2. c \notin Special
  BY <1>1 DEF IsWords
<1>3. x \in Texts /\ SubSeq(v, 1, m + 1) = Append(x, c)
  BY <1>1, PartGrows
<1>4. /\ AfterScan(u \o x, r) /\ r \in ScanStates /\ r.toks = s.toks /\ r.param = p \o x
      /\ r.q_st = FALSE /\ NoHit(r.param)
      /\ m > 0 => r.space_encountered = (v[m] = Blank) /\ r.char_count # 0
  BY DEF ValueSoFar
<1>5. p \in Texts
  BY DEF ScanStates
<1>6. /\ u \o x \in Texts /\ u \o Append(x, c) = Append(u \o x, c)
      /\ p \o x \in Texts /\ p \o Append(x, c) = Append(p \o x, c)
  <2> HIDE DEF x, c, p
  <2>1. \A t \in Texts : t \o x \in Texts /\ t \o Append(x, c) = Append(t \o x, c)
    <3> TAKE t \in Texts
    <3>1. t \in Seq(Words) /\ x \in Seq(Words) /\ c \in Words
      BY <1>1, <1>3 DEF Texts
    <3>2. t \o x \in Seq(Words) /\ t \o Append(x, c) = Append(t \o x, c)
      BY <3>1, JoinedStep
    <3> QED
      BY <3>2 DEF Texts
  <2> QED
    BY <1>5, <2>1
<1>7. c = Blank => r.space_encountered = FALSE /\ r.param # <<>> /\ Last(r.param) \notin Keywords
  <2> SUFFICES ASSUME c = Blank PROVE r.space_encountered = FALSE /\ r.param # <<>> /\ Last(r.param) \notin Keywords
    OBVIOUS
  <2>1. m # 0
    BY DEF IsWords
  <2>2. m \in 1 .. Len(v) - 1 /\ m \in 1 .. Len(v) /\ m > 0
    BY <1>1, <2>1
  <2>3. v[m] # Blank /\ v[m] \notin Keywords
    <3>1. v[m] # Blank \/ v[m + 1] # Blank
      BY <2>2 DEF IsWords
    <3>2. v[m] \notin Special
      BY <2>2 DEF IsWords
    <3> QED
      BY <3>1, <3>2, NotSpecial
  <2>4. x # <<>> /\ Len(x) = m /\ x[m] = v[m]
    BY <2>2 DEF Texts
  <2>5. p \o x # <<>> /\ Last(p \o x) = x[Len(x)]
    <3> HIDE DEF x, p
    <3>1. x \in Seq(Words) /\ p \in Seq(Words) /\ Len(x) \in Nat \ {0} /\ Len(p) \in Nat
      BY <1>3, <1>5, <2>2, <2>4 DEF Texts
    <3>2. Len(p \o x) = Len(p) + Len(x) /\ (p \o x)[Len(p) + Len(x)] = x[Len(x)]
      BY <3>1
    <3>3. p \o x # <<>>
      BY <3>1, <3>2
    <3> QED
      BY <3>1, <3>2, <3>3 DEF Last
  <2> QED
    BY <1>4, <2>2, <2>3, <2>4, <2>5
<1> HIDE DEF c
<1>8. PieceKept(r, c, q) /\ q \in ScanStates
  BY <1>1, <1>2, <1>4, <1>7, WordKept, ScanTyped
<1>9. AfterScan(Append(u \o x, c), q)
  <2> DEFINE w == u \o x
  <2> HIDE DEF w
  <2>1. w \in Texts /\ AfterScan(w, r)
    BY <1>4, <1>6 DEF w
  <2> QED
    BY <1>1, <2>1, ScansMore DEF w
<1> HIDE DEF q
<1>10. /\ q.toks = r.toks /\ q.param = Append(r.param, c) /\ NoHit(q.param) /\ q.q_st = FALSE
       /\ q.char_count = r.char_count + 1 /\ q.space_encountered = (c = Blank)
  BY <1>8 DEF PieceKept, Keeps
<1>11. q.char_count # 0
  BY <1>4, <1>10 DEF ScanStates
<1> HIDE DEF x, p
<1>12. q.param = p \o Append(x, c) /\ AfterScan(u \o Append(x, c), q)
  BY <1>4, <1>6, <1>9, <1>10
<1>13. v[m + 1] = c
  BY DEF c
<1> QED
  BY <1>3, <1>4, <1>8, <1>10, <1>11, <1>12, <1>13 DEF ValueSoFar, p, q, c

\* The value is in the token, as it is.
LEMMA ValueKept ==
  ASSUME NEW u \in Texts, NEW s \in ScanStates, AfterScan(u, s), s.q_st = FALSE, NoHit(s.param),
         NEW v \in Texts, IsWords(v)
  PROVE  \E r \in ScanStates : /\ AfterScan(u \o v, r) /\ r.toks = s.toks /\ r.param = s.param \o v
                               /\ r.q_st = FALSE /\ NoHit(r.param) /\ r.space_encountered = FALSE /\ r.char_count # 0
<1> DEFINE n == Len(v)
           S == {m \in Nat : m <= n => \E r : ValueSoFar(u, s, v, m, r)}
<1>1. n \in Nat \ {0} /\ SubSeq(v, 1, n) = v /\ v[n] # Blank
  BY DEF Texts, IsWords
<1>2. 0 \in S
  <2>1. SubSeq(v, 1, 0) = <<>>
    BY DEF Texts
  <2>2. u \o <<>> = u /\ s.param \o <<>> = s.param
    BY DEF ScanStates, Texts
  <2>3. u \o SubSeq(v, 1, 0) = u /\ s.param \o SubSeq(v, 1, 0) = s.param
    BY <2>1, <2>2, Zenon
  <2>4. ~ (0 > 0)
    OBVIOUS
  <2>5. ValueSoFar(u, s, v, 0, s)
    BY <2>3, <2>4, Zenon DEF ValueSoFar
  <2> QED
    BY <2>5
<1> HIDE DEF n
<1>3. ASSUME NEW m \in Nat, m \in S PROVE m + 1 \in S
  <2> SUFFICES ASSUME m + 1 <= n PROVE \E r : ValueSoFar(u, s, v, m + 1, r)
    OBVIOUS
  <2>1. m <= n /\ m < Len(v)
    BY <1>1 DEF n
  <2>2. PICK r : ValueSoFar(u, s, v, m, r)
    BY <1>3, <2>1
  <2> QED
    BY <2>1, <2>2, ValueMore
<1>4. \A m \in Nat : m \in S
  <2> HIDE DEF S
  <2> QED BY <1>2, <1>3, Induction
<1>5. PICK r : ValueSoFar(u, s, v, n, r)
  BY <1>1, <1>4
<1>6. /\ AfterScan(u \o v, r) /\ r \in ScanStates /\ r.toks = s.toks /\ r.param = s.param \o v
      /\ r.q_st = FALSE /\ NoHit(r.param) /\ (n > 0 => r.space_encountered = (v[n] = Blank) /\ r.char_count # 0)
  BY <1>1, <1>5, Zenon DEF ValueSoFar
<1>7. n > 0
  BY <1>1
<1>8. r.space_encountered = FALSE /\ r.char_count # 0
  BY <1>1, <1>6, <1>7
<1> QED
  BY <1>6, <1>8, Zenon

-----------------------------------------------------------------------------
(* A token whose first word is an alias.                                   *)

\* The first word is one piece if a blank follows it or nothing.
LEMMA FirstWordAlone ==
  ASSUME NEW x \in Texts, x # <<>>, x[1] # Blank
  PROVE  Len(FirstWord(x)) = 1 <=> Len(x) = 1 \/ x[2] = Blank
<1> DEFINE blanks == {i \in DOMAIN x : x[i] = Blank}
           m == Min(blanks) - 1
<1>1. DOMAIN x = 1 .. Len(x) /\ Len(x) \in Nat \ {0} /\ x \in Seq(Words)
  BY DEF Texts
<1>2. CASE Blank \notin ToSet(x)
  <2>1. FirstWord(x) = x
    BY <1>2 DEF FirstWord
  <2>2. Len(x) > 1 => x[2] # Blank
    BY <1>1, <1>2 DEF ToSet
  <2> QED
    BY <1>1, <2>1, <2>2
<1>3. CASE Blank \in ToSet(x)
  <2>1. FirstWord(x) = SubSeq(x, 1, m)
    BY <1>3 DEF FirstWord
  <2>2. blanks # {} /\ blanks \subseteq Nat
    BY <1>1, <1>3 DEF ToSet
  <2>3. Min(blanks) \in blanks /\ \A i \in blanks : Min(blanks) <= i
    <3> HIDE DEF blanks
    <3> QED BY <2>2, MinIsLeast
  <2>4. m \in 1 .. Len(x) /\ x[m + 1] = Blank /\ m + 1 <= Len(x)
    <3>1. Min(blanks) \in 1 .. Len(x) /\ x[Min(blanks)] = Blank
      BY <1>1, <2>3
    <3>2. Min(blanks) # 1
      BY <3>1
    <3> DEFINE z == Min(blanks)
    <3> HIDE DEF z
    <3> QED
      BY <1>1, <3>1, <3>2 DEF z
  <2>5. x[2] = Blank /\ Len(x) > 1 => m = 1
    <3> SUFFICES ASSUME x[2] = Blank, Len(x) > 1 PROVE m = 1
      OBVIOUS
    <3>1. 2 \in blanks
      BY <1>1
    <3>2. Min(blanks) <= 2
      BY <2>3, <3>1
    <3> DEFINE z == Min(blanks)
    <3>3. z \in Nat
      BY <2>2, <2>3
    <3> HIDE DEF z, blanks
    <3> QED
      BY <2>4, <3>2, <3>3 DEF z
  <2> HIDE DEF m, blanks
  <2>6. Len(SubSeq(x, 1, m)) = m
    BY <1>1, <2>4
  <2> QED
    BY <1>1, <2>1, <2>4, <2>5, <2>6
<1> QED
  BY <1>2, <1>3

\* A token that does not begin with an alias by itself is left as it is.
LEMMA NotNamed ==
  ASSUME NEW p \in Texts, \A j \in 1 .. Len(p) : ~ Alone(p, j)
  PROVE  Substituted(cleanCmd(p)) = cleanCmd(p)
<1> DEFINE x == cleanCmd(p)
<1>1. x \in Texts
  BY CleanTyped
<1>2. CASE Blanks(p)
  <2>1. x = <<>>
    BY <1>2, CleanNothing DEF Blanks
  <2>2. FirstWord(<<>>) = <<>> /\ Len(<<>>) # 1
    BY DEF FirstWord, ToSet
  <2> QED
    BY <2>1, <2>2 DEF Substituted
<1>3. CASE ~ Blanks(p)
  <2>1. PICK j \in 1 .. Len(p) : p[j] # Blank /\ \A i \in 1 .. j - 1 : p[i] = Blank
    BY <1>3, FirstPiece
  <2>2. PICK b \in j .. Len(p) : x = SubSeq(p, j, b) /\ p[b] # Blank /\ \A i \in b + 1 .. Len(p) : p[i] = Blank
    BY <2>1, CleanFrom
  <2>3. Len(p) \in Nat /\ p \in Seq(Words)
    BY DEF Texts
  <2>4. Len(x) = b - j + 1 /\ x[1] = p[j] /\ x # <<>> /\ (b > j => x[2] = p[j + 1])
    BY <2>1, <2>2, <2>3
  <2> HIDE DEF x
  <2>5. Len(FirstWord(x)) = 1 <=> Len(x) = 1 \/ x[2] = Blank
    BY <1>1, <2>1, <2>4, FirstWordAlone
  <2>6. CASE Len(FirstWord(x)) = 1 /\ x[1] \in DOMAIN alias_s
    <3>1. j < Len(p) => p[j + 1] = Blank
      BY <2>1, <2>2, <2>3, <2>4, <2>5, <2>6
    <3>2. Alone(p, j)
      BY <2>1, <2>4, <2>6, <3>1 DEF Alone, Named
    <3> QED
      BY <3>2
  <2>7. CASE ~ (Len(FirstWord(x)) = 1 /\ x[1] \in DOMAIN alias_s)
    BY <2>7 DEF Substituted, x
  <2> QED
    BY <2>6, <2>7
<1> QED
  BY <1>2, <1>3

-----------------------------------------------------------------------------
(* A piece of a text is replaced by a value.                               *)

\* What is assumed of a value and its name.
LEMMA ValueIs ==
  ASSUME AliasesOK, NEW name, name \in DOMAIN alias_s
  PROVE  LET v == alias_s[name]
         IN  /\ v \in Texts /\ IsWords(v) /\ Len(v) \in Nat \ {0} /\ v[1] # Blank /\ v[Len(v)] # Blank
             /\ v[1] \notin Special /\ v[Len(v)] \notin Special /\ name \notin Special /\ name # Blank
<1> DEFINE v == alias_s[name]
<1>1. v \in Texts
  BY TextsAssumption, StringsAreTexts DEF AliasesOK
<1>2. IsWords(v) /\ name \notin Special /\ name # Blank
  BY DEF AliasesOK, AliasesAreWords
<1> HIDE DEF v
<1>3. Len(v) \in Nat \ {0}
  BY <1>1, <1>2 DEF IsWords, Texts
<1>4. 1 \in 1 .. Len(v) /\ Len(v) \in 1 .. Len(v)
  BY <1>3
<1> QED
  BY <1>1, <1>2, <1>3, <1>4 DEF IsWords, v

\* Spelling an alias out in the token is replacing it in what becomes of the token.
LEMMA SpeltClean ==
  ASSUME AliasesOK, NEW p \in Texts, NEW j \in 1 .. Len(p), Alone(p, j)
  PROVE  SpeltOut(p, j) \in Texts /\ cleanCmd(SpeltOut(p, j)) = Substituted(cleanCmd(p))
<1> DEFINE v == alias_s[p[j]]
           l == Len(v)
           x == cleanCmd(p)
           y == Replaced(p, j, v)
<1>1. p[j] \in DOMAIN alias_s /\ (\A i \in 1 .. j - 1 : p[i] = Blank) /\ (j < Len(p) => p[j + 1] = Blank)
  BY DEF Alone, Named
<1>2. v \in Texts /\ l \in Nat \ {0} /\ v[1] # Blank /\ v[l] # Blank /\ p[j] # Blank
  BY <1>1, ValueIs
<1> HIDE DEF v
<1>3. /\ y \in Texts /\ Len(y) = Len(p) + l - 1 /\ Len(p) \in Nat
      /\ \A i \in 1 .. j - 1 : y[i] = p[i]
      /\ \A i \in 1 .. l : y[j - 1 + i] = v[i]
      /\ \A i \in j + 1 .. Len(p) : y[i + l - 1] = p[i]
  BY <1>2, ReplacedPieces
<1> HIDE DEF y
<1>4. PICK b \in j .. Len(p) : x = SubSeq(p, j, b) /\ p[b] # Blank /\ \A i \in b + 1 .. Len(p) : p[i] = Blank
  BY <1>1, <1>2, CleanFrom
<1>5. /\ x \in Seq(Words) /\ Len(x) = b - j + 1 /\ \A i \in 1 .. b - j + 1 : x[i] = p[j + i - 1]
  BY <1>3, <1>4 DEF Texts
<1> HIDE DEF x
<1>6. x # <<>> /\ x[1] = p[j] /\ (Len(x) = 1 \/ x[2] = Blank)
  <2>1. Len(x) \in Nat \ {0} /\ 1 \in 1 .. b - j + 1 /\ j + 1 - 1 = j
    BY <1>3, <1>4, <1>5
  <2>2. x[1] = p[j] /\ x # <<>>
    BY <1>5, <2>1
  <2>3. CASE Len(x) # 1
    <3>1. 2 \in 1 .. b - j + 1 /\ j + 2 - 1 = j + 1 /\ j < Len(p)
      BY <1>3, <1>4, <1>5, <2>1, <2>3
    <3> QED
      BY <1>1, <1>5, <2>2, <3>1
  <2> QED
    BY <2>2, <2>3
<1> DEFINE w == SubSeq(x, 2, Len(x))
<1>7. Substituted(x) = v \o w
  <2>1. Len(FirstWord(x)) = 1
    BY <1>2, <1>5, <1>6, FirstWordAlone DEF Texts
  <2> QED
    BY <1>1, <1>6, <2>1 DEF Substituted, v
<1>8. w \in Seq(Words) /\ Len(w) = b - j /\ \A i \in 1 .. b - j : w[i] = p[j + i]
  <2>1. w \in Seq(Words) /\ Len(w) = b - j /\ \A i \in 1 .. b - j : w[i] = x[1 + i]
    <3>1. x \in Seq(Words) /\ Len(x) \in Nat /\ b - j \in Nat /\ Len(x) = b - j + 1
      BY <1>3, <1>4, <1>5
    <3> QED
      BY <3>1
  <2> HIDE DEF w
  <2>2. ASSUME NEW i \in 1 .. b - j PROVE w[i] = p[j + i]
    <3>1. 1 + i \in 1 .. b - j + 1 /\ j + (1 + i) - 1 = j + i
      BY <1>3, <1>4
    <3> QED
      BY <1>5, <2>1, <3>1
  <2> QED
    BY <2>1, <2>2
<1> HIDE DEF w
<1> DEFINE B == b + l - 1
<1>9. /\ j \in 1 .. Len(y) /\ B \in 1 .. Len(y) /\ j <= B /\ y[j] # Blank /\ y[B] # Blank
      /\ \A i \in 1 .. Len(y) : y[i] # Blank => j <= i /\ i <= B
  <2> HIDE DEF l
  <2>1. j \in 1 .. Len(y) /\ B \in 1 .. Len(y) /\ j <= B
    BY <1>2, <1>3, <1>4
  <2>2. y[j] # Blank
    <3>1. 1 \in 1 .. l /\ j - 1 + 1 = j
      BY <1>2
    <3> QED
      BY <1>2, <1>3, <3>1
  <2>3. y[B] # Blank
    <3>1. CASE b = j
      <4>1. l \in 1 .. l /\ j - 1 + l = B
        BY <1>2, <3>1
      <4> QED
        BY <1>2, <1>3, <4>1 DEF l
    <3>2. CASE b # j
      <4>1. b \in j + 1 .. Len(p)
        BY <1>3, <1>4, <3>2
      <4> QED
        BY <1>3, <1>4, <4>1
    <3> QED
      BY <3>1, <3>2
  <2>4. ASSUME NEW i \in 1 .. Len(y), y[i] # Blank PROVE j <= i /\ i <= B
    <3>1. j <= i
      BY <1>1, <1>3, <2>4
    <3>2. i <= B
      <4> SUFFICES ASSUME i > B PROVE FALSE
        BY <2>1
      <4> DEFINE k == i - l + 1
      <4>1. k \in b + 1 .. Len(p) /\ k \in j + 1 .. Len(p) /\ k + l - 1 = i
        BY <1>2, <1>3, <1>4
      <4> HIDE DEF k
      <4>2. y[k + l - 1] = p[k] /\ p[k] = Blank
        BY <1>3, <1>4, <4>1
      <4> QED
        BY <2>4, <4>1, <4>2
    <3> QED
      BY <3>1, <3>2
  <2> QED
    BY <2>1, <2>2, <2>3, <2>4
<1>10. cleanCmd(y) = SubSeq(y, j, B)
  <2> HIDE DEF B
  <2> QED BY <1>3, <1>9, CleanIs
<1> DEFINE e == SubSeq(y, j, B)
           f == v \o w
<1>11. e \in Seq(Words) /\ Len(e) = b - j + l /\ \A i \in 1 .. b - j + l : e[i] = y[j + i - 1]
  <2>1. y \in Seq(Words) /\ Len(y) \in Nat /\ b \in Nat /\ l \in Nat
    BY <1>2, <1>3, <1>4 DEF Texts
  <2> HIDE DEF l
  <2> QED
    BY <1>9, <2>1
<1>12. f \in Seq(Words) /\ Len(f) = l + (b - j) /\ (\A i \in 1 .. l : f[i] = v[i]) /\ \A i \in 1 .. b - j : f[l + i] = w[i]
  <2>1. v \in Seq(Words) /\ w \in Seq(Words)
    BY <1>2, <1>8 DEF Texts
  <2>2. f \in Seq(Words) /\ Len(f) = Len(v) + Len(w) /\ (\A i \in 1 .. Len(v) : f[i] = v[i]) /\ \A i \in 1 .. Len(w) : f[Len(v) + i] = w[i]
    BY <2>1
  <2> QED
    BY <1>8, <2>2
<1> HIDE DEF e, f, l, B
<1>13. ASSUME NEW i \in 1 .. Len(e) PROVE e[i] = f[i]
  <2>0. i \in 1 .. b - j + l /\ e[i] = y[j + i - 1]
    BY <1>11
  <2>1. CASE i <= l
    <3>1. i \in 1 .. l /\ j - 1 + i = j + i - 1
      BY <1>2, <2>1
    <3> QED
      BY <1>3, <1>12, <2>0, <3>1
  <2>2. CASE i > l
    <3> DEFINE k == i - l
    <3>0. l \in Nat /\ b \in j .. Len(p) /\ Len(p) \in Nat /\ j \in 1 .. Len(p)
      BY <1>2, <1>3, <1>4
    <3>1. k \in 1 .. b - j /\ l + k = i /\ j + k \in j + 1 .. Len(p) /\ (j + k) + l - 1 = j + i - 1
      BY <2>0, <2>2, <3>0
    <3> HIDE DEF k
    <3>2. f[l + k] = w[k] /\ w[k] = p[j + k] /\ y[(j + k) + l - 1] = p[j + k]
      BY <1>3, <1>8, <1>12, <3>1
    <3> QED
      BY <2>0, <3>1, <3>2
  <2> QED
    BY <1>2, <2>0, <2>1, <2>2
<1>14. Len(e) = Len(f)
  BY <1>2, <1>4, <1>11, <1>12
<1>15. e = f
  BY <1>11, <1>12, <1>13, <1>14, SameText
<1>16. SpeltOut(p, j) = y
  BY DEF SpeltOut, y, v
<1> QED
  BY <1>3, <1>7, <1>10, <1>15, <1>16 DEF e, f, x

-----------------------------------------------------------------------------
(* A keyword ends a token with its alias spelled out where it ends it.     *)

\* What is known of a token with an alias, and of the one with its value.
Both(p, j, v, c, q, z) ==
  /\ q = Append(p, c) /\ q \in Texts /\ Len(q) = Len(p) + 1 /\ Len(p) \in Nat
  /\ q[j] = p[j] /\ p[j] \notin Keywords /\ p[j] # Blank /\ q[Len(q)] = c
  /\ \A i \in 1 .. Len(p) : q[i] = p[i]
  /\ v \in Texts /\ Len(v) \in Nat \ {0} /\ v[Len(v)] \notin Keywords /\ v[Len(v)] # Blank
  /\ z = Append(SpeltOut(p, j), c) /\ z = Replaced(q, j, v) /\ z \in Texts /\ Len(z) = Len(q) + Len(v) - 1
  /\ \A i \in 1 .. j - 1 : z[i] = q[i]
  /\ \A i \in 1 .. Len(v) : z[j - 1 + i] = v[i]
  /\ \A i \in j + 1 .. Len(q) : z[i + Len(v) - 1] = q[i]

\* It is known of every alias that stands alone.
LEMMA BothAre ==
  ASSUME AliasesOK, NEW p \in Texts, NEW j \in 1 .. Len(p), Alone(p, j), NEW c \in Words
  PROVE  Both(p, j, alias_s[p[j]], c, Append(p, c), Append(SpeltOut(p, j), c))
<1> DEFINE v == alias_s[p[j]]
           q == Append(p, c)
           z == Append(SpeltOut(p, j), c)
<1>1. /\ q \in Texts /\ Len(q) = Len(p) + 1 /\ Len(p) \in Nat /\ q[j] = p[j] /\ q[Len(q)] = c
      /\ j \in 1 .. Len(q) /\ \A i \in 1 .. Len(p) : q[i] = p[i]
  BY DEF Texts
<1>2. /\ v \in Texts /\ Len(v) \in Nat \ {0} /\ v[Len(v)] \notin Special /\ v[Len(v)] # Blank
      /\ p[j] \notin Special /\ p[j] # Blank
  BY ValueIs DEF Alone, Named
<1>3. v[Len(v)] \notin Keywords /\ p[j] \notin Keywords
  BY <1>2, NotSpecial
<1> HIDE DEF v, q
<1>4. z = Replaced(q, j, v)
  BY <1>2, ReplacedMore DEF SpeltOut, q, v
<1> HIDE DEF z
<1>5. /\ z \in Texts /\ Len(z) = Len(q) + Len(v) - 1
      /\ \A i \in 1 .. j - 1 : z[i] = q[i]
      /\ \A i \in 1 .. Len(v) : z[j - 1 + i] = v[i]
      /\ \A i \in j + 1 .. Len(q) : z[i + Len(v) - 1] = q[i]
  <2> DEFINE y == Replaced(q, j, v)
  <2>1. /\ y \in Texts /\ Len(y) = Len(q) + Len(v) - 1
        /\ \A i \in 1 .. j - 1 : y[i] = q[i]
        /\ \A i \in 1 .. Len(v) : y[j - 1 + i] = v[i]
        /\ \A i \in j + 1 .. Len(q) : y[i + Len(v) - 1] = q[i]
    <3>1. q \in Texts /\ v \in Texts /\ j \in 1 .. Len(q)
      BY <1>1, <1>2
    <3> QED
      BY <3>1, ReplacedPieces
  <2> HIDE DEF y
  <2>2. z = y
    BY <1>4 DEF y
  <2> QED
    BY <2>1, <2>2
<1>6. Both(p, j, v, c, q, z)
  BY <1>1, <1>2, <1>3, <1>4, <1>5 DEF Both, q, z
<1> QED
  BY <1>6 DEF v, q, z

\* The keyword a text ends with is the one it ends with when the alias is spelled out.
LEMMA EndsSame ==
  ASSUME AliasesOK, NEW p \in Texts, NEW j \in 1 .. Len(p), Alone(p, j), NEW c \in Words, NEW k \in 1 .. 4
  PROVE  EndsWith(Append(p, c), Pattern[k]) <=> EndsWith(Append(SpeltOut(p, j), c), Pattern[k])
<1> DEFINE v == alias_s[p[j]]
           q == Append(p, c)
           z == Append(SpeltOut(p, j), c)
           l == Len(v)
           w == Pattern[k]
           m == Len(w)
<1>1. Both(p, j, v, c, q, z)
  BY BothAre
<1>2. w \in Texts /\ m \in Nat /\ m >= 2
  BY PatternPieces
<1> HIDE DEF v, q, z, w
<1>3. /\ Len(q) \in Nat /\ l \in Nat \ {0} /\ Len(z) = Len(q) + l - 1 /\ j \in 1 .. Len(q) /\ Len(z) \in Nat
      /\ q \in Texts /\ z \in Texts /\ q[j] \notin Keywords /\ q[j] # Blank
      /\ \A i \in j + 1 .. Len(q) : z[i + l - 1] = q[i]
  <2>1. /\ q \in Texts /\ z \in Texts /\ q[j] \notin Keywords /\ q[j] # Blank
        /\ \A i \in j + 1 .. Len(q) : z[i + Len(v) - 1] = q[i]
    BY <1>1 DEF Both
  <2>2. Len(v) \in Nat \ {0} /\ Len(z) = Len(q) + Len(v) - 1 /\ Len(q) = Len(p) + 1 /\ Len(p) \in Nat
    BY <1>1 DEF Both
  <2>3. Len(q) \in Nat /\ j \in 1 .. Len(q) /\ Len(z) \in Nat
    BY <2>2
  <2> QED
    BY <2>1, <2>2, <2>3
<1>4. j - 1 + l \in 1 .. Len(z) /\ z[j - 1 + l] \notin Keywords /\ z[j - 1 + l] # Blank
  <2>1. l \in 1 .. l /\ j - 1 + l \in 1 .. Len(z)
    BY <1>3
  <2>2. z[j - 1 + l] = v[l] /\ v[l] \notin Keywords /\ v[l] # Blank
    BY <1>1, <2>1 DEF Both
  <2> QED
    BY <2>1, <2>2
<1>5. ASSUME EndsWith(q, w) PROVE EndsWith(z, w)
  <2>1. j <= Len(q) - m /\ \A i \in 1 .. m : q[Len(q) - m + i] = w[i]
    BY <1>3, <1>5, PatternAfter DEF w
  <2>2. ASSUME NEW i \in 1 .. m PROVE z[Len(z) - m + i] = w[i]
    <3>1. Len(q) - m + i \in j + 1 .. Len(q) /\ (Len(q) - m + i) + l - 1 = Len(z) - m + i
      <4> HIDE DEF l, m
      <4> QED BY <1>2, <1>3, <2>1
    <3> QED
      BY <1>3, <2>1, <3>1
  <2>3. m > 0 /\ m <= Len(z)
    <3> HIDE DEF l, m
    <3> QED BY <1>2, <1>3, <2>1
  <2> QED
    BY <1>2, <1>3, <2>2, <2>3, EndsIfSame
<1>6. ASSUME EndsWith(z, w) PROVE EndsWith(q, w)
  <2>1. j - 1 + l <= Len(z) - m /\ \A i \in 1 .. m : z[Len(z) - m + i] = w[i]
    BY <1>3, <1>4, <1>6, PatternAfter DEF w
  <2>2. ASSUME NEW i \in 1 .. m PROVE q[Len(q) - m + i] = w[i]
    <3>1. Len(q) - m + i \in j + 1 .. Len(q) /\ (Len(q) - m + i) + l - 1 = Len(z) - m + i
      <4> HIDE DEF l, m
      <4> QED BY <1>2, <1>3, <2>1
    <3> QED
      BY <1>3, <2>1, <3>1
  <2>3. m > 0 /\ m <= Len(q)
    <3> HIDE DEF l, m
    <3> QED BY <1>2, <1>3, <2>1
  <2> QED
    BY <1>2, <1>3, <2>2, <2>3, EndsIfSame
<1> QED
  BY <1>5, <1>6 DEF q, z, w

\* What is cut off before the keyword is the same, with the alias spelled out.
LEMMA CutSame ==
  ASSUME AliasesOK, NEW p \in Texts, NEW j \in 1 .. Len(p), Alone(p, j), NEW c \in Words, NEW k \in 1 .. 4,
         EndsWith(Append(p, c), Pattern[k])
  PROVE  LET q == Append(p, c)
             z == Append(SpeltOut(p, j), c)
             n == Len(q) - Len(Pattern[k])
             o == Len(z) - Len(Pattern[k])
             g == SubSeq(q, 1, n)
         IN  /\ n > 0 /\ o > 0 /\ g \in Texts /\ j \in 1 .. Len(g) /\ Alone(g, j)
             /\ SubSeq(z, 1, o) = SpeltOut(g, j)
<1> DEFINE v == alias_s[p[j]]
           q == Append(p, c)
           z == Append(SpeltOut(p, j), c)
           l == Len(v)
           w == Pattern[k]
           m == Len(w)
           n == Len(q) - m
           o == Len(z) - m
           g == SubSeq(q, 1, n)
           h == SubSeq(z, 1, o)
           e == Replaced(g, j, v)
<1>1. Both(p, j, v, c, q, z)
  BY BothAre
<1>2. w \in Texts /\ m \in Nat /\ m >= 2 /\ EndsWith(q, w)
  BY PatternPieces
<1> HIDE DEF v, q, z, w
<1>3. /\ Len(q) \in Nat /\ l \in Nat \ {0} /\ Len(z) = Len(q) + l - 1 /\ j \in 1 .. Len(q) /\ Len(z) \in Nat
      /\ q \in Texts /\ z \in Texts /\ q[j] \notin Keywords /\ q[j] # Blank /\ v \in Texts
      /\ Len(q) = Len(p) + 1 /\ Len(p) \in Nat /\ q[j] = p[j]
  BY <1>1 DEF Both
<1>4. j <= n
  BY <1>2, <1>3, PatternAfter DEF w
<1>5. n \in Nat /\ n <= Len(p) - 1 /\ n > 0 /\ o \in Nat /\ o = n + l - 1 /\ o > 0
  <2> HIDE DEF l, m
  <2> QED BY <1>2, <1>3, <1>4
<1> HIDE DEF n, o, m
<1>6. /\ g \in Texts /\ Len(g) = n /\ \A i \in 1 .. n : g[i] = q[i]
  <2>1. n <= Len(q)
    <3> HIDE DEF l
    <3> QED BY <1>3, <1>5
  <2> QED
    BY <1>3, <1>5, <2>1, FirstPart
<1>7. /\ h \in Texts /\ Len(h) = o /\ \A i \in 1 .. o : h[i] = z[i]
  <2>1. o <= Len(z)
    <3> HIDE DEF l
    <3> QED BY <1>3, <1>5
  <2> QED
    BY <1>3, <1>5, <2>1, FirstPart
<1> HIDE DEF g, h
<1>8. j \in 1 .. Len(g)
  BY <1>4, <1>5, <1>6
<1>9. Alone(g, j)
  <2>1. g[j] = p[j] /\ \A i \in 1 .. j - 1 : g[i] = p[i]
    BY <1>1, <1>3, <1>4, <1>5, <1>6 DEF Both
  <2>2. ASSUME j < Len(g) PROVE g[j + 1] = Blank
    <3>1. j + 1 \in 1 .. n /\ j + 1 \in 1 .. Len(p) /\ j < Len(p)
      BY <1>5, <1>6, <2>2
    <3>2. g[j + 1] = p[j + 1]
      BY <1>1, <1>6, <3>1 DEF Both
    <3> QED
      BY <3>1, <3>2 DEF Alone
  <2> QED
    BY <1>8, <2>1, <2>2 DEF Alone, Named
<1>10. /\ e \in Texts /\ Len(e) = Len(g) + l - 1
       /\ \A i \in 1 .. j - 1 : e[i] = g[i]
       /\ \A i \in 1 .. l : e[j - 1 + i] = v[i]
       /\ \A i \in j + 1 .. Len(g) : e[i + l - 1] = g[i]
  <2>1. g \in Texts /\ v \in Texts
    BY <1>3, <1>6
  <2> QED
    BY <1>8, <2>1, ReplacedPieces
<1> HIDE DEF e
<1>11. Len(e) = Len(h)
  BY <1>5, <1>6, <1>7, <1>10
<1>12. ASSUME NEW i \in 1 .. Len(h) PROVE h[i] = e[i]
  <2>0. h[i] = z[i] /\ i \in 1 .. o /\ o = n + l - 1 /\ n \in Nat /\ l \in Nat \ {0} /\ j <= n /\ Len(g) = n /\ n <= Len(q)
    BY <1>3, <1>4, <1>5, <1>6, <1>7
  <2> HIDE DEF l
  <2>1. CASE i <= j - 1
    <3>1. i \in 1 .. j - 1 /\ i \in 1 .. n
      BY <2>0, <2>1
    <3>2. z[i] = q[i]
      BY <1>1, <3>1 DEF Both
    <3> QED
      BY <1>6, <1>10, <2>0, <3>1, <3>2
  <2>2. CASE i > j - 1 /\ i <= j - 1 + l
    <3> DEFINE b == i - (j - 1)
    <3>1. b \in 1 .. l /\ j - 1 + b = i
      BY <2>0, <2>2
    <3> HIDE DEF b
    <3>2. z[j - 1 + b] = v[b]
      BY <1>1, <3>1 DEF Both, l
    <3> QED
      BY <1>10, <2>0, <3>1, <3>2
  <2>3. CASE i > j - 1 + l
    <3> DEFINE b == i - l + 1
    <3>1. b \in j + 1 .. Len(g) /\ b \in j + 1 .. Len(q) /\ b + l - 1 = i /\ b \in 1 .. n
      BY <2>0, <2>3
    <3> HIDE DEF b
    <3>2. z[b + l - 1] = q[b]
      BY <1>1, <3>1 DEF Both, l
    <3> QED
      BY <1>6, <1>10, <2>0, <3>1, <3>2
  <2> QED
    BY <2>0, <2>1, <2>2, <2>3
<1>13. h = e
  BY <1>7, <1>10, <1>11, <1>12, SameText DEF Texts
<1>14. e = SpeltOut(g, j)
  <2>1. g[j] = p[j]
    BY <1>3, <1>4, <1>5, <1>6
  <2> QED
    BY <2>1 DEF SpeltOut, e, v
<1> QED
  BY <1>5, <1>6, <1>8, <1>9, <1>13, <1>14 DEF q, z, n, o, m, w, g, h

-----------------------------------------------------------------------------
(* What the tokens mean, one token more.                                   *)

\* What a token means after those before it.
TokenMeans(toks, x) == IF FileNext(toks) THEN cleanCmd(x) ELSE Substituted(cleanCmd(x))

\* One token more means what it means after those before it.
LEMMA MeantMore ==
  ASSUME AliasesOK, NEW toks \in Seq(Texts), NEW x \in Texts
  PROVE  Meant(Cleaned(Append(toks, x))) = Append(Meant(Cleaned(toks)), TokenMeans(toks, x))
<1> DEFINE l == Cleaned(toks)
           e == cleanCmd(x)
           m == Append(l, e)
           d == TokenMeans(toks, x)
<1>1. /\ l \in Seq(Texts) /\ Len(l) = Len(toks) /\ \A k \in 1 .. Len(toks) : l[k] = cleanCmd(toks[k])
  BY CleanedTyped
<1>2. e \in Texts
  BY CleanTyped
<1>3. Cleaned(Append(toks, x)) = m
  BY CleanedStep
<1>4. Len(toks) \in Nat
  OBVIOUS
<1>5. FileNext(toks) <=> IsFile(m, Len(l) + 1)
  <2>1. CASE toks = <<>>
    <3>1. Len(toks) = 0
      BY <2>1
    <3>2. ~ (Len(l) + 1 > 1)
      BY <1>1, <3>1
    <3> QED
      BY <2>1, <3>2 DEF FileNext, IsFile
  <2>2. CASE toks # <<>>
    <3>1. Len(toks) \in Nat \ {0} /\ Len(toks) \in 1 .. Len(toks) /\ Last(toks) = toks[Len(toks)]
      BY <2>2 DEF Last
    <3>2. l[Len(toks)] = cleanCmd(Last(toks))
      BY <1>1, <3>1
    <3> HIDE DEF l, e
    <3>3. m[Len(l)] = l[Len(l)] /\ (Len(l) + 1) - 1 = Len(l) /\ Len(l) + 1 > 1
      BY <1>1, <1>2, <3>1
    <3> HIDE DEF m
    <3> QED
      BY <1>1, <2>2, <3>2, <3>3 DEF FileNext, IsFile
  <2> QED
    BY <2>1, <2>2
<1> HIDE DEF l, e
<1>6. DOMAIN m = 1 .. Len(l) + 1 /\ DOMAIN l = 1 .. Len(l) /\ Len(l) \in Nat /\ m[Len(l) + 1] = e
      /\ \A k \in 1 .. Len(l) : m[k] = l[k]
  BY <1>1, <1>2
<1>7. d = IF IsFile(m, Len(l) + 1) THEN e ELSE Substituted(e)
  BY <1>5 DEF TokenMeans, e
<1> HIDE DEF m, d
<1> DEFINE F(k) == IF IsFile(m, k) THEN m[k] ELSE Substituted(m[k])
           G(k) == IF IsFile(l, k) THEN l[k] ELSE Substituted(l[k])
<1>8. ASSUME NEW k \in 1 .. Len(l) PROVE F(k) = G(k)
  <2>1. k > 1 => k - 1 \in 1 .. Len(l)
    BY <1>6
  <2>2. IsFile(m, k) <=> IsFile(l, k)
    BY <1>6, <2>1 DEF IsFile
  <2> QED
    BY <1>6, <2>2
<1>9. F(Len(l) + 1) = d
  BY <1>6, <1>7
<1>10. Meant(m) = [k \in 1 .. Len(l) + 1 |-> F(k)] /\ Meant(l) = [k \in 1 .. Len(l) |-> G(k)]
  BY <1>6 DEF Meant
<1>11. d \in Texts /\ \A k \in 1 .. Len(l) : G(k) \in Texts
  <2>1. alias_s \in Aliases
    BY DEF AliasesOK
  <2>2. d \in Texts
    BY <1>2, <2>1, SubstitutedTyped DEF TokenMeans, d, e
  <2>3. ASSUME NEW k \in 1 .. Len(l) PROVE G(k) \in Texts
    <3>1. l[k] \in Texts
      BY <1>1
    <3> QED
      BY <2>1, <3>1, SubstitutedTyped
  <2> QED
    BY <2>2, <2>3
<1> HIDE DEF F, G
<1> DEFINE a == [k \in 1 .. Len(l) + 1 |-> F(k)]
           b == [k \in 1 .. Len(l) |-> G(k)]
           o == Append(b, d)
<1>12. b \in Seq(Texts) /\ Len(b) = Len(l) /\ \A k \in 1 .. Len(l) : b[k] = G(k)
  BY <1>6, <1>11
<1>13. a \in Seq(Texts) /\ Len(a) = Len(l) + 1 /\ \A k \in 1 .. Len(l) + 1 : a[k] = F(k)
  <2>1. ASSUME NEW k \in 1 .. Len(l) + 1 PROVE F(k) \in Texts
    <3>1. CASE k = Len(l) + 1
      BY <1>9, <1>11, <3>1
    <3>2. CASE k # Len(l) + 1
      <4>1. k \in 1 .. Len(l)
        BY <1>6, <3>2
      <4> QED
        BY <1>8, <1>11, <4>1
    <3> QED
      BY <3>1, <3>2
  <2> QED
    BY <1>6, <2>1
<1> HIDE DEF a, b
<1>14. /\ o \in Seq(Texts) /\ Len(o) = Len(l) + 1 /\ o[Len(l) + 1] = d
       /\ \A k \in 1 .. Len(l) : o[k] = b[k]
  BY <1>6, <1>11, <1>12
<1> HIDE DEF o
<1>15. ASSUME NEW k \in 1 .. Len(a) PROVE a[k] = o[k]
  <2>1. CASE k = Len(l) + 1
    BY <1>6, <1>9, <1>13, <1>14, <2>1
  <2>2. CASE k # Len(l) + 1
    <3>1. k \in 1 .. Len(l)
      BY <1>6, <1>13, <2>2
    <3> QED
      BY <1>8, <1>12, <1>13, <1>14, <3>1
  <2> QED
    BY <2>1, <2>2
<1>16. a = o
  BY <1>13, <1>14, <1>15, SameText
<1>17. Meant(m) = Append(Meant(l), d)
  BY <1>10, <1>16 DEF a, b, o
<1> QED
  BY <1>3, <1>17 DEF l, m, d

\* Tokens that mean the same, one more of each.
LEMMA TokenMore ==
  ASSUME AliasesOK, NEW a \in Seq(Texts), NEW b \in Seq(Texts), Cleaned(b) = Meant(Cleaned(a)),
         NEW x \in Texts, NEW y \in Texts, cleanCmd(y) = TokenMeans(a, x)
  PROVE  /\ Append(a, x) \in Seq(Texts) /\ Append(b, y) \in Seq(Texts)
         /\ Cleaned(Append(b, y)) = Meant(Cleaned(Append(a, x)))
<1>1. Cleaned(Append(b, y)) = Append(Cleaned(b), cleanCmd(y))
  BY CleanedStep
<1>2. Meant(Cleaned(Append(a, x))) = Append(Meant(Cleaned(a)), TokenMeans(a, x))
  BY MeantMore
<1>3. Cleaned(Append(b, y)) = Meant(Cleaned(Append(a, x)))
  BY <1>1, <1>2, Zenon
<1> QED
  BY <1>3

\* An operator or a keyword that is cut off means itself.
LEMMA MarkMore ==
  ASSUME AliasesOK, NEW a \in Seq(Texts), NEW b \in Seq(Texts), Cleaned(b) = Meant(Cleaned(a)),
         NEW c \in Words, c \in Operators \cup Keywords
  PROVE  /\ Append(a, <<c>>) \in Seq(Texts) /\ Append(b, <<c>>) \in Seq(Texts)
         /\ Cleaned(Append(b, <<c>>)) = Meant(Cleaned(Append(a, <<c>>)))
<1>1. c # Blank
  BY DifferentPieces
<1>2. <<c>> \in Texts /\ cleanCmd(<<c>>) = <<c>>
  BY <1>1, CleanOne
<1>3. c \notin DOMAIN alias_s
  BY DEF AliasesOK, AliasesAreWords, Special
<1>4. Substituted(<<c>>) = <<c>>
  <2>1. <<c>>[1] = c
    OBVIOUS
  <2> QED
    BY <1>3, <2>1 DEF Substituted
<1>5. cleanCmd(<<c>>) = TokenMeans(a, <<c>>)
  BY <1>2, <1>4 DEF TokenMeans
<1> QED
  BY <1>2, <1>5, TokenMore

\* What is being filled means what is being filled with the alias spelled out, if it ends here.
LEMMA OpenMeans ==
  ASSUME AliasesOK, NEW t, NEW n, NEW s \in ScanStates, NEW u \in ScanStates, Alike(t, n, s, u), At(t, n + 1) \in Breaks
  PROVE  cleanCmd(u.param) = TokenMeans(s.toks, s.param)
<1>1. s.param \in Texts
  BY DEF ScanStates
<1>2. CASE u.param = s.param /\ OpenSame(t, n, s)
  <2>1. ~ MayGrow(t, n, s)
    BY DEF MayGrow
  <2>2. CASE AfterFile(s)
    BY <1>2, <2>2 DEF TokenMeans, AfterFile
  <2>3. CASE \A j \in 1 .. Len(s.param) : ~ MayBe(s.param, j)
    <3>1. \A j \in 1 .. Len(s.param) : ~ Alone(s.param, j)
      BY <2>3 DEF Alone, MayBe
    <3>2. Substituted(cleanCmd(s.param)) = cleanCmd(s.param)
      BY <1>1, <3>1, NotNamed
    <3> QED
      BY <1>2, <3>2 DEF TokenMeans
  <2> QED
    BY <1>2, <2>1, <2>2, <2>3 DEF OpenSame
<1>3. ASSUME NEW j \in 1 .. Len(s.param), OpenSpelt(t, n, s, j), u.param = SpeltOut(s.param, j)
      PROVE  cleanCmd(u.param) = TokenMeans(s.toks, s.param)
  <2>1. ~ FileNext(s.toks) /\ Alone(s.param, j)
    BY <1>3 DEF OpenSpelt, AfterFile
  <2>2. cleanCmd(SpeltOut(s.param, j)) = Substituted(cleanCmd(s.param))
    BY <1>1, <2>1, SpeltClean
  <2> QED
    BY <1>3, <2>1, <2>2 DEF TokenMeans
<1> QED
  BY <1>2, <1>3 DEF Alike

-----------------------------------------------------------------------------
(* A piece that is no alias to be spelled out.                             *)

\* Breaks are no keywords and no quotes.
LEMMA BreaksAre ==
  /\ Breaks = Operators \cup {Blank} /\ Keywords \cap Breaks = {} /\ Quote \notin Breaks /\ Blank \in Breaks
  /\ Special \cap Breaks = Operators /\ Keywords \subseteq Special /\ Quote \in Special /\ Operators \subseteq Special
<1>1. "alias" \notin Breaks /\ "set" \notin Breaks /\ "cd" \notin Breaks /\ Blank \notin Special
  BY DEF Breaks, Operators, Blank, Special, Keywords, Quote
<1> QED
  BY <1>1, DifferentPieces DEF Breaks, Special

\* A name of an alias means nothing to the parser.
LEMMA NameIs ==
  ASSUME AliasesOK, NEW name, name \in DOMAIN alias_s
  PROVE  name # Blank /\ name # Quote /\ name \notin Operators /\ name \notin Keywords /\ name \notin Breaks /\ name # "fi" /\ name # "if"
<1>1. name \notin Special /\ name # Blank
  BY DEF AliasesOK, AliasesAreWords
<1> QED
  BY <1>1, NotSpecial DEF Breaks

\* A name that begins a token and is not spelled out goes on.
LEMMA NameGoesOn ==
  ASSUME AliasesOK, NEW t \in Texts, Plain(t), NEW n \in Nat, n < Len(t), NEW s \in ScanStates, Place(t, n, s),
         AtStart(t, n, s), Blanks(s.param), ~ AfterFile(s), t[n + 1] \in DOMAIN alias_s, ~ Stands(t, n + 1)
  PROVE  At(t, (n + 1) + 1) \notin Breaks
<1> DEFINE c == t[n + 1]
<1>1. c # Quote /\ c \notin Breaks
  BY NameIs
<1>2. /\ s.q_st = FALSE /\ (n > 0 => t[n] \in Breaks \cup {"fi"})
      /\ Previous(t, n + 1) \in Breaks \cup Keywords /\ Previous(t, n + 1) # ">"
  BY DEF AtStart
<1>3. n + 1 \notin Quoted(t)
  BY <1>2 DEF Place
<1>4. At(t, n) \in Breaks
  <2>1. CASE n > 0
    <3>1. t[n] # "fi"
      BY <1>1, <2>1, KeywordsApart
    <3>2. At(t, n) = t[n]
      <4>1. n \in DOMAIN t
        BY <2>1 DEF Texts
      <4> QED
        BY <4>1 DEF At
    <3> QED
      BY <1>2, <2>1, <3>1, <3>2
  <2>2. CASE ~ (n > 0)
    <3>1. n \notin DOMAIN t
      BY <2>2 DEF Texts
    <3> QED
      BY <3>1, BreaksAre DEF At
  <2> QED
    BY <2>1, <2>2
<1>5. Previous(t, n + 1) \in {"&", "|", Blank} \cup Keywords
  BY <1>2 DEF Breaks, Operators
<1>6. (n + 1) - 1 = n
  OBVIOUS
<1> QED
  BY <1>3, <1>4, <1>5, <1>6 DEF Stands, Breaks

\* The name is the first word, so it is in one place only.
LEMMA OneName ==
  ASSUME AliasesOK, NEW p \in Texts, NEW i, NEW j, Named(p, i), Named(p, j)
  PROVE  i = j
<1>1. p[i] # Blank /\ p[j] # Blank
  BY NameIs DEF Named
<1>2. Len(p) \in Nat
  BY DEF Texts
<1> QED
  BY <1>1, <1>2 DEF Named

\* A name in what is being filled, one piece further on.
LEMMA NamedMore ==
  ASSUME AliasesOK, NEW p \in Texts, NEW c \in Words, NEW j, Named(Append(p, c), j)
  PROVE  \/ Named(p, j) /\ j \in 1 .. Len(p) /\ Append(p, c)[j + 1] = IF j = Len(p) THEN c ELSE p[j + 1]
         \/ Blanks(p) /\ j = Len(p) + 1 /\ c \in DOMAIN alias_s
<1> DEFINE q == Append(p, c)
<1>1. Len(p) \in Nat /\ Len(q) = Len(p) + 1 /\ q[Len(p) + 1] = c /\ \A i \in 1 .. Len(p) : q[i] = p[i]
  BY DEF Texts
<1> HIDE DEF q
<1>2. j \in 1 .. Len(q) /\ (\A i \in 1 .. j - 1 : q[i] = Blank) /\ q[j] \in DOMAIN alias_s
  BY DEF Named, q
<1>3. CASE j = Len(p) + 1
  BY <1>1, <1>2, <1>3 DEF Blanks
<1>4. CASE j # Len(p) + 1
  <2>1. j \in 1 .. Len(p)
    BY <1>1, <1>2, <1>4
  <2>2. \A i \in 1 .. j - 1 : p[i] = Blank
    BY <1>1, <1>2, <2>1
  <2>3. Named(p, j)
    BY <1>1, <1>2, <2>1, <2>2 DEF Named
  <2>4. q[j + 1] = IF j = Len(p) THEN c ELSE p[j + 1]
    BY <1>1, <2>1
  <2> QED
    BY <2>1, <2>3, <2>4 DEF q
<1> QED
  BY <1>3, <1>4

\* What is kept as it is stays what it is, or may still become another word.
LEMMA SameKept ==
  ASSUME AliasesOK, NEW t \in Texts, Plain(t), NEW n \in Nat, n < Len(t), NEW s \in ScanStates, NEW r \in ScanStates,
         OneMore(t, n, s, r), AtStart(t, n, s), ~ Stands(t, n + 1), OpenSame(t, n, s),
         QuoteKept(s, t[n + 1], r) \/ QuotedKept(s, t[n + 1], r) \/ PieceKept(s, t[n + 1], r)
  PROVE  OpenSame(t, n + 1, r)
<1> DEFINE c == t[n + 1]
           p == s.param
<1>1. c \in Words /\ p \in Texts /\ Place(t, n, s) /\ Len(p) \in Nat
  BY DEF OneMore, ScanStates, Texts
<1>2. r.toks = s.toks /\ r.param = Append(p, c)
  BY DEF QuoteKept, QuotedKept, PieceKept, Keeps
<1>3. c \in DOMAIN alias_s /\ s.q_st = FALSE => r.q_st = FALSE
  <2>1. c \in DOMAIN alias_s => c # Quote
    BY NameIs
  <2> QED
    BY <2>1 DEF QuoteKept, QuotedKept, PieceKept
<1> HIDE DEF p
<1>4. CASE AfterFile(s)
  <2>1. AfterFile(r)
    BY <1>2, <1>4 DEF AfterFile
  <2> QED
    BY <2>1 DEF OpenSame
<1> SUFFICES ASSUME ~ AfterFile(s), NEW j \in 1 .. Len(r.param), MayBe(r.param, j)
             PROVE  MayGrow(t, n + 1, r)
  BY <1>4 DEF OpenSame
<1>5. Named(Append(p, c), j) /\ (j < Len(p) + 1 => Append(p, c)[j + 1] \in {Blank, "if"})
  <2>1. Len(Append(p, c)) = Len(p) + 1
    BY <1>1
  <2> QED
    BY <1>2, <2>1 DEF MayBe
<1>6. CASE Blanks(p) /\ j = Len(p) + 1 /\ c \in DOMAIN alias_s
  <2>1. s.q_st = FALSE
    BY <1>6 DEF AtStart, p
  <2>2. At(t, (n + 1) + 1) \notin Breaks
    BY <1>1, <1>6, NameGoesOn DEF p
  <2>3. Len(r.param) = Len(p) + 1 /\ r.param[Len(r.param)] = c /\ n + 1 > 0
    BY <1>1, <1>2
  <2> QED
    BY <1>2, <1>3, <1>5, <1>6, <2>1, <2>2, <2>3 DEF MayGrow
<1>7. CASE Named(p, j) /\ j \in 1 .. Len(p) /\ Append(p, c)[j + 1] = IF j = Len(p) THEN c ELSE p[j + 1]
  <2>1. j < Len(p) + 1
    BY <1>1, <1>7
  <2>2. CASE MayGrow(t, n, s)
    <3>1. Named(p, Len(p)) /\ t[n] = p[Len(p)] /\ At(t, n + 1) \notin Breaks /\ n > 0
      BY <2>2 DEF MayGrow, p
    <3>2. j = Len(p)
      BY <1>1, <1>7, <3>1, OneName
    <3>3. c \in {Blank, "if"}
      BY <1>5, <1>7, <2>1, <3>2
    <3>4. At(t, n + 1) = c
      <4>1. n + 1 \in DOMAIN t
        BY DEF Texts
      <4> QED
        BY <4>1 DEF At
    <3>5. c = "if"
      BY <3>1, <3>3, <3>4, BreaksAre
    <3>6. t[n] \in Breaks
      BY <1>1, <3>1, <3>5, KeywordsApart
    <3>7. t[n] \notin Breaks
      BY <3>1, NameIs DEF Named
    <3> QED
      BY <3>6, <3>7
  <2>3. CASE \A i \in 1 .. Len(p) : ~ MayBe(p, i)
    <3>1. ~ MayBe(p, j)
      BY <1>7, <2>3
    <3>2. j < Len(p) => p[j + 1] \in {Blank, "if"}
      BY <1>5, <1>7, <2>1
    <3> QED
      BY <1>7, <3>1, <3>2 DEF MayBe
  <2> QED
    BY <2>2, <2>3 DEF OpenSame, p
<1> QED
  BY <1>1, <1>5, <1>6, <1>7, NamedMore

\* What is spelled out and kept is an alias with a blank after it.
LEMMA SpeltKept ==
  ASSUME AliasesOK, NEW t \in Texts, NEW n \in Nat, n < Len(t), NEW s \in ScanStates, NEW r \in ScanStates,
         OneMore(t, n, s, r), NEW j \in 1 .. Len(s.param), OpenSpelt(t, n, s, j),
         QuoteKept(s, t[n + 1], r) \/ QuotedKept(s, t[n + 1], r) \/ PieceKept(s, t[n + 1], r)
  PROVE  /\ j \in 1 .. Len(r.param) /\ OpenSpelt(t, n + 1, r, j)
         /\ Append(SpeltOut(s.param, j), t[n + 1]) = SpeltOut(r.param, j)
<1> DEFINE c == t[n + 1]
           p == s.param
           q == Append(p, c)
<1>1. c \in Words /\ p \in Texts /\ Len(p) \in Nat
  BY DEF OneMore, ScanStates, Texts
<1>2. r.toks = s.toks /\ r.param = q
  BY DEF QuoteKept, QuotedKept, PieceKept, Keeps
<1>3. ~ AfterFile(r) /\ Alone(p, j) /\ p[j] \in DOMAIN alias_s
  BY <1>2 DEF AfterFile, OpenSpelt, Alone, Named
<1>4. Len(q) = Len(p) + 1 /\ (\A i \in 1 .. Len(p) : q[i] = p[i]) /\ q[Len(p) + 1] = c
  BY <1>1
<1>5. j = Len(p) => c = Blank
  <2> SUFFICES ASSUME j = Len(p) PROVE c = Blank
    OBVIOUS
  <2>1. s.q_st = FALSE /\ At(t, n + 1) \in Breaks
    BY DEF OpenSpelt, p
  <2>2. At(t, n + 1) = c
    <3>1. n + 1 \in DOMAIN t
      BY DEF Texts
    <3> QED
      BY <3>1 DEF At
  <2>3. PieceKept(s, c, r)
    BY <2>1, <2>2, BreaksAre DEF QuoteKept, QuotedKept
  <2>4. c \notin Operators
    <3> SUFFICES ASSUME c \in Operators PROVE FALSE
      OBVIOUS
    <3>1. s.char_count = 0
      BY <2>3 DEF PieceKept
    <3>2. p = <<>>
      BY <3>1 DEF OneMore, ToldSoFar
    <3> QED
      BY <3>2
  <2> QED
    BY <2>1, <2>2, <2>4, BreaksAre
<1> HIDE DEF p, q, c
<1>6. j \in 1 .. Len(p)
  BY DEF p
<1>7. j \in 1 .. Len(q) /\ j # Len(q) /\ q[j] = p[j]
  BY <1>1, <1>4, <1>6
<1>8. Alone(q, j)
  <2>1. q[j + 1] = Blank
    <3>1. CASE j = Len(p)
      BY <1>4, <1>5, <3>1
    <3>2. CASE j # Len(p)
      <4>1. j < Len(p) /\ j + 1 \in 1 .. Len(p)
        BY <1>1, <1>6, <3>2
      <4> QED
        BY <1>3, <1>4, <4>1 DEF Alone
    <3> QED
      BY <3>1, <3>2
  <2>2. \A i \in 1 .. j - 1 : q[i] = Blank
    BY <1>1, <1>3, <1>4, <1>6 DEF Alone, Named
  <2> QED
    BY <1>3, <1>7, <2>1, <2>2 DEF Alone, Named
<1>9. Append(SpeltOut(p, j), c) = SpeltOut(q, j)
  <2>1. alias_s[p[j]] \in Texts
    BY <1>3, ValueIs
  <2>2. Replaced(q, j, alias_s[p[j]]) = Append(Replaced(p, j, alias_s[p[j]]), c)
    BY <1>1, <1>6, <2>1, ReplacedMore DEF q
  <2> QED
    BY <1>7, <2>2 DEF SpeltOut
<1> QED
  BY <1>2, <1>3, <1>7, <1>8, <1>9 DEF OpenSpelt, p, c

-----------------------------------------------------------------------------
(* The two scans stay alike at such a piece.                               *)

\* The last piece is the same, unless it is the alias.
LEMMA LastSpelt ==
  ASSUME AliasesOK, NEW p \in Texts, NEW j \in 1 .. Len(p), Alone(p, j)
  PROVE  /\ SpeltOut(p, j) \in Texts /\ SpeltOut(p, j) # <<>>
         /\ j < Len(p) => Last(SpeltOut(p, j)) = Last(p)
<1> DEFINE v == alias_s[p[j]]
           y == Replaced(p, j, v)
<1>1. v \in Texts /\ Len(v) \in Nat \ {0}
  BY ValueIs DEF Alone, Named
<1> HIDE DEF v
<1>2. /\ y \in Texts /\ Len(y) = Len(p) + Len(v) - 1 /\ Len(p) \in Nat
      /\ \A i \in j + 1 .. Len(p) : y[i + Len(v) - 1] = p[i]
  BY <1>1, ReplacedPieces
<1> HIDE DEF y
<1>3. Len(y) \in Nat \ {0} /\ y # <<>>
  <2>1. Len(y) \in Nat \ {0}
    BY <1>1, <1>2
  <2> QED BY <2>1
<1>4. ASSUME j < Len(p) PROVE Last(y) = Last(p)
  <2>1. Len(p) \in j + 1 .. Len(p)
    BY <1>2, <1>4
  <2>2. y[Len(y)] = p[Len(p)]
    BY <1>2, <2>1
  <2>3. p # <<>>
    BY <1>2, <1>4
  <2> QED
    BY <2>2 DEF Last
<1> QED
  BY <1>2, <1>3, <1>4 DEF SpeltOut, y, v

\* Both scans see the same keywords end.
LEMMA AlikeEnds ==
  ASSUME AliasesOK, NEW t, NEW n, NEW s \in ScanStates, NEW u \in ScanStates, Alike(t, n, s, u), NEW c \in Words
  PROVE  \A k \in 1 .. 4 : EndsWith(Append(s.param, c), Pattern[k]) <=> EndsWith(Append(u.param, c), Pattern[k])
<1> SUFFICES ASSUME NEW k \in 1 .. 4
             PROVE  EndsWith(Append(s.param, c), Pattern[k]) <=> EndsWith(Append(u.param, c), Pattern[k])
  OBVIOUS
<1>1. CASE u.param = s.param
  BY <1>1
<1>2. ASSUME NEW j \in 1 .. Len(s.param), OpenSpelt(t, n, s, j), u.param = SpeltOut(s.param, j)
      PROVE  EndsWith(Append(s.param, c), Pattern[k]) <=> EndsWith(Append(u.param, c), Pattern[k])
  <2>1. s.param \in Texts /\ Alone(s.param, j)
    BY <1>2 DEF ScanStates, OpenSpelt
  <2> QED
    BY <1>2, <2>1, EndsSame
<1> QED
  BY <1>1, <1>2 DEF Alike

\* Both take the same course.
LEMMA AlikeCourse ==
  ASSUME AliasesOK, NEW t \in Texts, NEW n \in Nat, NEW s \in ScanStates, NEW u \in ScanStates, Alike(t, n, s, u),
         OneMore(t, n, s, Scan(s, t[n + 1]))
  PROVE  BothTake(s, u, t[n + 1], Scan(s, t[n + 1]), Scan(u, t[n + 1]))
<1> DEFINE c == t[n + 1]
<1>1. c \in Words /\ Scanned(s, c, Scan(s, c)) /\ (c \in Keywords => s.q_st = FALSE)
      /\ (s.q_st = TRUE => s.param # <<>> /\ Last(s.param) \notin Keywords)
  BY DEF OneMore, Place, ToldSoFar
<1>2. u.q_st = s.q_st /\ NoHit(u.param) /\ SameFlags(s, u)
  BY DEF Alike, SameFlags
<1>3. s.q_st = TRUE => u.param # <<>> /\ Last(u.param) \notin Keywords
  <2> SUFFICES ASSUME s.q_st = TRUE PROVE u.param # <<>> /\ Last(u.param) \notin Keywords
    OBVIOUS
  <2>1. CASE u.param = s.param
    BY <1>1, <2>1
  <2>2. ASSUME NEW j \in 1 .. Len(s.param), OpenSpelt(t, n, s, j), u.param = SpeltOut(s.param, j)
        PROVE  u.param # <<>> /\ Last(u.param) \notin Keywords
    <3>1. s.param \in Texts /\ Alone(s.param, j) /\ j # Len(s.param)
      BY <2>2 DEF ScanStates, OpenSpelt
    <3>2. j < Len(s.param)
      BY <3>1 DEF Texts
    <3>3. u.param # <<>> /\ Last(u.param) = Last(s.param)
      BY <2>2, <3>1, <3>2, LastSpelt
    <3> QED
      BY <1>1, <3>3
  <2> QED
    BY <2>1, <2>2 DEF Alike
<1> HIDE DEF c
<1>4. u.q_st = TRUE => c \notin Keywords /\ u.param # <<>> /\ Last(u.param) \notin Keywords
  BY <1>1, <1>2, <1>3
<1>5. Scanned(u, c, Scan(u, c))
  BY <1>1, <1>2, <1>4, ScanSays DEF Scanned
<1>6. \A k \in 1 .. 4 : EndsWith(Append(s.param, c), Pattern[k]) <=> EndsWith(Append(u.param, c), Pattern[k])
  BY <1>1, AlikeEnds
<1>7. BothTake(s, u, c, Scan(s, c), Scan(u, c))
  <2> DEFINE r == Scan(s, c)
             q == Scan(u, c)
  <2>1. Scanned(s, c, r) /\ Scanned(u, c, q)
    BY <1>1, <1>5
  <2> HIDE DEF r, q
  <2>2. BothTake(s, u, c, r, q)
    BY <1>1, <1>2, <1>6, <2>1, SameCourse
  <2> QED
    BY <2>2 DEF r, q
<1> QED
  BY <1>7 DEF c

\* What is cut off before a keyword means the same in both.
LEMMA CutMeans ==
  ASSUME AliasesOK, NEW t \in Texts, NEW n \in Nat, n < Len(t), NEW s \in ScanStates, NEW u \in ScanStates,
         Alike(t, n, s, u), NEW k \in 1 .. 4, NEW r, KeywordCuts(s, t[n + 1], r, k)
  PROVE  LET c == t[n + 1]
             p == Append(s.param, c)
             w == Append(u.param, c)
             m == Len(p) - Len(Pattern[k])
             o == Len(w) - Len(Pattern[k])
         IN  /\ m > 0 <=> o > 0
             /\ m > 0 => cleanCmd(SubSeq(w, 1, o)) = TokenMeans(s.toks, SubSeq(p, 1, m))
<1> DEFINE c == t[n + 1]
           p == Append(s.param, c)
           w == Append(u.param, c)
           l == Len(Pattern[k])
           m == Len(p) - l
           o == Len(w) - l
           g == SubSeq(p, 1, m)
           h == SubSeq(w, 1, o)
<1> SUFFICES (m > 0 <=> o > 0) /\ (m > 0 => cleanCmd(h) = TokenMeans(s.toks, g))
  OBVIOUS
<1>1. c \in Words /\ s.param \in Texts /\ u.param \in Texts /\ Len(s.param) \in Nat
  BY DEF Texts, ScanStates
<1>2. EndsWith(p, Pattern[k])
  BY DEF KeywordCuts
<1>3. c = (IF k = 4 THEN "fi" ELSE Blank) /\ Last(s.param) = (IF k = 4 THEN Blank ELSE Found[k]) /\ s.param # <<>>
  <2>1. KeywordCuts(s, c, r, k)
    OBVIOUS
  <2> HIDE DEF c
  <2>2. /\ s.q_st = FALSE /\ r.q_st = FALSE /\ r.param = <<>> /\ r.char_count # 0
        /\ r.space_encountered = (c = Blank) /\ ~ (c = Blank /\ s.space_encountered)
        /\ s.param # <<>> /\ c = (IF k = 4 THEN "fi" ELSE Blank)
        /\ Last(s.param) = (IF k = 4 THEN Blank ELSE Found[k])
    BY <1>1, <2>1, CutsAre, Zenon
  <2> QED
    BY <2>2, Zenon
<1>4. ASSUME NEW j \in 1 .. Len(s.param), OpenSpelt(t, n, s, j), u.param = SpeltOut(s.param, j)
      PROVE  m > 0 /\ o > 0 /\ cleanCmd(h) = TokenMeans(s.toks, g)
  <2>1. ~ FileNext(s.toks) /\ Alone(s.param, j)
    BY <1>4 DEF OpenSpelt, AfterFile
  <2>2. /\ m > 0 /\ o > 0 /\ g \in Texts /\ j \in 1 .. Len(g) /\ Alone(g, j) /\ h = SpeltOut(g, j)
    <3> DEFINE x == s.param
               z == Append(SpeltOut(x, j), c)
               b == SubSeq(p, 1, Len(p) - Len(Pattern[k]))
    <3>1. w = z /\ p = Append(x, c) /\ x \in Texts /\ j \in 1 .. Len(x) /\ Alone(x, j) /\ EndsWith(Append(x, c), Pattern[k])
      BY <1>1, <1>2, <1>4, <2>1
    <3> HIDE DEF c, x
    <3>2. LET q == Append(x, c)
              y == Append(SpeltOut(x, j), c)
              a == Len(q) - Len(Pattern[k])
              e == Len(y) - Len(Pattern[k])
              f == SubSeq(q, 1, a)
          IN  /\ a > 0 /\ e > 0 /\ f \in Texts /\ j \in 1 .. Len(f) /\ Alone(f, j)
              /\ SubSeq(y, 1, e) = SpeltOut(f, j)
      BY <1>1, <3>1, CutSame
    <3> QED BY <3>1, <3>2
  <2> HIDE DEF m, o, g, h
  <2>3. cleanCmd(SpeltOut(g, j)) = Substituted(cleanCmd(g))
    BY <2>2, SpeltClean
  <2> QED
    BY <2>1, <2>2, <2>3 DEF TokenMeans
<1>5. CASE u.param = s.param /\ OpenSame(t, n, s)
  <2>1. h = g /\ m = o
    BY <1>5
  <2>2. ~ MayGrow(t, n, s)
    <3> SUFFICES ASSUME MayGrow(t, n, s) PROVE FALSE
      OBVIOUS
    <3>1. s.param[Len(s.param)] \in DOMAIN alias_s /\ At(t, n + 1) \notin Breaks
      BY DEF MayGrow, Named
    <3>2. At(t, n + 1) = c
      <4>1. n + 1 \in DOMAIN t
        BY DEF Texts
      <4> QED
        BY <4>1 DEF At
    <3>3. k = 4
      BY <1>3, <3>1, <3>2, BreaksAre
    <3>4. s.param[Len(s.param)] = Blank
      BY <1>3, <3>3 DEF Last
    <3> QED
      BY <3>1, <3>4, NameIs
  <2>3. CASE AfterFile(s)
    BY <2>1, <2>3 DEF TokenMeans, AfterFile
  <2>4. ASSUME \A j \in 1 .. Len(s.param) : ~ MayBe(s.param, j), m > 0 PROVE cleanCmd(h) = TokenMeans(s.toks, g)
    <3>1. p \in Texts /\ Len(p) = Len(s.param) + 1 /\ \A i \in 1 .. Len(s.param) : p[i] = s.param[i]
      BY <1>1 DEF Texts
    <3>2. Pattern[k] \in Texts /\ l \in Nat /\ l >= 2
      BY PatternPieces
    <3> HIDE DEF p, l
    <3>3. m \in 1 .. Len(s.param) - 1 /\ m \in 1 .. Len(p) /\ m + 1 \in 1 .. Len(s.param)
      BY <1>1, <2>4, <3>1, <3>2
    <3>4. g \in Texts /\ Len(g) = m /\ \A i \in 1 .. m : g[i] = s.param[i]
      <4> HIDE DEF m
      <4>1. g \in Texts /\ Len(g) = m /\ \A i \in 1 .. m : g[i] = p[i]
        BY <3>1, <3>3, FirstPart
      <4>2. \A i \in 1 .. m : i \in 1 .. Len(s.param)
        BY <3>3
      <4> HIDE DEF g
      <4> QED BY <3>1, <4>1, <4>2
    <3>5. p[m + 1] \in {Blank, "if"}
      <4>1. Len(Pattern[k]) = l /\ Len(Pattern[k]) \in Nat \ {0}
        BY <3>2 DEF l
      <4>0. EndsWith(p, Pattern[k])
        BY <1>2 DEF p
      <4>2. \A i \in 1 .. l : p[Len(p) - l + i] = Pattern[k][i]
        <5> DEFINE y == Pattern[k]
        <5>1. EndsWith(p, y) /\ Len(y) \in Nat \ {0} /\ Len(y) = l
          BY <4>0, <4>1
        <5> HIDE DEF y
        <5>2. \A i \in 1 .. Len(y) : p[Len(p) - Len(y) + i] = y[i]
          BY <3>1, <5>1, EndOf
        <5> QED
          BY <5>1, <5>2 DEF y
      <4>3. 1 \in 1 .. l /\ Len(p) - l + 1 = m + 1
        BY <3>2
      <4>4. p[m + 1] = Pattern[k][1]
        BY <4>2, <4>3
      <4>5. Pattern[k][1] \in {Blank, "if"}
        <5>1. k = 1 \/ k = 2 \/ k = 3 \/ k = 4
          OBVIOUS
        <5> QED
          BY <5>1, PatternIs
      <4> QED
        BY <4>4, <4>5
    <3> HIDE DEF g, m
    <3>6. ASSUME NEW j \in 1 .. Len(g), Alone(g, j) PROVE FALSE
      <4>1. j \in 1 .. Len(s.param) /\ j \in 1 .. m /\ j < Len(s.param)
        BY <3>3, <3>4
      <4>2. Named(s.param, j)
        BY <3>3, <3>4, <3>6, <4>1 DEF Alone, Named
      <4>3. s.param[j + 1] \in {Blank, "if"}
        <5>1. CASE j = m
          BY <3>1, <3>3, <3>5, <5>1
        <5>2. CASE j # m
          <6>1. j < Len(g) /\ j + 1 \in 1 .. m
            BY <3>3, <3>4, <4>1, <5>2
          <6> QED
            BY <3>4, <3>6, <6>1 DEF Alone
        <5> QED
          BY <5>1, <5>2
      <4> QED
        BY <2>4, <4>1, <4>2, <4>3 DEF MayBe
    <3>7. Substituted(cleanCmd(g)) = cleanCmd(g)
      BY <3>4, <3>6, NotNamed
    <3> QED
      BY <2>1, <3>7 DEF TokenMeans
  <2> HIDE DEF m, o, g, h
  <2> QED
    BY <1>5, <2>1, <2>2, <2>3, <2>4 DEF OpenSame
<1> HIDE DEF m, o, g, h
<1> QED
  BY <1>4, <1>5 DEF Alike

\* The part of Alike that is about the tokens.
AlikeTokens(t, n, s, u) ==
  /\ NoHit(u.param) /\ Cleaned(u.toks) = Meant(Cleaned(s.toks))
  /\ \/ u.param = s.param /\ OpenSame(t, n, s)
     \/ \E j \in 1 .. Len(s.param) : OpenSpelt(t, n, s, j) /\ u.param = SpeltOut(s.param, j)

\* Nothing is being filled.
LEMMA NothingOpen ==
  ASSUME NEW t, NEW n, NEW s, NEW u, s.param = <<>>, u.param = <<>>, Cleaned(u.toks) = Meant(Cleaned(s.toks))
  PROVE  AlikeTokens(t, n, s, u)
<1>1. \A j \in 1 .. Len(s.param) : ~ MayBe(s.param, j)
  <2>1. Len(s.param) = 0
    OBVIOUS
  <2> QED
    BY <2>1
<1>2. OpenSame(t, n, s)
  BY <1>1 DEF OpenSame
<1> QED
  BY <1>2, NothingHits DEF AlikeTokens

\* A piece that is kept in both.
LEMMA AlikeKept ==
  ASSUME AliasesOK, NEW t \in Texts, Plain(t), NEW n \in Nat, n < Len(t), NEW s \in ScanStates, NEW u \in ScanStates,
         NEW r \in ScanStates, NEW q \in ScanStates, OneMore(t, n, s, r), AtStart(t, n, s), ~ Stands(t, n + 1), Alike(t, n, s, u),
         QuoteKept(s, t[n + 1], r) \/ QuotedKept(s, t[n + 1], r) \/ PieceKept(s, t[n + 1], r),
         QuoteKept(u, t[n + 1], q) \/ QuotedKept(u, t[n + 1], q) \/ PieceKept(u, t[n + 1], q)
  PROVE  AlikeTokens(t, n + 1, r, q)
<1> DEFINE c == t[n + 1]
<1>1. r.toks = s.toks /\ r.param = Append(s.param, c)
  BY DEF QuoteKept, QuotedKept, PieceKept, Keeps
<1>2. q.toks = u.toks /\ q.param = Append(u.param, c) /\ NoHit(q.param)
  BY DEF QuoteKept, QuotedKept, PieceKept, Keeps
<1>3. Cleaned(q.toks) = Meant(Cleaned(r.toks))
  BY <1>1, <1>2 DEF Alike
<1>4. CASE u.param = s.param /\ OpenSame(t, n, s)
  <2>1. OpenSame(t, n + 1, r)
    BY <1>4, SameKept
  <2> QED
    BY <1>1, <1>2, <1>3, <1>4, <2>1 DEF AlikeTokens
<1>5. ASSUME NEW j \in 1 .. Len(s.param), OpenSpelt(t, n, s, j), u.param = SpeltOut(s.param, j)
      PROVE  AlikeTokens(t, n + 1, r, q)
  <2>1. j \in 1 .. Len(r.param) /\ OpenSpelt(t, n + 1, r, j) /\ Append(SpeltOut(s.param, j), c) = SpeltOut(r.param, j)
    BY <1>5, SpeltKept
  <2>2. q.param = SpeltOut(r.param, j)
    BY <1>2, <1>5, <2>1
  <2> QED
    BY <1>2, <1>3, <2>1, <2>2 DEF AlikeTokens
<1> QED
  BY <1>4, <1>5 DEF Alike

\* An operator that cuts both.
LEMMA AlikeAtOperator ==
  ASSUME AliasesOK, NEW t \in Texts, NEW n \in Nat, n < Len(t), NEW s \in ScanStates, NEW u \in ScanStates,
         NEW r \in ScanStates, NEW q \in ScanStates, Alike(t, n, s, u),
         OperatorCuts(s, t[n + 1], r), OperatorCuts(u, t[n + 1], q)
  PROVE  AlikeTokens(t, n + 1, r, q)
<1> DEFINE c == t[n + 1]
<1>1. c \in Words /\ c \in Operators \cup Keywords /\ At(t, n + 1) \in Breaks
  <2>1. n + 1 \in DOMAIN t /\ c \in Words /\ c \in Operators
    BY DEF Texts, OperatorCuts
  <2> QED
    BY <2>1 DEF At, Breaks
<1>2. /\ r.toks = Append(Append(s.toks, s.param), <<c>>) /\ r.param = <<>>
      /\ q.toks = Append(Append(u.toks, u.param), <<c>>) /\ q.param = <<>>
  BY DEF OperatorCuts
<1>3. s.toks \in Seq(Texts) /\ u.toks \in Seq(Texts) /\ s.param \in Texts /\ u.param \in Texts
  BY DEF ScanStates
<1>4. cleanCmd(u.param) = TokenMeans(s.toks, s.param)
  BY <1>1, OpenMeans
<1>5. Cleaned(u.toks) = Meant(Cleaned(s.toks))
  BY DEF Alike
<1>6. /\ Append(s.toks, s.param) \in Seq(Texts) /\ Append(u.toks, u.param) \in Seq(Texts)
      /\ Cleaned(Append(u.toks, u.param)) = Meant(Cleaned(Append(s.toks, s.param)))
  BY <1>3, <1>4, <1>5, TokenMore
<1>7. Cleaned(q.toks) = Meant(Cleaned(r.toks))
  <2> HIDE DEF c
  <2>1. Cleaned(Append(Append(u.toks, u.param), <<c>>)) = Meant(Cleaned(Append(Append(s.toks, s.param), <<c>>)))
    BY <1>1, <1>6, MarkMore
  <2> QED
    BY <1>2, <2>1
<1> QED
  BY <1>2, <1>7, NothingOpen

\* A blank that is dropped in both.
LEMMA AlikeDropped ==
  ASSUME AliasesOK, NEW t \in Texts, NEW n \in Nat, n < Len(t), NEW s \in ScanStates, NEW u \in ScanStates,
         NEW r, NEW q, OneMore(t, n, s, r), Alike(t, n, s, u),
         BlankDropped(s, t[n + 1], r), BlankDropped(u, t[n + 1], q)
  PROVE  AlikeTokens(t, n + 1, r, q)
<1>1. r = s /\ q = u /\ t[n + 1] = Blank /\ BlankDropped(s, t[n + 1], s) /\ s.q_st = FALSE
  BY DEF BlankDropped
<1>2. /\ n > 0 /\ (t[n] = Blank \/ (s.param = <<>> /\ t[n] \in Operators)) /\ Place(t, n, s) /\ SpaceSoFar(t, s, n)
  BY <1>1, SpaceDropped DEF OneMore
<1>3. At(t, n + 1) = Blank
  <2>1. n + 1 \in DOMAIN t
    BY DEF Texts
  <2> QED
    BY <1>1, <2>1 DEF At
<1>4. NoHit(u.param) /\ Cleaned(u.toks) = Meant(Cleaned(s.toks))
  BY DEF Alike
<1>5. CASE u.param = s.param /\ OpenSame(t, n, s)
  <2>1. ~ MayGrow(t, n, s)
    BY <1>3, BreaksAre DEF MayGrow
  <2>2. OpenSame(t, n + 1, s)
    BY <1>5, <2>1 DEF OpenSame
  <2> QED
    BY <1>1, <1>4, <1>5, <2>2 DEF AlikeTokens
<1>6. ASSUME NEW j \in 1 .. Len(s.param), OpenSpelt(t, n, s, j), u.param = SpeltOut(s.param, j)
      PROVE  AlikeTokens(t, n + 1, r, q)
  <2>1. ~ AfterFile(s) /\ Alone(s.param, j) /\ s.param # <<>>
    BY <1>6 DEF OpenSpelt
  <2>2. n \notin Quoted(t) /\ t[n] = Blank
    BY <1>1, <1>2, <2>1 DEF Place
  <2>3. EndsIn(s.param, {Blank})
    BY <1>2, <2>1, <2>2 DEF SpaceSoFar, BlankKept
  <2>4. j # Len(s.param)
    BY <2>1, <2>3, NameIs DEF EndsIn, Last, Alone, Named
  <2>5. OpenSpelt(t, n + 1, s, j)
    BY <2>1, <2>4 DEF OpenSpelt
  <2> QED
    BY <1>1, <1>4, <1>6, <2>5 DEF AlikeTokens
<1> QED
  BY <1>5, <1>6 DEF Alike

\* A keyword that cuts both.
LEMMA AlikeAtKeyword ==
  ASSUME AliasesOK, NEW t \in Texts, NEW n \in Nat, n < Len(t), NEW s \in ScanStates, NEW u \in ScanStates,
         NEW r \in ScanStates, NEW q \in ScanStates, Alike(t, n, s, u), NEW k \in 1 .. 4,
         KeywordCuts(s, t[n + 1], r, k), KeywordCuts(u, t[n + 1], q, k)
  PROVE  AlikeTokens(t, n + 1, r, q)
<1> DEFINE c == t[n + 1]
           p == Append(s.param, c)
           w == Append(u.param, c)
           m == Len(p) - Len(Pattern[k])
           o == Len(w) - Len(Pattern[k])
           g == SubSeq(p, 1, m)
           h == SubSeq(w, 1, o)
           a == IF m > 0 THEN Append(s.toks, g) ELSE s.toks
           b == IF o > 0 THEN Append(u.toks, h) ELSE u.toks
           f == Found[k]
<1>1. r.toks = Append(a, <<f>>) /\ r.param = <<>> /\ EndsWith(p, Pattern[k])
  BY DEF KeywordCuts
<1>2. q.toks = Append(b, <<f>>) /\ q.param = <<>> /\ EndsWith(w, Pattern[k])
  BY DEF KeywordCuts
<1>3. s.toks \in Seq(Texts) /\ u.toks \in Seq(Texts) /\ p \in Texts /\ w \in Texts
  BY DEF ScanStates, Texts
<1>4. (m > 0 <=> o > 0) /\ (m > 0 => cleanCmd(h) = TokenMeans(s.toks, g))
  BY CutMeans
<1>5. f \in Words /\ f \in Operators \cup Keywords
  BY FoundIs DEF Words
<1>6. g \in Texts /\ h \in Texts
  <2> HIDE DEF p, w
  <2>3. Len(Pattern[k]) \in Nat
    BY PatternPieces
  <2>1. Len(p) \in Nat /\ Len(w) \in Nat /\ Len(Pattern[k]) \in Nat
    BY <1>3, <2>3 DEF Texts
  <2>2. m \in 0 .. Len(p) /\ o \in 0 .. Len(w)
    BY <1>1, <1>2, <2>1 DEF EndsWith
  <2> HIDE DEF m, o
  <2> QED
    BY <1>3, <2>2 DEF Texts
<1>7. Cleaned(u.toks) = Meant(Cleaned(s.toks))
  BY DEF Alike
<1> HIDE DEF g, h, m, o, f
<1>8. a \in Seq(Texts) /\ b \in Seq(Texts) /\ Cleaned(b) = Meant(Cleaned(a))
  BY <1>3, <1>4, <1>6, <1>7, TokenMore
<1> HIDE DEF a, b
<1>9. Cleaned(Append(b, <<f>>)) = Meant(Cleaned(Append(a, <<f>>)))
  BY <1>5, <1>8, MarkMore
<1>10. Cleaned(q.toks) = Meant(Cleaned(r.toks))
  BY <1>1, <1>2, <1>9
<1> QED
  BY <1>1, <1>2, <1>10, NothingOpen

\* A piece that is no alias to be spelled out keeps the two scans alike.
LEMMA AlikeStep ==
  ASSUME AliasesOK, NEW t \in Texts, Plain(t), NEW n \in Nat, n < Len(t), NEW s \in ScanStates, NEW u \in ScanStates,
         OneMore(t, n, s, Scan(s, t[n + 1])), AtStart(t, n, s), ~ Stands(t, n + 1), Alike(t, n, s, u)
  PROVE  Alike(t, n + 1, Scan(s, t[n + 1]), Scan(u, t[n + 1]))
<1> DEFINE c == t[n + 1]
           r == Scan(s, c)
           q == Scan(u, c)
<1>1. c \in Words
  BY DEF OneMore
<1>2. BothTake(s, u, c, r, q)
  BY AlikeCourse
<1>3. SameFlags(r, q)
  <2>1. SameFlags(s, u)
    BY DEF Alike, SameFlags
  <2> HIDE DEF c
  <2> QED
    BY <1>1, <1>2, <2>1, FlagsStaySame
<1>4. r \in ScanStates /\ q \in ScanStates
  <2> HIDE DEF c
  <2> QED BY <1>1, ScanTyped
<1>5. OneMore(t, n, s, r)
  OBVIOUS
<1> HIDE DEF r, q
<1>6. AlikeTokens(t, n + 1, r, q)
  <2>1. CASE \/ QuoteKept(s, c, r) /\ QuoteKept(u, c, q)
             \/ QuotedKept(s, c, r) /\ QuotedKept(u, c, q)
             \/ PieceKept(s, c, r) /\ PieceKept(u, c, q)
    BY <1>4, <1>5, <2>1, AlikeKept
  <2>2. CASE OperatorCuts(s, c, r) /\ OperatorCuts(u, c, q)
    BY <1>4, <2>2, AlikeAtOperator
  <2>3. CASE BlankDropped(s, c, r) /\ BlankDropped(u, c, q)
    BY <1>5, <2>3, AlikeDropped
  <2>4. ASSUME NEW k \in 1 .. 4, KeywordCuts(s, c, r, k), KeywordCuts(u, c, q, k) PROVE AlikeTokens(t, n + 1, r, q)
    BY <1>4, <2>4, AlikeAtKeyword
  <2> QED
    BY <1>2, <2>1, <2>2, <2>3, <2>4 DEF BothTake
<1>7. Alike(t, n + 1, r, q)
  BY <1>3, <1>6 DEF Alike, AlikeTokens
<1> QED
  BY <1>7 DEF r, q

-----------------------------------------------------------------------------
(* An alias that is spelled out.                                           *)

\* It is the first word of what is being filled.
LEMMA StandsFirst ==
  ASSUME AliasesOK, NEW t \in Texts, NEW n \in Nat, n < Len(t), NEW s \in ScanStates, Place(t, n, s),
         AtStart(t, n, s), Inside(t, n, s), Stands(t, n + 1)
  PROVE  /\ s.q_st = FALSE /\ Blanks(s.param) /\ ~ AfterFile(s) /\ At(t, (n + 1) + 1) \in Breaks
         /\ t[n + 1] \in DOMAIN alias_s
<1> DEFINE c == t[n + 1]
           P == Previous(t, n + 1)
<1>1. /\ c \in DOMAIN alias_s /\ n + 1 \notin Quoted(t) /\ At(t, (n + 1) - 1) \in Breaks /\ At(t, (n + 1) + 1) \in Breaks
      /\ P \in {"&", "|", Blank} \cup Keywords
  BY Zenon DEF Stands, Breaks
<1>2. c # Quote
  BY <1>1, NameIs
<1>3. s.q_st = FALSE
  <2>1. s.q_st \in BOOLEAN
    BY DEF ScanStates
  <2> QED
    BY <1>1, <1>2, <2>1 DEF Place
<1>4. Blanks(s.param)
  <2> SUFFICES ASSUME ~ Blanks(s.param) PROVE FALSE
    OBVIOUS
  <2>1. P \notin Breaks /\ (P \in Keywords => n > 0 /\ t[n] \in Closing)
    BY <1>3 DEF Inside
  <2>2. "&" \in Breaks /\ "|" \in Breaks /\ Blank \in Breaks
    BY DEF Breaks, Operators
  <2>3. n > 0 /\ t[n] \in Closing
    BY <1>1, <2>1, <2>2
  <2>4. At(t, (n + 1) - 1) = t[n]
    BY <2>3 DEF At, Texts
  <2> QED
    BY <1>1, <2>3, <2>4, BreaksAre, DifferentPieces
<1>5. ~ AfterFile(s)
  <2>1. AfterFile(s) <=> P = ">"
    BY <1>4 DEF AtStart
  <2>2. P # ">"
    BY <1>1 DEF Blank, Keywords
  <2> QED
    BY <2>1, <2>2
<1> QED
  BY <1>1, <1>3, <1>4, <1>5

\* The token that begins with it.
LEMMA SpeltFirst ==
  ASSUME AliasesOK, NEW p \in Texts, Blanks(p), NEW c \in Words, c \in DOMAIN alias_s
  PROVE  LET x == Append(p, c)
             j == Len(p) + 1
         IN  /\ j \in 1 .. Len(x) /\ j = Len(x) /\ Alone(x, j) /\ SpeltOut(x, j) = p \o alias_s[c]
<1> DEFINE x == Append(p, c)
           j == Len(p) + 1
           v == alias_s[c]
<1>1. p \in Seq(Words) /\ Len(p) \in Nat /\ x \in Seq(Words) /\ x \in Texts /\ Len(x) = j /\ j \in 1 .. j /\ x[j] = c
  BY DEF Texts
<1>2. \A i \in 1 .. Len(p) : x[i] = p[i]
  BY <1>1
<1>3. v \in Seq(Words)
  BY ValueIs DEF Texts
<1>4. Named(x, j)
  <2>1. \A i \in 1 .. j - 1 : x[i] = Blank
    BY <1>1, <1>2 DEF Blanks
  <2> HIDE DEF x, j
  <2> QED BY <1>1, <2>1 DEF Named
<1>5. Alone(x, j)
  BY <1>1, <1>4 DEF Alone
<1>6. SubSeq(x, 1, j - 1) = p
  <2>1. SubSeq(x, 1, Len(p)) = SubSeq(p, 1, Len(p))
    <3>1. Len(p) \in 0 .. Len(p)
      BY <1>1
    <3> QED
      BY <3>1, PartOfMore
  <2>2. SubSeq(p, 1, Len(p)) = p
    BY <1>1
  <2>3. j - 1 = Len(p)
    BY <1>1
  <2> QED
    BY <2>1, <2>2, <2>3
<1>7. SubSeq(x, j + 1, Len(x)) = <<>>
  <2>1. j + 1 > Len(x) /\ j \in Nat
    BY <1>1
  <2> HIDE DEF x, j
  <2> QED BY <1>1, <2>1
<1>8. SpeltOut(x, j) = (p \o v) \o <<>>
  <2> HIDE DEF j
  <2> HIDE DEF x
  <2> QED BY <1>1, <1>6, <1>7 DEF SpeltOut, Replaced
<1>9. (p \o v) \o <<>> = p \o v
  <2> DEFINE y == p \o v
  <2>1. y \in Seq(Words)
    BY <1>1, <1>3
  <2> HIDE DEF y
  <2> QED BY <2>1
<1> QED
  BY <1>1, <1>5, <1>8, <1>9

\* Its value is scanned as it is, and the two scans stay alike.
LEMMA AlikeAtAlias ==
  ASSUME AliasesOK, NEW t \in Texts, NEW n \in Nat, n < Len(t), NEW s \in ScanStates, NEW u \in ScanStates,
         OneMore(t, n, s, Scan(s, t[n + 1])), AtStart(t, n, s), Inside(t, n, s), Stands(t, n + 1), Alike(t, n, s, u),
         NEW z \in Texts, AfterScan(z, u)
  PROVE  \E q \in ScanStates : AfterScan(z \o alias_s[t[n + 1]], q) /\ Alike(t, n + 1, Scan(s, t[n + 1]), q)
<1> DEFINE c == t[n + 1]
           p == s.param
           r == Scan(s, c)
           v == alias_s[c]
           j == Len(p) + 1
<1>1. c \in Words /\ Place(t, n, s)
  BY DEF OneMore
<1>2. s.q_st = FALSE /\ Blanks(p) /\ ~ AfterFile(s) /\ At(t, (n + 1) + 1) \in Breaks /\ c \in DOMAIN alias_s
  BY <1>1, StandsFirst
<1>3. p \in Texts
  BY DEF ScanStates
<1>4. SameFlags(s, u) /\ NoHit(u.param) /\ Cleaned(u.toks) = Meant(Cleaned(s.toks))
  BY DEF Alike
<1>5. u.param = p
  <2> SUFFICES ASSUME NEW i \in 1 .. Len(p), OpenSpelt(t, n, s, i) PROVE FALSE
    BY DEF Alike
  <2>1. p[i] \in DOMAIN alias_s /\ p[i] = Blank
    BY <1>2 DEF OpenSpelt, Alone, Named, Blanks
  <2> QED
    BY <2>1, NameIs
<1>6. c \notin Special /\ c # Blank /\ v \in Texts /\ IsWords(v)
  BY <1>2, ValueIs
<1>7. PieceKept(s, c, r) /\ r \in ScanStates
  <2> HIDE DEF c
  <2> QED BY <1>1, <1>2, <1>4, <1>5, <1>6, WordKept, ScanTyped
<1>8. u.q_st = FALSE
  BY <1>2, <1>4 DEF SameFlags
<1>9. PICK q \in ScanStates : /\ AfterScan(z \o v, q) /\ q.toks = u.toks /\ q.param = u.param \o v
                              /\ q.q_st = FALSE /\ NoHit(q.param) /\ q.space_encountered = FALSE /\ q.char_count # 0
  <2> HIDE DEF v
  <2> QED BY <1>4, <1>6, <1>8, ValueKept
<1>10. /\ r.toks = s.toks /\ r.param = Append(p, c) /\ r.q_st = FALSE /\ r.char_count # 0
  <2>1. Keeps(s, c, r) /\ r.q_st = FALSE
    BY <1>7 DEF PieceKept
  <2> HIDE DEF r, c
  <2>2. r.toks = s.toks /\ r.param = Append(s.param, c) /\ r.char_count # 0
    BY <1>1, <2>1, KeptLast
  <2> QED BY <2>1, <2>2
<1>11. r.space_encountered = FALSE
  <2>1. r.space_encountered = (c = Blank)
    BY <1>7 DEF PieceKept
  <2> QED
    BY <1>6, <2>1
<1>12. /\ j \in 1 .. Len(r.param) /\ j = Len(r.param) /\ Alone(r.param, j) /\ SpeltOut(r.param, j) = p \o v
  <2> HIDE DEF p, c
  <2>1. /\ j \in 1 .. Len(Append(p, c)) /\ j = Len(Append(p, c)) /\ Alone(Append(p, c), j)
        /\ SpeltOut(Append(p, c), j) = p \o v
    BY <1>1, <1>2, <1>3, SpeltFirst
  <2> QED
    BY <1>10, <2>1
<1> HIDE DEF r, v, j
<1>13. OpenSpelt(t, n + 1, r, j)
  <2>1. ~ AfterFile(r)
    BY <1>2, <1>10 DEF AfterFile
  <2> QED
    BY <1>2, <1>10, <1>12, <2>1 DEF OpenSpelt
<1>14. SameFlags(r, q)
  BY <1>9, <1>10, <1>11 DEF SameFlags
<1>15. Alike(t, n + 1, r, q)
  <2>1. Cleaned(q.toks) = Meant(Cleaned(r.toks))
    BY <1>4, <1>9, <1>10
  <2>2. q.param = SpeltOut(r.param, j)
    BY <1>5, <1>9, <1>12
  <2> QED
    BY <1>9, <1>12, <1>13, <1>14, <2>1, <2>2 DEF Alike
<1> QED
  BY <1>9, <1>15 DEF r, v

-----------------------------------------------------------------------------
(* The text with its aliases spelled out, piece by piece.                  *)

\* A piece and what it is spelled as.
LEMMA SpelledPiece ==
  ASSUME AliasesOK, NEW t \in Texts, NEW i \in 1 .. Len(t)
  PROVE  /\ SpelledAt(t, i) \in Texts /\ SpelledAt(t, i) # <<>> /\ t[i] \in Words
         /\ Stands(t, i) => t[i] \in DOMAIN alias_s /\ SpelledAt(t, i) = alias_s[t[i]]
         /\ ~ Stands(t, i) => SpelledAt(t, i) = <<t[i]>>
<1>1. t[i] \in Words
  BY DEF Texts
<1>2. CASE Stands(t, i)
  <2>1. t[i] \in DOMAIN alias_s /\ SpelledAt(t, i) = alias_s[t[i]]
    BY <1>2 DEF Stands, SpelledAt
  <2>2. alias_s[t[i]] \in Texts /\ IsWords(alias_s[t[i]])
    BY <2>1, ValueIs
  <2> QED
    BY <1>1, <1>2, <2>1, <2>2 DEF IsWords
<1>3. CASE ~ Stands(t, i)
  <2>1. SpelledAt(t, i) = <<t[i]>> /\ <<t[i]>> \in Texts
    BY <1>1, <1>3 DEF SpelledAt, Texts
  <2> QED
    BY <1>1, <1>3, <2>1
<1> QED
  BY <1>2, <1>3

\* What is spelled out grows with the text.
LEMMA SpelledMore ==
  ASSUME AliasesOK, NEW t \in Texts
  PROVE  /\ SpelledTo(t, 0) = <<>>
         /\ \A n \in 0 .. Len(t) : SpelledTo(t, n) \in Texts
         /\ \A n \in 0 .. Len(t) - 1 : SpelledTo(t, n + 1) = SpelledTo(t, n) \o SpelledAt(t, n + 1)
<1> DEFINE l(n) == [i \in 1 .. n |-> SpelledAt(t, i)]
<1>1. Len(t) \in Nat
  BY DEF Texts
<1>2. \A i \in 1 .. Len(t) : SpelledAt(t, i) \in Seq(Words)
  BY SpelledPiece DEF Texts
<1>3. ASSUME NEW n \in 0 .. Len(t) PROVE l(n) \in Seq(Seq(Words)) /\ Len(l(n)) = n
  BY <1>1, <1>2
<1>4. SpelledTo(t, 0) = <<>>
  <2>1. l(0) = <<>>
    OBVIOUS
  <2>2. FlattenSeq(<<>>) = <<>>
    BY DEF FlattenSeq
  <2> QED
    BY <2>1, <2>2 DEF SpelledTo
<1>5. ASSUME NEW n \in 0 .. Len(t) PROVE SpelledTo(t, n) \in Texts
  <2>1. l(n) \in Seq(Seq(Words)) /\ <<>> \in Seq(Words)
    BY <1>3
  <2>2. FlattenSeq(l(n)) \in Seq(Words)
    <3> HIDE DEF l
    <3> QED BY <2>1, FlattenAppend
  <2> QED
    BY <2>2 DEF SpelledTo, Texts
<1>6. ASSUME NEW n \in 0 .. Len(t) - 1 PROVE SpelledTo(t, n + 1) = SpelledTo(t, n) \o SpelledAt(t, n + 1)
  <2> DEFINE y == SpelledAt(t, n + 1)
             a == l(n)
             b == l(n + 1)
  <2>1. n \in 0 .. Len(t) /\ n + 1 \in 0 .. Len(t) /\ n + 1 \in 1 .. Len(t) /\ n \in Nat
    BY <1>1
  <2>2. a \in Seq(Seq(Words)) /\ Len(a) = n /\ b \in Seq(Seq(Words)) /\ Len(b) = n + 1 /\ y \in Seq(Words)
    BY <1>2, <1>3, <2>1
  <2>3. \A i \in 1 .. n + 1 : b[i] = IF i = n + 1 THEN y ELSE a[i]
    BY <2>1
  <2> HIDE DEF a, b, y
  <2>4. Append(a, y) \in Seq(Seq(Words)) /\ Len(Append(a, y)) = n + 1
        /\ \A i \in 1 .. n + 1 : Append(a, y)[i] = IF i = n + 1 THEN y ELSE a[i]
    BY <2>1, <2>2
  <2>5. b = Append(a, y)
    <3> DEFINE d == Append(a, y)
    <3>1. d \in Seq(Seq(Words)) /\ Len(d) = n + 1 /\ \A i \in 1 .. n + 1 : d[i] = b[i]
      BY <2>3, <2>4
    <3> HIDE DEF d
    <3>2. b = d
      BY <2>1, <2>2, <3>1
    <3> QED
      BY <3>2 DEF d
  <2>6. FlattenSeq(b) = FlattenSeq(a) \o y
    BY <2>2, <2>5, FlattenAppend
  <2> QED
    BY <2>6 DEF a, b, y, SpelledTo
<1> QED
  BY <1>4, <1>5, <1>6

\* What is written first stays as more is written.
SpelledKept(t, m, n) ==
  /\ Len(SpelledTo(t, m)) <= Len(SpelledTo(t, n))
  /\ \A i \in 1 .. Len(SpelledTo(t, m)) : SpelledTo(t, n)[i] = SpelledTo(t, m)[i]

\* It does, of whatever is spelled out so far.
LEMMA SpelledKeeps ==
  ASSUME AliasesOK, NEW t \in Texts, NEW m \in 0 .. Len(t)
  PROVE  \A n \in m .. Len(t) : SpelledKept(t, m, n)
<1>1. Len(t) \in Nat
  BY DEF Texts
<1>2. \A n \in 0 .. Len(t) : SpelledTo(t, n) \in Texts /\ Len(SpelledTo(t, n)) \in Nat
  BY SpelledMore DEF Texts
<1> DEFINE S == {k \in Nat : m + k <= Len(t) => SpelledKept(t, m, m + k)}
<1>3. 0 \in S
  <2>1. m + 0 = m
    OBVIOUS
  <2>2. SpelledKept(t, m, m)
    BY <1>2 DEF SpelledKept
  <2> QED
    BY <2>1, <2>2
<1>4. ASSUME NEW k \in Nat, k \in S PROVE k + 1 \in S
  <2> SUFFICES ASSUME m + (k + 1) <= Len(t) PROVE SpelledKept(t, m, m + (k + 1))
    OBVIOUS
  <2> DEFINE n == m + k
             a == SpelledTo(t, m)
             x == SpelledTo(t, n)
             y == SpelledAt(t, n + 1)
             w == SpelledTo(t, n + 1)
  <2>1. /\ n \in 0 .. Len(t) /\ n \in 0 .. Len(t) - 1 /\ n + 1 \in 0 .. Len(t) /\ n + 1 \in 1 .. Len(t) /\ m + (k + 1) = n + 1
        /\ SpelledKept(t, m, n)
    BY <1>1, <1>4
  <2>2. x \in Texts /\ Len(x) \in Nat /\ w = x \o y /\ y \in Texts /\ Len(a) \in Nat
    BY <1>2, <2>1, SpelledMore, SpelledPiece
  <2>3. Len(a) <= Len(x) /\ \A i \in 1 .. Len(a) : x[i] = a[i]
    BY <2>1 DEF SpelledKept
  <2> HIDE DEF a, x, y, w
  <2>4. Len(w) = Len(x) + Len(y) /\ Len(y) \in Nat /\ \A i \in 1 .. Len(x) : w[i] = x[i]
    BY <2>2 DEF Texts
  <2>5. Len(a) <= Len(w) /\ \A i \in 1 .. Len(a) : w[i] = a[i]
    BY <2>2, <2>3, <2>4
  <2> QED
    BY <2>1, <2>5 DEF a, w, SpelledKept
<1>5. \A k \in Nat : k \in S
  <2> HIDE DEF S
  <2> QED BY <1>3, <1>4, Induction
<1>6. ASSUME NEW n \in m .. Len(t) PROVE SpelledKept(t, m, n)
  <2>1. n - m \in Nat /\ m + (n - m) = n /\ n <= Len(t)
    BY <1>1
  <2> QED
    BY <1>5, <2>1
<1> QED
  BY <1>6

-----------------------------------------------------------------------------
(* The two scans to the end.                                               *)

\* What is cleaned does not begin with one then.
LEMMA UnmarkedClean ==
  ASSUME NEW p \in Texts, Unmarked(p)
  PROVE  ~ Begins(cleanCmd(p), {">"})
<1> DEFINE x == cleanCmd(p)
<1> SUFFICES ASSUME x # <<>>, x[1] = ">" PROVE FALSE
  BY DEF Begins
<1>1. Len(p) \in Nat
  BY DEF Texts
<1>2. ~ Blanks(p)
  <2> SUFFICES ASSUME Blanks(p) PROVE x = <<>>
    OBVIOUS
  <2>1. {i \in DOMAIN p : p[i] # Blank} = {}
    BY DEF Blanks, Texts
  <2> QED
    BY <2>1 DEF cleanCmd
<1>3. PICK j \in 1 .. Len(p) : p[j] # Blank /\ \A i \in 1 .. j - 1 : p[i] = Blank
  BY <1>2, FirstPiece
<1>4. PICK b \in j .. Len(p) : x = SubSeq(p, j, b)
  BY <1>3, CleanFrom
<1> HIDE DEF x
<1>5. x[1] = p[j]
  BY <1>1, <1>3, <1>4 DEF Texts
<1>6. PICK i \in 1 .. j - 1 : p[i] # Blank
  BY <1>3, <1>5 DEF Unmarked
<1> QED
  BY <1>3, <1>6

\* The scans of a text and of the text with its aliases spelled out, after n pieces.
BothScan(t, n, s, u) ==
  /\ s \in ScanStates /\ u \in ScanStates /\ AfterScan(SubSeq(t, 1, n), s) /\ AfterScan(SpelledTo(t, n), u)
  /\ ToldSoFar(t, s, n) /\ PlainSoFar(t, s, n) /\ AtStart(t, n, s) /\ Inside(t, n, s) /\ Alike(t, n, s, u) /\ FreeOfOwn(s)
  /\ Unmarked(s.param) /\ Marked(s.toks)

\* Both begin alike.
LEMMA BothStart ==
  ASSUME AliasesOK, NEW t \in Texts
  PROVE  BothScan(t, 0, Start, Start)
<1>1. /\ Start.param = <<>> /\ Start.toks = <<>> /\ Start.q_st = FALSE /\ Start \in ScanStates
  BY StartTyped DEF Start
<1>2. SubSeq(t, 1, 0) = <<>> /\ SpelledTo(t, 0) = <<>>
  BY SpelledMore DEF Texts
<1>3. AtStart(t, 0, Start)
  <2>1. Previous(t, 0 + 1) = Blank
    BY DEF Previous
  <2>2. ~ AfterFile(Start) /\ Blank # ">" /\ Blank \in Breaks
    BY <1>1, BreaksAre DEF AfterFile, FileNext, Blank
  <2> QED
    BY <1>1, <2>1, <2>2 DEF AtStart
<1>4. Inside(t, 0, Start)
  BY <1>1 DEF Inside, Blanks
<1>5. Alike(t, 0, Start, Start)
  <2>1. Cleaned(<<>>) = <<>> /\ Meant(<<>>) = <<>>
    BY DEF Cleaned, Meant
  <2>2. OpenSame(t, 0, Start)
    BY <1>1 DEF OpenSame
  <2> QED
    BY <1>1, <2>1, <2>2, NothingHits DEF Alike, SameFlags
<1>6. FreeOfOwn(Start) /\ Unmarked(<<>>) /\ Marked(<<>>)
  BY <1>1 DEF FreeOfOwn, Unmarked, Marked
<1> QED
  BY <1>1, <1>2, <1>3, <1>4, <1>5, <1>6, ScansNothing, ToldStart, PlainStart DEF BothScan

\* Both go on alike: the inductive step.
LEMMA BothMore ==
  ASSUME AliasesOK, NEW t \in Texts, Plain(t), WithoutOwn(t), NEW n \in Nat, n < Len(t),
         NEW s, NEW u, BothScan(t, n, s, u)
  PROVE  \E q : BothScan(t, n + 1, Scan(s, t[n + 1]), q)
<1> DEFINE c == t[n + 1]
           r == Scan(s, c)
           z == SpelledTo(t, n)
<1>1. Len(t) \in Nat /\ n + 1 \in 1 .. Len(t) /\ n \in 0 .. Len(t) - 1 /\ n \in 0 .. Len(t) /\ 1 \in 1 .. n + 1
  BY DEF Texts
<1>2. /\ s \in ScanStates /\ u \in ScanStates /\ AfterScan(SubSeq(t, 1, n), s) /\ AfterScan(z, u)
      /\ ToldSoFar(t, s, n) /\ PlainSoFar(t, s, n) /\ AtStart(t, n, s) /\ Inside(t, n, s) /\ Alike(t, n, s, u) /\ FreeOfOwn(s)
      /\ Unmarked(s.param) /\ Marked(s.toks)
  BY DEF BothScan
<1>3. c \in Words /\ c \in NotOwn
  BY <1>1 DEF WithoutOwn, NotOwn, Texts
<1>4. OneMore(t, n, s, r)
  BY <1>2, OneMoreIs
<1>5. r \in ScanStates
  <2> HIDE DEF c
  <2> QED BY <1>2, <1>3, ScanTyped
<1>6. AfterScan(SubSeq(t, 1, n + 1), r)
  <2>1. SubSeq(t, 1, n) \in Texts /\ SubSeq(t, 1, n + 1) = Append(SubSeq(t, 1, n), c)
    BY <1>1, PartGrows
  <2> DEFINE x == SubSeq(t, 1, n)
  <2> HIDE DEF c, x
  <2>2. AfterScan(Append(x, c), r)
    BY <1>2, <1>3, <2>1, ScansMore DEF x
  <2> QED
    BY <2>1, <2>2 DEF x
<1>7. ToldSoFar(t, r, n + 1) /\ PlainSoFar(t, r, n + 1)
  BY <1>2, ToldMore, PlainMore DEF Plain
<1>8. AtStart(t, n + 1, r) /\ Inside(t, n + 1, r)
  <2> HIDE DEF r
  <2> QED BY <1>2, <1>4, <1>5, StartStep, InsideStep
<1>9. FreeOfOwn(r)
  <2>1. Scanned(s, c, r)
    BY <1>4 DEF OneMore
  <2> HIDE DEF c, r
  <2> QED
    BY <1>2, <1>3, <2>1, FreeMore
<1>14. Unmarked(r.param) /\ Marked(r.toks)
  <2> HIDE DEF r
  <2> QED BY <1>2, <1>4, <1>5, MarksKept
<1>10. z \in Texts /\ SpelledTo(t, n + 1) = z \o SpelledAt(t, n + 1)
  BY <1>1, SpelledMore
<1> HIDE DEF z
<1>11. \E q \in ScanStates : AfterScan(SpelledTo(t, n + 1), q) /\ Alike(t, n + 1, r, q)
  <2>1. CASE Stands(t, n + 1)
    <3>1. SpelledTo(t, n + 1) = z \o alias_s[t[n + 1]]
      BY <1>1, <1>10, <2>1, SpelledPiece
    <3> QED
      BY <1>2, <1>4, <1>10, <2>1, <3>1, AlikeAtAlias
  <2>2. CASE ~ Stands(t, n + 1)
    <3> DEFINE q == Scan(u, c)
    <3>1. SpelledTo(t, n + 1) = z \o <<c>>
      BY <1>1, <1>10, <2>2, SpelledPiece
    <3>2. z \o <<c>> = Append(z, c)
      BY <1>3, <1>10 DEF Texts
    <3>3. AfterScan(Append(z, c), q) /\ q \in ScanStates
      <4> HIDE DEF c
      <4> QED BY <1>2, <1>3, <1>10, ScansMore, ScanTyped
    <3>4. Alike(t, n + 1, r, q)
      BY <1>2, <1>4, <2>2, AlikeStep
    <3> HIDE DEF q
    <3> QED
      BY <3>1, <3>2, <3>3, <3>4
  <2> QED
    BY <2>1, <2>2
<1> HIDE DEF r
<1>12. PICK q \in ScanStates : AfterScan(SpelledTo(t, n + 1), q) /\ Alike(t, n + 1, r, q)
  BY <1>11
<1>13. BothScan(t, n + 1, r, q)
  BY <1>5, <1>6, <1>7, <1>8, <1>9, <1>12, <1>14 DEF BothScan
<1> QED
  BY <1>13 DEF r

\* Both are alike at the end.
LEMMA BothEnd ==
  ASSUME AliasesOK, NEW t \in Texts, Plain(t), WithoutOwn(t)
  PROVE  \E s, u : BothScan(t, Len(t), s, u)
<1>1. Len(t) \in Nat
  BY DEF Texts
<1> DEFINE S == {n \in Nat : n <= Len(t) => \E s, u : BothScan(t, n, s, u)}
<1>2. 0 \in S
  BY BothStart
<1>3. ASSUME NEW n \in Nat, n \in S PROVE n + 1 \in S
  <2> SUFFICES ASSUME n + 1 <= Len(t) PROVE \E s, u : BothScan(t, n + 1, s, u)
    OBVIOUS
  <2>1. n < Len(t) /\ n <= Len(t)
    BY <1>1
  <2>2. PICK s, u : BothScan(t, n, s, u)
    BY <1>3, <2>1
  <2> QED
    BY <2>1, <2>2, BothMore
<1>4. \A n \in Nat : n \in S
  <2> HIDE DEF S
  <2> QED BY <1>2, <1>3, Induction
<1> QED
  BY <1>1, <1>4

\* Tokens without those words, and where a > is in them.
LEMMA SpellingMeans ==
  ASSUME AliasesOK, NEW t \in Texts, Plain(t), WithoutOwn(t)
  PROVE  /\ scanned(SpelledTo(t, Len(t))) = Meant(scanned(t))
         /\ \E toks \in Seq(Seq(NotOwn)) : scanned(t) = Cleaned(toks) /\ Marked(toks)
<1> DEFINE n == Len(t)
           z == SpelledTo(t, n)
<1>1. n \in Nat /\ n \in 0 .. n /\ SubSeq(t, 1, n) = t /\ At(t, n + 1) = Blank
  BY DEF Texts, At
<1>2. PICK s, u : BothScan(t, n, s, u)
  BY BothEnd
<1>3. z \in Texts
  BY <1>1, SpelledMore
<1>4. /\ s \in ScanStates /\ u \in ScanStates /\ AfterScan(t, s) /\ AfterScan(z, u) /\ Alike(t, n, s, u) /\ FreeOfOwn(s)
      /\ Unmarked(s.param) /\ Marked(s.toks)
  BY <1>1, <1>2 DEF BothScan
<1> HIDE DEF z
<1>5. scanned(t) = ScanEnd(s) /\ scanned(z) = ScanEnd(u)
  BY <1>3, <1>4, ScansEnd
<1> DEFINE a == IF s.char_count # 0 /\ ~ s.q_st THEN Append(s.toks, s.param) ELSE s.toks
           b == IF u.char_count # 0 /\ ~ u.q_st THEN Append(u.toks, u.param) ELSE u.toks
<1>6. ScanEnd(s) = Cleaned(a) /\ ScanEnd(u) = Cleaned(b)
  BY DEF ScanEnd, Cleaned
<1>7. /\ s.toks \in Seq(Texts) /\ u.toks \in Seq(Texts) /\ s.param \in Texts /\ u.param \in Texts
  BY <1>4 DEF ScanStates
<1>8. /\ Cleaned(u.toks) = Meant(Cleaned(s.toks)) /\ (u.char_count = 0 <=> s.char_count = 0) /\ u.q_st = s.q_st
  BY <1>4 DEF Alike, SameFlags
<1>9. cleanCmd(u.param) = TokenMeans(s.toks, s.param)
  BY <1>1, <1>4, BreaksAre, OpenMeans
<1>10. Cleaned(Append(u.toks, u.param)) = Meant(Cleaned(Append(s.toks, s.param)))
  BY <1>7, <1>8, <1>9, TokenMore
<1>11. Cleaned(b) = Meant(Cleaned(a))
  BY <1>8, <1>10
<1>12. a \in Seq(Seq(NotOwn))
  <2>1. s.toks \in Seq(Seq(NotOwn)) /\ s.param \in Seq(NotOwn)
    BY <1>4 DEF FreeOfOwn
  <2>2. Append(s.toks, s.param) \in Seq(Seq(NotOwn))
    BY <2>1
  <2> QED
    BY <2>1, <2>2
<1>13. Marked(a)
  BY <1>4, <1>7, MarkedMore
<1> HIDE DEF a, b
<1> QED
  BY <1>5, <1>6, <1>11, <1>12, <1>13 DEF z

-----------------------------------------------------------------------------
(* What validateCommand replaces.                                          *)

\* Replacing an alias brings none, and no > where there was none.
LEMMA OwnBefore ==
  ASSUME AliasesOK, NEW x \in Seq(NotOwn)
  PROVE  LET y == Substituted(x)
         IN  y \in Texts /\ (y # <<>> => y[1] \notin Own) /\ (Begins(y, {">"}) <=> Begins(x, {">"}))
<1> DEFINE y == Substituted(x)
<1>1. x \in Texts /\ Len(x) \in Nat
  BY NotOwnTyped DEF Texts
<1>2. y \in Texts
  BY <1>1, SubstitutedTyped DEF AliasesOK
<1>3. CASE Len(FirstWord(x)) = 1 /\ x[1] \in DOMAIN alias_s
  <2> DEFINE v == alias_s[x[1]]
             e == SubSeq(x, 2, Len(x))
  <2>1. v \in Texts /\ Len(v) \in Nat \ {0} /\ v[1] \notin Special /\ x[1] \notin Special
    BY <1>3, ValueIs
  <2>2. y = v \o e
    BY <1>3 DEF Substituted
  <2>3. e \in Seq(Words) /\ v \in Seq(Words)
    BY <1>1, <2>1 DEF Texts
  <2> HIDE DEF v, e
  <2>4. (v \o e)[1] = v[1]
    BY <2>1, <2>3
  <2> HIDE DEF y
  <2>5. y[1] \notin Special
    BY <2>1, <2>2, <2>4
  <2>6. Own \subseteq Special /\ ">" \in Special
    BY DEF Own, Special, Operators
  <2> QED
    BY <1>2, <2>1, <2>5, <2>6 DEF Begins, y
<1>4. CASE ~ (Len(FirstWord(x)) = 1 /\ x[1] \in DOMAIN alias_s)
  <2>1. y = x
    BY <1>4 DEF Substituted
  <2>2. x # <<>> => x[1] \in NotOwn
    OBVIOUS
  <2> HIDE DEF y
  <2>3. y # <<>> => y[1] \notin Own
    BY <2>1, <2>2 DEF NotOwn
  <2> QED
    BY <1>2, <2>1, <2>3 DEF y
<1> QED
  BY <1>3, <1>4

\* Without those words every alias that may be replaced is.
LEMMA AllReplaced ==
  ASSUME AliasesOK, NEW toks \in Seq(Seq(NotOwn)), Marked(toks)
  PROVE  replaced(Cleaned(toks)) = Meant(Cleaned(toks))
<1> DEFINE l == Cleaned(toks)
           D == passed(l)
<1>1. DOMAIN toks = 1 .. Len(toks) /\ Len(toks) \in Nat /\ DOMAIN l = DOMAIN toks
  BY DEF Cleaned
<1>2. Len(l) = Len(toks) /\ Len(l) \in Nat
  BY <1>1 DEF Cleaned
<1>3. ASSUME NEW k \in 1 .. Len(toks)
      PROVE  /\ ~ Stops(l, k) /\ (Passes(l, k) <=> l[k] = <<">">>)
             /\ l[k] = <<">">> /\ k > 1 => l[k - 1] # <<">">>
  <2> DEFINE x == toks[k]
             y == Substituted(l[k])
  <2>1. x \in Seq(NotOwn) /\ l[k] = cleanCmd(x)
    BY <1>1 DEF Cleaned
  <2>2. cleanCmd(x) \in Seq(NotOwn) /\ x \in Texts
    BY <2>1, NotOwnTyped
  <2>3. y \in Texts /\ (y # <<>> => y[1] \notin Own) /\ (Begins(y, {">"}) <=> Begins(l[k], {">"}))
    BY <2>1, <2>2, OwnBefore
  <2>4. Begins(l[k], {">"}) <=> l[k] = <<">">>
    <3>1. Unmarked(x) \/ x = <<">">>
      BY DEF Marked
    <3>2. x = <<">">> => cleanCmd(x) = <<">">>
      <4>1. ">" \in Words /\ ">" # Blank
        BY DEF Words, Operators, Blank
      <4> QED
        BY <4>1, CleanOne
    <3>3. Unmarked(x) => ~ Begins(cleanCmd(x), {">"})
      BY <2>2, UnmarkedClean
    <3>4. Begins(<<">">>, {">"})
      BY DEF Begins
    <3> HIDE DEF l, x
    <3> QED
      BY <2>1, <3>1, <3>2, <3>3, <3>4
  <2>5. l[k] = <<">">> /\ k > 1 => l[k - 1] # <<">">>
    <3> SUFFICES ASSUME l[k] = <<">">>, k > 1, l[k - 1] = <<">">> PROVE FALSE
      OBVIOUS
    <3>1. ~ Unmarked(x)
      <4>1. Begins(<<">">>, {">"})
        BY DEF Begins
      <4> HIDE DEF l, x
      <4> QED BY <2>1, <2>2, <4>1, UnmarkedClean
    <3>2. Unmarked(toks[k - 1])
      BY <3>1 DEF Marked
    <3>3. k - 1 \in 1 .. Len(toks)
      BY <1>1
    <3>4. toks[k - 1] \in Seq(NotOwn) /\ l[k - 1] = cleanCmd(toks[k - 1])
      BY <1>1, <3>3 DEF Cleaned
    <3>5. toks[k - 1] \in Texts
      BY <3>4, NotOwnTyped
    <3>6. Begins(<<">">>, {">"})
      BY DEF Begins
    <3> HIDE DEF l
    <3> QED
      BY <3>2, <3>4, <3>5, <3>6, UnmarkedClean
  <2>6. y # <<"=">>
    <3> SUFFICES ASSUME y = <<"=">> PROVE FALSE
      OBVIOUS
    <3>1. <<"=">> # <<>> /\ <<"=">>[1] = "="
      OBVIOUS
    <3> HIDE DEF y
    <3> QED BY <2>3, <3>1 DEF Own
  <2>7. Passes(l, k) <=> l[k] = <<">">>
    <3> HIDE DEF l
    <3> QED BY <2>3, <2>4, <2>6 DEF Passes
  <2>8. FirstWord(y) \notin {<<"cd">>, <<"alias">>, <<"set">>}
    <3> HIDE DEF y
    <3>1. CASE y = <<>>
      <4>1. FirstWord(y) = <<>>
        BY <3>1 DEF FirstWord, ToSet
      <4> QED
        BY <4>1
    <3>2. CASE y # <<>>
      <4>1. FirstWord(y) # <<>> => FirstWord(y)[1] = y[1]
        BY <2>3, <3>2, FirstWordPart
      <4>2. FirstWord(y) # <<>> => FirstWord(y)[1] \notin Own
        BY <2>3, <3>2, <4>1
      <4> DEFINE w == FirstWord(y)
      <4> HIDE DEF w
      <4>3. w # <<>> => w[1] \notin {"cd", "alias", "set"}
        BY <4>2 DEF w, Own
      <4>4. \A c \in {"cd", "alias", "set"} : <<c>> # <<>> /\ <<c>>[1] = c
        OBVIOUS
      <4>5. \A c \in {"cd", "alias", "set"} : w # <<c>>
        BY <4>3, <4>4
      <4> QED
        BY <4>5 DEF w
    <3> QED
      BY <3>1, <3>2
  <2>9. ~ Stops(l, k)
    <3> HIDE DEF l
    <3> QED BY <2>8 DEF Stops
  <2> QED
    BY <2>5, <2>7, <2>9
<1>4. D \subseteq 2 .. Len(l) /\ \A k \in 2 .. Len(l) : k \in D <=> k - 1 \notin D /\ Passes(l, k - 1)
  BY <1>2, PassedSays
<1> HIDE DEF l, D
<1>5. ASSUME NEW k \in 1 .. Len(l) PROVE k \in D <=> IsFile(l, k)
  <2>1. CASE k = 1
    BY <1>4, <2>1 DEF IsFile
  <2>2. CASE k # 1
    <3>1. k \in 2 .. Len(l) /\ k - 1 \in 1 .. Len(toks)
      BY <1>2, <2>2
    <3>2. k \in D <=> k - 1 \notin D /\ l[k - 1] = <<">">>
      BY <1>3, <1>4, <3>1
    <3>3. l[k - 1] = <<">">> => k - 1 \notin D
      <4> SUFFICES ASSUME l[k - 1] = <<">">>, k - 1 \in D PROVE FALSE
        OBVIOUS
      <4>1. k - 1 \in 2 .. Len(l) /\ k - 2 \in 1 .. Len(toks) /\ (k - 1) - 1 = k - 2 /\ k - 1 > 1
        BY <1>2, <1>4, <3>1
      <4>2. Passes(l, k - 2)
        BY <1>4, <4>1
      <4>3. l[k - 2] = <<">">>
        BY <1>3, <4>1, <4>2
      <4> QED
        BY <1>3, <3>1, <4>1, <4>3
    <3> QED
      BY <3>1, <3>2, <3>3 DEF IsFile
  <2> QED
    BY <2>1, <2>2
<1>6. Looked(l) = DOMAIN l \ D
  <2>1. ASSUME NEW k \in DOMAIN l, NEW j \in 1 .. k - 1 PROVE ~ Stops(l, j)
    BY <1>1, <1>3, <2>1
  <2> QED
    BY <2>1 DEF Looked, D
<1>7. replaced(l) = Meant(l)
  <2>1. ASSUME NEW k \in DOMAIN l
        PROVE  (IF k \in Looked(l) THEN Substituted(l[k]) ELSE l[k]) = IF IsFile(l, k) THEN l[k] ELSE Substituted(l[k])
    BY <1>1, <1>2, <1>5, <1>6
  <2> QED
    BY <2>1, Zenon DEF replaced, Meant
<1> QED
  BY <1>7 DEF l
-----------------------------------------------------------------------------
(* The text that is spelled out is read as the other one.                  *)

\* Where what is spelled out begins, and where a piece of it is.
LEMMA SpelledStart ==
  ASSUME AliasesOK, NEW t \in Texts, NEW i \in 1 .. Len(t)
  PROVE  LET z == SpelledTo(t, Len(t))
             m == Len(SpelledTo(t, i - 1)) + 1
             y == SpelledAt(t, i)
         IN  /\ z \in Texts /\ Len(z) \in Nat /\ m \in Nat \ {0} /\ Len(y) \in Nat \ {0} /\ m + Len(y) - 1 <= Len(z)
             /\ \A k \in 1 .. Len(y) : z[m + k - 1] = y[k]
             /\ i = 1 => m = 1
             /\ Len(SpelledTo(t, i)) = m + Len(y) - 1
<1> DEFINE z == SpelledTo(t, Len(t))
           x == SpelledTo(t, i - 1)
           w == SpelledTo(t, i)
           y == SpelledAt(t, i)
<1>1. Len(t) \in Nat /\ i - 1 \in 0 .. Len(t) - 1 /\ i - 1 \in 0 .. Len(t) /\ (i - 1) + 1 = i /\ i \in 0 .. Len(t) /\ Len(t) \in i .. Len(t)
      /\ Len(t) \in 0 .. Len(t)
  BY DEF Texts
<1>2. x \in Texts /\ w \in Texts /\ z \in Texts /\ w = x \o y
  <2>1. w = SpelledTo(t, (i - 1) + 1)
    BY <1>1
  <2> QED
    BY <1>1, <2>1, SpelledMore
<1>3. y \in Texts /\ y # <<>>
  BY SpelledPiece
<1>4. SpelledKept(t, i, Len(t))
  BY <1>1, SpelledKeeps
<1>5. Len(w) <= Len(z) /\ \A k \in 1 .. Len(w) : z[k] = w[k]
  BY <1>4 DEF SpelledKept
<1>6. i = 1 => x = <<>>
  BY SpelledMore
<1> HIDE DEF x, y, z, w
<1>7. Len(x) \in Nat /\ Len(y) \in Nat \ {0} /\ Len(z) \in Nat /\ Len(w) = Len(x) + Len(y)
  BY <1>2, <1>3 DEF Texts
<1>8. ASSUME NEW k \in 1 .. Len(y) PROVE z[Len(x) + k] = y[k]
  <2>1. Len(x) + k \in 1 .. Len(w) /\ (x \o y)[Len(x) + k] = y[k]
    BY <1>2, <1>3, <1>7 DEF Texts
  <2> QED
    BY <1>2, <1>5, <2>1
<1> DEFINE m == Len(x) + 1
<1>9. ASSUME NEW k \in 1 .. Len(y) PROVE z[m + k - 1] = y[k]
  <2>1. m + k - 1 = Len(x) + k
    BY <1>7
  <2> QED
    BY <1>8, <2>1
<1>10. m \in Nat \ {0} /\ m + Len(y) - 1 <= Len(z) /\ Len(w) = m + Len(y) - 1 /\ (i = 1 => m = 1)
  BY <1>5, <1>6, <1>7
<1> QED
  BY <1>2, <1>7, <1>9, <1>10 DEF x, y, z, w

\* Nor has it when the aliases are spelled out.
LEMMA SpelledIsClean ==
  ASSUME AliasesOK, NEW t \in Texts, IsClean(t)
  PROVE  LET z == SpelledTo(t, Len(t)) IN z \in Texts /\ cleanCmd(z) = z
<1> DEFINE n == Len(t)
           z == SpelledTo(t, n)
<1>1. n \in Nat /\ (t = <<>> <=> n = 0) /\ n \in 0 .. n
  BY DEF Texts
<1>2. CASE n = 0
  <2>1. z = <<>>
    BY <1>2, SpelledMore
  <2>2. {i \in DOMAIN <<>> : <<>>[i] # Blank} = {}
    OBVIOUS
  <2> QED
    BY <2>1, <2>2 DEF cleanCmd, Texts
<1>3. CASE n # 0
  <2> DEFINE a == SpelledAt(t, 1)
             b == SpelledAt(t, n)
  <2>1. 1 \in 1 .. n /\ n \in 1 .. n /\ t[1] # Blank /\ t[n] # Blank
    BY <1>1, <1>3 DEF IsClean
  <2>2. a[1] # Blank
    BY <2>1, SpelledPiece, ValueIs
  <2>3. b[Len(b)] # Blank
    BY <2>1, SpelledPiece, ValueIs
  <2>4. z[1] = a[1] /\ z \in Texts /\ Len(z) \in Nat \ {0}
    <3> DEFINE m == Len(SpelledTo(t, 1 - 1)) + 1
    <3>1. /\ z \in Texts /\ Len(z) \in Nat /\ m \in Nat \ {0} /\ Len(a) \in Nat \ {0} /\ m + Len(a) - 1 <= Len(z)
          /\ m = 1 /\ \A k \in 1 .. Len(a) : z[m + k - 1] = a[k]
      BY <2>1, SpelledStart
    <3> HIDE DEF m, a, z
    <3>2. 1 \in 1 .. Len(a) /\ m + 1 - 1 = 1 /\ Len(z) # 0
      BY <3>1
    <3> QED
      BY <3>1, <3>2
  <2>5. z[Len(z)] = b[Len(b)]
    <3> DEFINE m == Len(SpelledTo(t, n - 1)) + 1
    <3>1. /\ m \in Nat \ {0} /\ Len(b) \in Nat \ {0} /\ Len(z) = m + Len(b) - 1
          /\ \A k \in 1 .. Len(b) : z[m + k - 1] = b[k]
      BY <2>1, SpelledStart
    <3> HIDE DEF m, b, z
    <3>2. Len(b) \in 1 .. Len(b)
      BY <3>1
    <3> QED
      BY <3>1, <3>2
  <2> HIDE DEF z
  <2>6. z # <<>>
    BY <2>4
  <2>7. cleanCmd(z) = z
    BY <2>2, <2>3, <2>4, <2>5, <2>6, CleanIsSame
  <2> QED
    BY <2>4, <2>7 DEF z
<1> QED
  BY <1>2, <1>3

\* A piece that is no alias stands where it is.
LEMMA SpelledAlone ==
  ASSUME AliasesOK, NEW t \in Texts, NEW i \in 1 .. Len(t), t[i] \in Special \cup {Blank}
  PROVE  SpelledAt(t, i) = <<t[i]>> /\ t[i] \notin DOMAIN alias_s
<1>1. t[i] \notin DOMAIN alias_s
  BY ValueIs
<1> QED
  BY <1>1 DEF SpelledAt, Stands

\* Two pieces next to each other are spelled out next to each other.
LEMMA SpelledPair ==
  ASSUME AliasesOK, NEW t \in Texts, NEW i \in Nat, i \in 1 .. Len(t) - 1, Len(SpelledAt(t, i)) = 1
  PROVE  LET z == SpelledTo(t, Len(t))
             m == Len(SpelledTo(t, i - 1)) + 1
         IN  /\ m \in Nat /\ m \in 1 .. Len(z) - 1 /\ Len(z) \in Nat /\ z[m] = SpelledAt(t, i)[1] /\ z[m + 1] = SpelledAt(t, i + 1)[1]
             /\ i = 1 => m = 1
<1> DEFINE z == SpelledTo(t, Len(t))
           m == Len(SpelledTo(t, i - 1)) + 1
           o == Len(SpelledTo(t, i)) + 1
           a == SpelledAt(t, i)
           b == SpelledAt(t, i + 1)
<1>1. i \in 1 .. Len(t) /\ i + 1 \in 1 .. Len(t) /\ (i + 1) - 1 = i
  BY DEF Texts
<1>2. /\ Len(z) \in Nat /\ m \in Nat \ {0} /\ \A k \in 1 .. Len(a) : z[m + k - 1] = a[k]
      /\ Len(SpelledTo(t, i)) = m + Len(a) - 1 /\ (i = 1 => m = 1)
  BY <1>1, SpelledStart
<1>3. /\ Len(SpelledTo(t, (i + 1) - 1)) + 1 = o
  BY <1>1
<1>4. /\ Len(b) \in Nat \ {0} /\ o + Len(b) - 1 <= Len(z) /\ \A k \in 1 .. Len(b) : z[o + k - 1] = b[k]
  <2> DEFINE e == Len(SpelledTo(t, (i + 1) - 1)) + 1
  <2>1. /\ Len(b) \in Nat \ {0} /\ e + Len(b) - 1 <= Len(z) /\ \A k \in 1 .. Len(b) : z[e + k - 1] = b[k]
    BY <1>1, SpelledStart
  <2>2. e = o
    BY <1>3
  <2> HIDE DEF e, o, z, b
  <2> QED
    BY <2>1, <2>2
<1>5. Len(a) = 1
  OBVIOUS
<1>6. o = m + 1
  BY <1>2, <1>5
<1> HIDE DEF z, m, o, a, b
<1>7. z[m] = a[1]
  <2>1. 1 \in 1 .. Len(a) /\ m + 1 - 1 = m
    BY <1>2, <1>5
  <2> QED
    BY <1>2, <2>1
<1>8. z[m + 1] = b[1] /\ m \in 1 .. Len(z) - 1 /\ m \in Nat
  <2>1. 1 \in 1 .. Len(b) /\ o + 1 - 1 = m + 1 /\ m <= Len(z) - 1
    BY <1>2, <1>4, <1>6
  <2> QED
    BY <1>2, <1>4, <2>1
<1> QED
  BY <1>2, <1>7, <1>8 DEF z, m, a, b

\* What begins with alias or set began with it before.
LEMMA SpelledStarts ==
  ASSUME AliasesOK, NEW t \in Texts, NEW w \in {"alias", "set"}, StartsWith(w, SpelledTo(t, Len(t)))
  PROVE  StartsWith(w, t)
<1> DEFINE z == SpelledTo(t, Len(t))
<1>1. Len(z) > 1 /\ z[1] = w /\ z[2] = Blank /\ Len(t) \in Nat /\ w \in Special
  BY DEF StartsWith, Texts, Special
<1>2. Len(t) # 0
  <2> SUFFICES ASSUME Len(t) = 0 PROVE FALSE
    OBVIOUS
  <2>1. z = <<>>
    BY SpelledMore
  <2> HIDE DEF z
  <2> QED
    BY <1>1, <2>1
<1>3. 1 \in 1 .. Len(t)
  BY <1>1, <1>2
<1> DEFINE a == SpelledAt(t, 1)
<1>4. /\ Len(a) \in Nat \ {0} /\ z[1] = a[1] /\ Len(SpelledTo(t, 1)) = Len(a)
  <2> DEFINE m == Len(SpelledTo(t, 1 - 1)) + 1
  <2>1. /\ Len(a) \in Nat \ {0} /\ m = 1 /\ \A k \in 1 .. Len(a) : z[m + k - 1] = a[k]
        /\ Len(SpelledTo(t, 1)) = m + Len(a) - 1
    BY <1>3, SpelledStart
  <2> HIDE DEF m, a, z
  <2>2. 1 \in 1 .. Len(a) /\ m + 1 - 1 = 1 /\ m + Len(a) - 1 = Len(a)
    BY <2>1
  <2> QED
    BY <2>1, <2>2
<1>5. a = <<t[1]>> /\ t[1] = w
  <2>1. a[1] \in Special
    BY <1>1, <1>4
  <2>2. ~ Stands(t, 1)
    <3> SUFFICES ASSUME Stands(t, 1) PROVE FALSE
      OBVIOUS
    <3>1. t[1] \in DOMAIN alias_s /\ a = alias_s[t[1]]
      BY <1>3, SpelledPiece
    <3> HIDE DEF a
    <3> QED
      BY <2>1, <3>1, ValueIs
  <2>3. a = <<t[1]>>
    BY <1>3, <2>2, SpelledPiece
  <2> QED
    BY <1>1, <1>4, <2>3
<1>6. Len(t) # 1
  <2> SUFFICES ASSUME Len(t) = 1 PROVE FALSE
    OBVIOUS
  <2>1. Len(z) = Len(a) /\ Len(a) = 1
    BY <1>4, <1>5
  <2> QED
    BY <1>1, <2>1
<1>7. 1 \in 1 .. Len(t) - 1 /\ 2 \in 1 .. Len(t) /\ Len(t) > 1
  <2> DEFINE n == Len(t)
  <2>1. n \in Nat /\ n # 0 /\ n # 1
    BY <1>1, <1>2, <1>6
  <2> HIDE DEF n
  <2>2. 1 \in 1 .. n - 1 /\ 2 \in 1 .. n /\ n > 1
    BY <2>1
  <2> QED
    BY <2>2 DEF n
<1> DEFINE b == SpelledAt(t, 2)
<1>8. b[1] = Blank
  <2> DEFINE m == Len(SpelledTo(t, 1 - 1)) + 1
  <2>1. z[m + 1] = SpelledAt(t, 1 + 1)[1] /\ m = 1
    BY <1>5, <1>7, SpelledPair
  <2> HIDE DEF z, m
  <2>2. z[2] = SpelledAt(t, 2)[1]
    BY <2>1
  <2> QED
    BY <1>1, <2>2
<1>9. ~ Stands(t, 2)
  <2> SUFFICES ASSUME Stands(t, 2) PROVE FALSE
    OBVIOUS
  <2>1. t[2] \in DOMAIN alias_s /\ b = alias_s[t[2]]
    BY <1>7, SpelledPiece
  <2> HIDE DEF b
  <2> QED
    BY <1>8, <2>1, ValueIs
<1>10. t[2] = Blank
  <2>1. b = <<t[2]>>
    BY <1>7, <1>9, SpelledPiece
  <2> QED
    BY <1>8, <2>1
<1> QED
  BY <1>5, <1>7, <1>10 DEF StartsWith

\* A line of alias or set does not come from spelling out.
LEMMA SpelledNoAlias ==
  ASSUME AliasesOK, NEW t \in Texts, ~ IsAliasCmd(t)
  PROVE  ~ IsAliasCmd(SpelledTo(t, Len(t)))
<1> DEFINE z == SpelledTo(t, Len(t))
           O(x) == Occurrences(<<"alias", Blank>>, x) = {}
<1>1. z \in Texts
  <2>1. Len(t) \in 0 .. Len(t)
    BY DEF Texts
  <2> QED
    BY <2>1, SpelledMore
<1>2. StartsWith("alias", z) => StartsWith("alias", t)
  BY SpelledStarts
<1>3. StartsWith("set", z) => StartsWith("set", t)
  BY SpelledStarts
<1>4. ~ O(t) => ~ O(z)
  <2> SUFFICES ASSUME ~ O(t) PROVE ~ O(z)
    OBVIOUS
  <2>1. PICK i \in Nat : i \in 1 .. Len(t) - 1 /\ t[i] = "alias" /\ t[i + 1] = Blank
    BY AliasOccurs
  <2>2. i \in 1 .. Len(t) /\ i + 1 \in 1 .. Len(t)
    BY <2>1 DEF Texts
  <2>3. SpelledAt(t, i) = <<"alias">> /\ SpelledAt(t, i + 1) = <<Blank>>
    BY <2>1, <2>2, SpelledAlone DEF Special
  <2> DEFINE m == Len(SpelledTo(t, i - 1)) + 1
  <2>4. Len(SpelledAt(t, i)) = 1 /\ SpelledAt(t, i)[1] = "alias" /\ SpelledAt(t, i + 1)[1] = Blank
    BY <2>3
  <2>5. m \in Nat /\ m \in 1 .. Len(z) - 1 /\ z[m] = "alias" /\ z[m + 1] = Blank
    BY <2>1, <2>4, SpelledPair
  <2> HIDE DEF m, z
  <2> QED
    BY <1>1, <2>5, AliasOccurs
<1>5. ~ (StartsWith("alias", t) \/ (StartsWith("set", t) /\ O(t)))
  BY DEF IsAliasCmd
<1> QED
  BY <1>2, <1>3, <1>4, <1>5 DEF IsAliasCmd

\* Replacing the aliases in the tokens is replacing them in the text.
LEMMA SpelledIsReplaced ==
  ASSUME AliasesOK, NEW t \in Texts, IsClean(t), ~ IsAliasCmd(t), Plain(t), WithoutOwn(t)
  PROVE  parseCmd(SpelledTo(t, Len(t))) = replaced(scanned(t))
<1> DEFINE z == SpelledTo(t, Len(t))
<1>1. z \in Texts /\ cleanCmd(z) = z /\ ~ IsAliasCmd(z)
  BY SpelledIsClean, SpelledNoAlias
<1>2. parseCmd(z) = scanned(z)
  BY <1>1 DEF parseCmd
<1>3. scanned(z) = Meant(scanned(t)) /\ \E toks \in Seq(Seq(NotOwn)) : scanned(t) = Cleaned(toks) /\ Marked(toks)
  BY SpellingMeans
<1>4. replaced(scanned(t)) = Meant(scanned(t))
  BY <1>3, AllReplaced
<1> QED
  BY <1>2, <1>3, <1>4

\* Whatever is typed, with aliases that are words: replacing an alias in a token after the
\* line was split (validateCommand) is replacing it in the line.
THEOREM AliasesAreTheirText == Spec => []AliasIsItsText
<1>1. ASSUME ExecInv, TokensInv PROVE AliasIsItsText
  <2> DEFINE t == Typed
             z == FlattenSeq([i \in DOMAIN t |-> IF Stands(t, i) THEN alias_s[t[i]] ELSE <<t[i]>>])
  <2> SUFFICES ASSUME status = "parsed", Plain(t), {"cd", "set", "alias", "="} \cap ToSet(t) = {}, AliasesAreWords
               PROVE  replaced(parseCmd(in_cmd)) = parseCmd(z)
    BY Zenon DEF AliasIsItsText
  <2>1. t \in Texts /\ IsClean(t) /\ AliasesOK
    <3>1. in_cmd \in Lines /\ alias_s \in Aliases
      BY <1>1 DEF ExecInv, LineInv
    <3>2. in_cmd \in Texts
      BY <3>1, TextsAssumption, StringsAreTexts
    <3> QED
      BY <3>1, <3>2, TypedIsClean DEF Typed, AliasesOK
  <2>2. parseCmd(in_cmd) = scanned(t) /\ ~ IsAliasCmd(t)
    BY <1>1 DEF TokensInv, Typed, parseCmd
  <2>3. WithoutOwn(t)
    BY <2>1 DEF WithoutOwn, Own, ToSet, Texts
  <2>4. z = SpelledTo(t, Len(t))
    <3>1. DOMAIN t = 1 .. Len(t)
      BY <2>1 DEF Texts
    <3> HIDE DEF t
    <3> QED
      BY <3>1, Zenon DEF SpelledTo, SpelledAt
  <2> HIDE DEF t, z
  <2> QED
    BY <2>1, <2>2, <2>3, <2>4, SpelledIsReplaced
<1> QED
  BY <1>1, TokensHold, PTL
=============================================================================
