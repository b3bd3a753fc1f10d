----------------------------- MODULE ShellProofs -----------------------------
(***************************************************************************)
(* For any names, files and bounds: the state of the shell keeps its type, *)
(* what a completed exit saved stays in the alias file, waitpid is never   *)
(* called without a child to wait for, and the lines of the alias file     *)
(* prevail over what was defined before them.                              *)
(*                                                                         *)
(* SavedStays is about the end of bye; what makes it inductive is what     *)
(* holds on the way there: while bye writes, the file and the lines that   *)
(* are left are together what write_alias had to write (Saving).           *)
(* AliasFileWins is about the last step of the reading; ReadSoFar is what  *)
(* it has brought after so many lines.                                     *)
(***************************************************************************)
EXTENDS Shell, AliasTableProofs, FiniteSetTheorems

-----------------------------------------------------------------------------
(* write_alias.                                                            *)

\* The number of elements up to one of them is its place in the order.
LEMMA RankIsABijection ==
  ASSUME NEW S \in SUBSET Nat, IsFiniteSet(S)
  PROVE  LET rank == [x \in S |-> Cardinality({y \in S : y <= x})]
         IN  /\ rank \in Bijection(S, 1 .. Cardinality(S))
             /\ \A x, y \in S : rank[x] < rank[y] => x < y
<1> DEFINE upTo(x) == {y \in S : y <= x}
           rank == [x \in S |-> Cardinality(upTo(x))]
           n == Cardinality(S)
<1>1. n \in Nat
  BY FS_CardinalityType
<1>2. ASSUME NEW x \in S
      PROVE  IsFiniteSet(upTo(x)) /\ Cardinality(upTo(x)) \in 1 .. n
  <2>1. IsFiniteSet(upTo(x)) /\ Cardinality(upTo(x)) <= n
    BY FS_Subset, upTo(x) \in SUBSET S
  <2>2. Cardinality(upTo(x)) \in Nat /\ Cardinality(upTo(x)) # 0
    BY <2>1, FS_CardinalityType, FS_EmptySet, x \in upTo(x)
  <2> QED
    BY <1>1, <2>1, <2>2
<1>3. ASSUME NEW x \in S, NEW y \in S, x < y
      PROVE  rank[x] < rank[y]
  <2>1. upTo(x) \in SUBSET upTo(y)
    <3> SUFFICES ASSUME NEW z \in upTo(x) PROVE z \in upTo(y)
      OBVIOUS
    <3>1. z \in Nat /\ x \in Nat /\ y \in Nat /\ z <= x
      OBVIOUS
    <3> QED
      BY <1>3, <3>1
  <2>2. y \in upTo(y) /\ y \notin upTo(x)
    BY <1>3
  <2>3. Cardinality(upTo(x)) <= Cardinality(upTo(y)) /\ Cardinality(upTo(x)) # Cardinality(upTo(y))
    BY <1>2, <2>1, <2>2, FS_Subset
  <2> QED
    BY <1>2, <2>3
<1>4. \A x, y \in S : rank[x] < rank[y] => x < y
  <2> SUFFICES ASSUME NEW x \in S, NEW y \in S, rank[x] < rank[y]
               PROVE  x < y
    OBVIOUS
  <2>1. x \in Nat /\ y \in Nat /\ rank[x] \in Nat /\ rank[y] \in Nat
    BY <1>2
  <2>2. ~ (y < x) /\ x # y
    BY <1>3, <2>1
  <2> QED
    BY <2>1, <2>2
<1>5. rank \in Injection(S, 1 .. n)
  <2>1. rank \in [S -> 1 .. n]
    BY <1>2
  <2>2. ASSUME NEW x \in S, NEW y \in S, rank[x] = rank[y]
        PROVE  x = y
    <3>1. x \in Nat /\ y \in Nat /\ rank[x] \in Nat
      BY <1>2
    <3>2. ~ (x < y) /\ ~ (y < x)
      BY <1>3, <2>2, <3>1
    <3> QED
      BY <3>1, <3>2
  <2> QED
    BY <2>1, <2>2 DEF Injection, IsInjective
<1>6. rank \in Surjection(S, 1 .. n)
  <2>1. IsFiniteSet(1 .. n) /\ Cardinality(1 .. n) = n
    BY <1>1, FS_Interval
  <2> QED
    BY <1>5, <2>1, FS_Injection
<1> QED
  BY <1>4, <1>5, <1>6 DEF Bijection

LEMMA SetInOrder ==
  ASSUME NEW S \in SUBSET Nat, IsFiniteSet(S)
  PROVE  \E s \in [1 .. Cardinality(S) -> S] : \A i, j \in DOMAIN s : i < j => s[i] < s[j]
<1> DEFINE n == Cardinality(S)
           rank == [x \in S |-> Cardinality({y \in S : y <= x})]
<1>1. rank \in Bijection(S, 1 .. n) /\ \A x, y \in S : rank[x] < rank[y] => x < y
  BY RankIsABijection
<1> HIDE DEF rank
<1> DEFINE s == [i \in 1 .. n |-> CHOOSE x \in S : rank[x] = i]
<1>2. \A i \in 1 .. n : s[i] \in S /\ rank[s[i]] = i
  <2> SUFFICES ASSUME NEW i \in 1 .. n PROVE \E x \in S : rank[x] = i
    OBVIOUS
  <2> QED
    BY <1>1 DEF Bijection, Surjection
<1>3. s \in [1 .. n -> S]
  BY <1>2
<1> HIDE DEF s
<1>4. ASSUME NEW i \in DOMAIN s, NEW j \in DOMAIN s, i < j
      PROVE  s[i] < s[j]
  <2>1. i \in 1 .. n /\ j \in 1 .. n
    BY <1>3
  <2>2. s[i] \in S /\ s[j] \in S /\ rank[s[i]] < rank[s[j]]
    BY <1>2, <1>4, <2>1
  <2> QED
    BY <1>1, <2>2
<1> QED
  BY <1>3, <1>4

\* What is saved is a list of aliases.
LEMMA SavedLines == ASSUME NEW t \in Tables PROVE write_alias(t) \in Seq(Entries)
<1> DEFINE used == {h \in Places : t.main[h] # NoEntry}
           ordered == CHOOSE s \in [1 .. Cardinality(used) -> used] :
                        \A i, j \in DOMAIN s : i < j => s[i] < s[j]
<1>1. used \in SUBSET Nat /\ IsFiniteSet(used)
  <2>1. MAX_CUR \in Int
    BY DEF MAX_CUR
  <2>2. IsFiniteSet(0 .. MAX_CUR - 1)
    BY <2>1, FS_Interval
  <2>3. used \subseteq Places /\ Places \subseteq 0 .. MAX_CUR - 1
    BY PlacesAssumption
  <2>4. used \in SUBSET (0 .. MAX_CUR - 1)
    BY <2>3
  <2>5. IsFiniteSet(used)
    BY <2>2, <2>4, FS_Subset
  <2> QED
    BY <2>1, <2>4, <2>5
<1>2. Cardinality(used) \in Nat
  BY <1>1, FS_CardinalityType
<1>3. ordered \in [1 .. Cardinality(used) -> used]
  BY <1>1, SetInOrder
<1>4. \A h \in used : t.main[h] \in Entries
  BY DEF Tables
<1>5. write_alias(t) = [i \in DOMAIN ordered |-> t.main[ordered[i]]]
  BY DEF write_alias
<1> HIDE DEF ordered, used
<1>6. write_alias(t) \in [1 .. Cardinality(used) -> Entries]
  BY <1>3, <1>4, <1>5
<1> QED
  BY <1>2, <1>6

-----------------------------------------------------------------------------
(* Types.                                                                  *)

LEMMA JobSet ==
  ASSUME TypeOK, NEW j \in DOMAIN jobs, NEW st \in JobStates
  PROVE  LET u == [jobs EXCEPT ![j].state = st]
         IN  /\ u \in Seq(Jobs) /\ Len(u) = Len(jobs) /\ DOMAIN u = DOMAIN jobs
             /\ u[j] = [jobs[j] EXCEPT !.state = st]
             /\ \A i \in DOMAIN jobs : i # j => u[i] = jobs[i]
<1> DEFINE u == [jobs EXCEPT ![j].state = st]
<1>1. jobs \in Seq(Jobs)
  BY DEF TypeOK
<1>2. jobs[j] \in Jobs
  BY <1>1
<1>3. [jobs[j] EXCEPT !.state = st] \in Jobs
  BY <1>2 DEF Jobs
<1>4. u = [jobs EXCEPT ![j] = [jobs[j] EXCEPT !.state = st]]
  BY <1>1
<1> QED
  BY <1>1, <1>3, <1>4

LEMMA ObtainTypes ==
  ASSUME TypeOK, NEW c, Obtain(c)
  PROVE  /\ profile' \in Seq(Commands) /\ alias_pos' \in Nat
         /\ Reading /\ UNCHANGED <<mode, asking, line, line_full, shells, ints>>
<1>1. profile \in Seq(Commands) /\ alias_pos \in Nat
  BY DEF TypeOK
<1>2. CASE UNCHANGED <<profile, alias_pos>>
  BY <1>1, <1>2 DEF Obtain
<1>3. CASE ~EndOfProfile /\ profile' = Tail(profile) /\ UNCHANGED alias_pos
  BY <1>1, <1>3 DEF Obtain, EndOfProfile
<1>4. CASE alias_pos' = alias_pos + 1 /\ UNCHANGED profile
  BY <1>1, <1>4 DEF Obtain
<1> QED
  BY <1>2, <1>3, <1>4 DEF Obtain

\* What an exit does to the file; Crashes leaves it alone.
LEMMA ExitTypes ==
  ASSUME TypeOK, ShellExits(ar)
  PROVE  /\ pc' \in {"save", "down"} /\ clean' \in BOOLEAN
         /\ file' \in Seq(Entries) /\ to_write' \in Seq(Entries)
<1>1. ar \in Tables /\ file \in Seq(Entries) /\ to_write \in Seq(Entries) /\ clean \in BOOLEAN
  BY DEF TypeOK, TableOK
<1>2. write_alias(ar) \in Seq(Entries)
  BY <1>1, SavedLines
<1>3. <<>> \in Seq(Entries)
  OBVIOUS
<1>4. CASE pc' = "save" /\ file' = <<>> /\ to_write' = write_alias(ar) /\ UNCHANGED clean
  BY <1>1, <1>2, <1>3, <1>4
<1>5. CASE pc' = "down" /\ clean' = TRUE /\ UNCHANGED <<file, to_write>>
  BY <1>1, <1>5
<1> QED
  BY <1>4, <1>5 DEF ShellExits

ShellTypes == TypeOK /\ Settled(ar)

LEMMA InitTypes == Init => ShellTypes
<1> SUFFICES ASSUME Init PROVE ShellTypes
  OBVIOUS
<1>1. TableOK /\ Settled(ar)
  BY InitSettled DEF Init, TableInv
<1>2. profile \in Seq(Commands) /\ file \in Seq(Entries)
  BY FilesAssumption DEF Init, LoopInit
<1>3. jobs = <<>> /\ jobs \in Seq(Jobs) /\ Len(jobs) = 0 /\ to_write \in Seq(Entries)
  BY DEF Init, LoopInit
<1>4. ints \in 0 .. MAX_INTS /\ shells \in 1 .. MAX_SHELLS /\ Len(jobs) <= MAX_JOBS
  BY <1>3, BoundsAssumption DEF Init
<1>5. /\ mode = "profile" /\ pc = "read" /\ asking = FALSE /\ line \in {"null", "buffer"} /\ line_full = TRUE
      /\ alias_pos = 0 /\ waiting_for = 0 /\ exit_reg = FALSE /\ clean = FALSE
  BY DEF Init, LoopInit, NoJob
<1>6. waiting_for \in 0 .. Len(jobs) /\ alias_pos \in Nat
  BY <1>3, <1>5
<1>7. asking \in BOOLEAN /\ line_full \in BOOLEAN /\ exit_reg \in BOOLEAN /\ clean \in BOOLEAN
  BY <1>5
<1>8. TypeOK
  BY <1>1, <1>2, <1>3, <1>4, <1>5, <1>6, <1>7 DEF TypeOK
<1> QED
  BY <1>1, <1>8 DEF ShellTypes

\* Most steps leave the table alone.
LEMMA SameTable ==
  ASSUME ShellTypes, UNCHANGED tableVars
  PROVE  TableOK' /\ Settled(ar')
BY DEF ShellTypes, TypeOK, TableOK, tableVars

LEMMA StepTypes == ShellTypes /\ [Next]_vars => ShellTypes'
<1> SUFFICES ASSUME ShellTypes, [Next]_vars PROVE TypeOK' /\ Settled(ar')
  BY DEF ShellTypes
<1> USE SameTable DEF ShellTypes
<1>1. CASE LastLine
  BY <1>1 DEF LastLine, TypeOK
<1>2. CASE NextMode
  <2>1. alias_pos' \in Nat /\ mode' \in {"profile", "alias", "prompt"} /\ line_full' \in BOOLEAN
    <3>1. alias_pos \in Nat /\ line_full \in BOOLEAN /\ (file # <<>>) \in BOOLEAN
      BY DEF TypeOK
    <3>2. CASE mode = "profile"
      <4>1. mode' = "alias" /\ line_full' = (file # <<>>) /\ alias_pos' \in {0, 1}
        BY <1>2, <3>2 DEF NextMode
      <4> QED
        BY <3>1, <4>1
    <3>3. CASE mode # "profile"
      <4>1. mode' = "prompt" /\ line_full' = line_full /\ alias_pos' = alias_pos
        BY <1>2, <3>3 DEF NextMode
      <4> QED
        BY <3>1, <4>1
    <3> QED
      BY <3>2, <3>3
  <2>2. pc' \in {"read", "wait", "save", "down"} /\ UNCHANGED <<file, to_write, clean>>
    BY <1>2 DEF NextMode, Crashes, TypeOK
  <2> QED
    BY <1>2, <2>1, <2>2 DEF NextMode, TypeOK
<1>3. CASE NoChild
  BY <1>3, ObtainTypes DEF NoChild, TypeOK
<1>4. CASE SetAlias
  <2> PICK k \in Key, v \in Val : Obtain([kind |-> "alias", key |-> k, val |-> v]) /\ Add(k, v)
    BY <1>4 DEF SetAlias
  <2>1. TableOK' /\ Settled(ar')
    BY AddSets DEF TableInv, TypeOK
  <2>2. pc' \in {"read", "wait", "save", "down"} /\ UNCHANGED <<file, to_write, clean, jobs, waiting_for, exit_reg>>
    BY <1>4 DEF SetAlias, Crashes, TypeOK
  <2> QED
    BY <2>1, <2>2, ObtainTypes DEF TypeOK
<1>5. CASE Bare
  BY <1>5, ObtainTypes DEF Bare, Crashes, TypeOK
<1>6. CASE Exit
  BY <1>6, ObtainTypes, ExitTypes DEF Exit, TypeOK
<1>7. ASSUME NEW fg \in BOOLEAN, Fork(fg)
      PROVE  TypeOK' /\ Settled(ar')
  <2>1. jobs \in Seq(Jobs) /\ jobs' = Append(jobs, NewJob(fg)) /\ Len(jobs) < MAX_JOBS /\ waiting_for \in 0 .. Len(jobs)
    BY <1>7 DEF Fork, TypeOK
  <2>2. NewJob(fg) \in Jobs
    BY DEF NewJob, Jobs, JobStates, TypeOK, TableOK
  <2>3. jobs' \in Seq(Jobs) /\ Len(jobs') = Len(jobs) + 1 /\ Len(jobs) \in Nat
    BY <2>1, <2>2
  <2>4. Len(jobs') <= MAX_JOBS /\ waiting_for' \in 0 .. Len(jobs') /\ pc' \in {"read", "wait", "save", "down"}
    BY <1>7, <2>1, <2>3, BoundsAssumption DEF Fork, TypeOK
  <2> QED
    BY <1>7, <2>3, <2>4, ObtainTypes DEF Fork, TypeOK
<1>8. CASE ForkFails
  BY <1>8, ObtainTypes, ExitTypes DEF ForkFails, TypeOK
<1>9. CASE Reap
  <2> PICK j \in DOMAIN jobs : jobs' = [jobs EXCEPT ![j].state = "reaped"]
    BY <1>9 DEF Reap
  <2>1. jobs' \in Seq(Jobs) /\ Len(jobs') = Len(jobs)
    BY JobSet DEF JobStates
  <2>2. waiting_for' \in 0 .. Len(jobs')
    BY <1>9, <2>1 DEF Reap, NoJob, TypeOK
  <2> QED
    BY <1>9, <2>1, <2>2 DEF Reap, readVars, TypeOK
<1>10. CASE WriteLine
  <2>1. file \in Seq(Entries) /\ to_write \in Seq(Entries) /\ to_write # <<>>
    BY <1>10 DEF WriteLine, TypeOK
  <2>2. Append(file, Head(to_write)) \in Seq(Entries) /\ Tail(to_write) \in Seq(Entries)
    BY <2>1
  <2> QED
    BY <1>10, <2>2 DEF WriteLine, loopVars, readVars, TypeOK
<1>11. CASE Saved
  BY <1>11 DEF Saved, readVars, TypeOK
<1>12. CASE Restart
  <2>1. TableOK' /\ Settled(ar')
    <3>1. TableInit' => TableInv'
      BY InitSettled, PTL
    <3> QED
      BY <1>12, <3>1 DEF Restart, TableInit, TableInv
  <2>2. profile' \in Seq(Commands) /\ to_write' \in Seq(Entries) /\ jobs' \in Seq(Jobs) /\ Len(jobs') = 0
    BY <1>12, FilesAssumption DEF Restart
  <2>3. shells' \in 1 .. MAX_SHELLS /\ Len(jobs') <= MAX_JOBS /\ waiting_for' \in 0 .. Len(jobs')
    BY <1>12, <2>2, BoundsAssumption DEF Restart, NoJob, TypeOK
  <2> QED
    BY <1>12, <2>1, <2>2, <2>3 DEF Restart, TypeOK
<1>13. ASSUME NEW j \in DOMAIN jobs, Exec(j) \/ Ends(j) \/ Returns(j)
       PROVE  TypeOK' /\ Settled(ar')
  <2>1. jobs' \in Seq(Jobs) /\ Len(jobs') = Len(jobs)
    <3>1. PICK st \in JobStates : jobs' = [jobs EXCEPT ![j].state = st]
      BY <1>13 DEF JobStates, Exec, Ends, Returns
    <3> QED
      BY <3>1, JobSet
  <2>2. ShellSame /\ UNCHANGED ints
    BY <1>13 DEF Exec, Ends, Returns
  <2>3. file' = file
    BY <1>13 DEF Exec, Ends, Returns, is_shell, NoJob, TypeOK
  <2> QED
    BY <2>1, <2>2, <2>3 DEF ShellSame, loopVars, readVars, TypeOK
<1>14. CASE Interrupt
  <2>1. jobs' \in Seq(Jobs) /\ Len(jobs') = Len(jobs)
    <3>1. PICK hit \in SUBSET DOMAIN jobs :
            jobs' = [j \in DOMAIN jobs |-> IF j \in hit THEN [jobs[j] EXCEPT !.state = "zombie"] ELSE jobs[j]]
      BY <1>14 DEF Interrupt
    <3>2. jobs \in Seq(Jobs)
      BY DEF TypeOK
    <3>3. \A j \in DOMAIN jobs : jobs[j] \in Jobs /\ [jobs[j] EXCEPT !.state = "zombie"] \in Jobs
      <4> SUFFICES ASSUME NEW j \in DOMAIN jobs
                   PROVE  jobs[j] \in Jobs /\ [jobs[j] EXCEPT !.state = "zombie"] \in Jobs
        OBVIOUS
      <4>1. jobs[j] \in Jobs
        BY <3>2
      <4> QED
        BY <4>1 DEF Jobs, JobStates
    <3>4. jobs' \in [1 .. Len(jobs) -> Jobs]
      BY <3>1, <3>2, <3>3
    <3> QED
      BY <3>2, <3>4
  <2>2. ints' \in 0 .. MAX_INTS
    BY <1>14, BoundsAssumption DEF Interrupt, TypeOK
  <2> QED
    BY <1>14, <2>1, <2>2 DEF Interrupt, readVars, TypeOK
<1>15. CASE AnswerYes
  <2>1. /\ pc' \in {"save", "down"} /\ clean' \in BOOLEAN
        /\ file' \in Seq(Entries) /\ to_write' \in Seq(Entries)
    BY <1>15, ExitTypes DEF AnswerYes, Crashes, TypeOK
  <2> QED
    BY <1>15, <2>1 DEF AnswerYes, readVars, TypeOK
<1>16. CASE AnswerNo
  <2>1. pc' \in {"read", "wait", "save", "down"} /\ waiting_for' \in 0 .. Len(jobs)
    BY <1>16 DEF AnswerNo, NoJob, TypeOK
  <2> QED
    BY <1>16, <2>1 DEF AnswerNo, readVars, TypeOK
<1>17. CASE UNCHANGED vars
  BY <1>17 DEF vars, tableVars, loopVars, readVars, TypeOK
<1> QED
  BY <1>1, <1>2, <1>3, <1>4, <1>5, <1>6, <1>7, <1>8, <1>9, <1>10, <1>11, <1>12, <1>13, <1>14, <1>15, <1>16, <1>17
     DEF Next, Loop, ChildStep

THEOREM TypeCorrect == Spec => []TypeOK
<1>1. ShellTypes => TypeOK
  BY DEF ShellTypes
<1> QED
  BY <1>1, InitTypes, StepTypes, PTL DEF Spec

-----------------------------------------------------------------------------
(* What an exit saved.                                                     *)

\* While bye writes, the file and what is left make up what is to be saved.
Saving == /\ asking => pc # "down"
          /\ clean => pc = "down"
          /\ pc = "save" => exit_reg /\ file \o to_write = write_alias(ar)
          /\ SavedStays

SaveInv == ShellTypes /\ Saving

LEMMA InitSaves == Init => Saving
BY DEF Init, LoopInit, Saving, SavedStays

\* An exit begins to save, or there is nothing to save yet.
LEMMA ExitSaves ==
  ASSUME SaveInv, ShellExits(ar), ~asking', UNCHANGED <<tableVars, exit_reg>>, pc \in {"read", "wait"}
  PROVE  Saving'
<1>1. ~clean /\ ar' = ar /\ exit_reg' = exit_reg
  BY DEF SaveInv, Saving, tableVars
<1>2. write_alias(ar) \in Seq(Entries)
  BY SavedLines DEF SaveInv, ShellTypes, TypeOK, TableOK
<1>3. CASE exit_reg
  <2>1. pc' = "save" /\ file' = <<>> /\ to_write' = write_alias(ar) /\ clean' = clean
    BY <1>3 DEF ShellExits, is_shell, NoJob
  <2>2. file' \o to_write' = write_alias(ar)
    BY <1>2, <2>1
  <2>3. write_alias(ar') = write_alias(ar)
    BY <1>1
  <2> QED
    BY <1>1, <1>3, <2>1, <2>2, <2>3 DEF Saving, SavedStays
<1>4. CASE ~exit_reg
  BY <1>1, <1>4 DEF ShellExits, Saving, SavedStays
<1> QED
  BY <1>3, <1>4

\* A step that leaves all of it alone.
LEMMA SameSaving ==
  ASSUME Saving, UNCHANGED <<tableVars, file, to_write, clean>>,
         UNCHANGED exit_reg \/ pc # "down",
         pc' = pc \/ pc' \in {"read", "wait"} \/ (pc' = "down" /\ ~asking'),
         pc = "save" => pc' = pc /\ UNCHANGED exit_reg,
         pc = "down" => pc' = "down" \/ ~clean,
         asking' => pc' # "down"
  PROVE  Saving'
<1>1. ar' = ar
  BY DEF tableVars
<1>2. write_alias(ar') = write_alias(ar)
  BY <1>1
<1> QED
  BY <1>2 DEF Saving, SavedStays

\* One that leaves the shell where it is.
LEMMA SameShell ==
  ASSUME Saving, UNCHANGED <<tableVars, file, to_write, clean>>, UNCHANGED <<pc, exit_reg>>,
         asking' => pc # "down"
  PROVE  Saving'
<1>1. ar' = ar
  BY DEF tableVars
<1>2. write_alias(ar') = write_alias(ar)
  BY <1>1
<1> QED
  BY <1>2 DEF Saving, SavedStays

LEMMA StepSaves == SaveInv /\ [Next]_vars => SaveInv'
<1> SUFFICES ASSUME SaveInv, [Next]_vars PROVE Saving'
  BY StepTypes DEF SaveInv
<1>0. ShellTypes /\ Saving /\ TypeOK
  BY DEF SaveInv, ShellTypes
<1>1. CASE LastLine
  BY <1>0, <1>1, SameSaving DEF LastLine, Reading
<1>2. CASE NextMode
  BY <1>0, <1>2, SameSaving DEF NextMode, Reading, Crashes
<1>3. CASE NoChild
  BY <1>0, <1>3, SameSaving, ObtainTypes DEF NoChild, Reading
<1>4. CASE SetAlias
  <2>1. pc = "read" /\ ~asking /\ ~asking' /\ ~clean
    BY <1>0, <1>4, ObtainTypes DEF SetAlias, Reading, Saving
  <2>2. pc' \in {"read", "down"} /\ clean' = clean
    BY <1>4, <2>1 DEF SetAlias, Crashes
  <2> QED
    BY <2>1, <2>2 DEF Saving, SavedStays
<1>5. CASE Bare
  BY <1>0, <1>5, SameSaving, ObtainTypes DEF Bare, Reading, Crashes
<1>6. CASE Exit \/ ForkFails
  <2>1. pc = "read" /\ ~asking'
    BY <1>0, <1>6, ObtainTypes DEF Exit, ForkFails, Reading
  <2>2. ShellExits(ar) /\ UNCHANGED <<tableVars, exit_reg>>
    BY <1>6 DEF Exit, ForkFails
  <2> QED
    BY <2>1, <2>2, ExitSaves
<1>7. ASSUME NEW fg \in BOOLEAN, Fork(fg)
      PROVE  Saving'
  <2>1. pc = "read" /\ ~asking /\ asking' = asking
    BY <1>0, <1>7, ObtainTypes DEF Fork, Reading
  <2>2. pc' \in {"read", "wait"} /\ UNCHANGED <<tableVars, file, to_write, clean>>
    BY <1>7, <2>1 DEF Fork
  <2> QED
    BY <1>0, <2>1, <2>2, SameSaving
<1>9. CASE Reap
  BY <1>0, <1>9, SameSaving DEF Reap, readVars
<1>10. CASE WriteLine
  <2>1. file \in Seq(Entries) /\ to_write \in Seq(Entries) /\ to_write # <<>>
    BY <1>0, <1>10 DEF WriteLine, TypeOK
  <2>2. Append(file, Head(to_write)) \o Tail(to_write) = file \o to_write
    BY <2>1
  <2>3. /\ pc = "save" /\ pc' = pc /\ asking' = asking /\ clean' = clean /\ exit_reg' = exit_reg /\ ar' = ar
        /\ file' \o to_write' = file \o to_write
    BY <1>10, <2>2 DEF WriteLine, loopVars, tableVars
  <2>4. write_alias(ar') = write_alias(ar)
    BY <2>3
  <2> QED
    BY <1>0, <2>3, <2>4 DEF Saving, SavedStays
<1>11. CASE Saved
  <2>1. /\ pc = "save" /\ ~asking' /\ file' = file /\ to_write = <<>> /\ exit_reg' = exit_reg /\ ar' = ar
        /\ pc' = "down" /\ clean' = TRUE
    BY <1>11 DEF Saved, tableVars
  <2>2. file \o to_write = file
    BY <1>0, <2>1 DEF TypeOK
  <2>3. file = write_alias(ar) /\ write_alias(ar') = write_alias(ar)
    BY <1>0, <2>1, <2>2 DEF Saving
  <2> QED
    BY <2>1, <2>3 DEF Saving, SavedStays
<1>12. CASE Restart
  BY <1>12 DEF Restart, Saving, SavedStays
<1>13. ASSUME NEW j \in DOMAIN jobs, Exec(j) \/ Ends(j) \/ Returns(j)
       PROVE  Saving'
  <2>1. j # 0
    BY <1>0 DEF TypeOK
  <2>2. file' = file /\ ShellSame
    BY <1>13, <2>1 DEF Exec, Ends, Returns, is_shell, NoJob
  <2>3. UNCHANGED <<tableVars, file, to_write, clean>> /\ UNCHANGED <<pc, asking, exit_reg>>
    BY <2>2 DEF ShellSame, loopVars
  <2>4. asking' => pc' # "down"
    BY <1>0, <2>3 DEF Saving
  <2> QED
    BY <1>0, <2>3, <2>4, SameShell
<1>14. CASE Interrupt
  <2>1. UNCHANGED <<tableVars, file, to_write, clean>> /\ UNCHANGED <<pc, exit_reg>> /\ pc # "down"
    BY <1>14 DEF Interrupt
  <2> QED
    BY <1>0, <2>1, SameShell
<1>15. CASE AnswerYes
  <2>1. asking /\ ~asking' /\ pc # "down" /\ UNCHANGED <<tableVars, exit_reg>>
    BY <1>0, <1>15 DEF AnswerYes, Saving
  <2>2. CASE pc = "save"
    BY <1>0, <1>15, <2>1, <2>2 DEF AnswerYes, Crashes, Saving, SavedStays
  <2>3. CASE pc # "save"
    <3>1. ShellExits(ar) /\ pc \in {"read", "wait"}
      BY <1>0, <1>15, <2>1, <2>3 DEF AnswerYes, TypeOK
    <3> QED
      BY <2>1, <3>1, ExitSaves DEF AnswerYes
  <2> QED
    BY <2>2, <2>3
<1>16. CASE AnswerNo
  BY <1>0, <1>16, SameSaving DEF AnswerNo, Saving
<1>17. CASE UNCHANGED vars
  <2>1. UNCHANGED <<tableVars, file, to_write, clean>> /\ UNCHANGED <<pc, asking, exit_reg>>
    BY <1>17 DEF vars, loopVars
  <2>2. asking' => pc' # "down"
    BY <1>0, <2>1 DEF Saving
  <2> QED
    BY <1>0, <2>1, <2>2, SameShell
<1> QED
  BY <1>1, <1>2, <1>3, <1>4, <1>5, <1>6, <1>7, <1>9, <1>10, <1>11, <1>12, <1>13, <1>14, <1>15, <1>16, <1>17
     DEF Next, Loop, ChildStep

\* Whatever children return from main, in whatever order, and however often SIGINT
\* comes in between: the file of a shell that ended through bye is its table.
THEOREM SavedStaysSaved == Spec => []SavedStays
<1>1. Init => SaveInv
  BY InitTypes, InitSaves DEF SaveInv
<1>2. SaveInv => SavedStays
  BY DEF SaveInv, Saving
<1> QED
  BY <1>1, <1>2, StepSaves, PTL DEF Spec

-----------------------------------------------------------------------------
(* Children to wait for.                                                   *)

Background == {j \in DOMAIN jobs : ~jobs[j].fg}
AwaitedJobs == IF pc = "wait" THEN 1 ELSE 0

CountInv == ShellTypes /\ EnoughChildren

LEMMA JobsFinite ==
  ASSUME TypeOK
  PROVE  /\ IsFiniteSet(DOMAIN jobs) /\ IsFiniteSet(Unreaped) /\ IsFiniteSet(Background)
         /\ Cardinality(Unreaped) \in Nat /\ Cardinality(Background) \in Nat
<1>1. Len(jobs) \in Nat /\ DOMAIN jobs = 1 .. Len(jobs)
  BY DEF TypeOK
<1>2. IsFiniteSet(DOMAIN jobs)
  BY <1>1, FS_Interval
<1>3. Unreaped \subseteq DOMAIN jobs /\ Background \subseteq DOMAIN jobs
  BY DEF Unreaped, Background
<1>4. IsFiniteSet(Unreaped) /\ IsFiniteSet(Background)
  BY <1>2, <1>3, FS_Subset
<1> QED
  BY <1>2, <1>4, FS_CardinalityType

\* A child that goes on, but not to "reaped", counts as before.
LEMMA SameCount ==
  ASSUME TypeOK, EnoughChildren, Unreaped' = Unreaped, Background' = Background,
         pc' = "wait" => pc = "wait"
  PROVE  EnoughChildren'
<1>1. Unreaped' = Unreaped /\ Background' = Background
  OBVIOUS
<1>2. Cardinality(Unreaped') = Cardinality(Unreaped) /\ Cardinality(Background') = Cardinality(Background)
  BY <1>1
<1>3. Cardinality(Unreaped) >= Cardinality(Background) + AwaitedJobs
  BY DEF EnoughChildren, Background, AwaitedJobs
<1>4. AwaitedJobs' \in {0, 1} /\ AwaitedJobs \in {0, 1} /\ AwaitedJobs' <= AwaitedJobs
  BY DEF AwaitedJobs
<1>5. Cardinality(Unreaped') >= Cardinality(Background') + AwaitedJobs'
  BY <1>2, <1>3, <1>4, JobsFinite
<1> QED
  BY <1>5 DEF EnoughChildren, Background, AwaitedJobs

LEMMA SameJobs ==
  ASSUME TypeOK, EnoughChildren, UNCHANGED jobs, pc' = "wait" => pc = "wait"
  PROVE  EnoughChildren'
<1>1. Unreaped' = Unreaped /\ Background' = Background
  BY DEF Unreaped, Background
<1> QED
  BY <1>1, SameCount

LEMMA ForkCounts ==
  ASSUME CountInv, NEW fg \in BOOLEAN, Fork(fg)
  PROVE  EnoughChildren'
<1> DEFINE n == Len(jobs) + 1
<1>1. /\ pc = "read" /\ jobs \in Seq(Jobs) /\ jobs' = Append(jobs, NewJob(fg))
      /\ pc' = IF fg THEN "wait" ELSE "read"
  BY ObtainTypes DEF CountInv, ShellTypes, TypeOK, Fork, Reading
<1>2. /\ DOMAIN jobs' = DOMAIN jobs \cup {n} /\ n \notin DOMAIN jobs
      /\ jobs'[n] = NewJob(fg) /\ \A i \in DOMAIN jobs : jobs'[i] = jobs[i]
  BY <1>1
<1>3. Unreaped' = Unreaped \cup {n} /\ n \notin Unreaped
  BY <1>2 DEF Unreaped, NewJob
<1>4. Background' = IF fg THEN Background ELSE Background \cup {n}
  BY <1>2 DEF Background, NewJob
<1>5. n \notin Background
  BY <1>2 DEF Background
<1>6. TypeOK
  BY DEF CountInv, ShellTypes
<1>7. Cardinality(Unreaped') = Cardinality(Unreaped) + 1
  BY <1>3, <1>6, JobsFinite, FS_AddElement
<1>8. Cardinality(Background') = Cardinality(Background) + (IF fg THEN 0 ELSE 1)
  <2>1. Cardinality(Background) \in Nat /\ IsFiniteSet(Background)
    BY <1>6, JobsFinite
  <2>2. CASE fg
    <3>1. Background' = Background
      BY <1>4, <2>2
    <3>2. Cardinality(Background') = Cardinality(Background)
      BY <3>1
    <3> QED
      BY <2>1, <2>2, <3>2
  <2>3. CASE ~fg
    <3>1. Background' = Background \cup {n}
      BY <1>4, <2>3
    <3>2. Cardinality(Background') = Cardinality(Background) + 1
      BY <1>5, <2>1, <3>1, FS_AddElement
    <3> QED
      BY <2>3, <3>2
  <2> QED
    BY <2>2, <2>3
<1>9. Cardinality(Unreaped) >= Cardinality(Background) + 0
  BY <1>1 DEF CountInv, EnoughChildren, Background
<1>10. Cardinality(Unreaped') >= Cardinality(Background') + AwaitedJobs'
  BY <1>1, <1>6, <1>7, <1>8, <1>9, JobsFinite DEF AwaitedJobs
<1> QED
  BY <1>10 DEF EnoughChildren, Background, AwaitedJobs

LEMMA ReapCounts == ASSUME CountInv, Reap PROVE EnoughChildren'
<1>1. TypeOK
  BY DEF CountInv, ShellTypes
<1> PICK j \in DOMAIN jobs : Reaps(j) /\ jobs' = [jobs EXCEPT ![j].state = "reaped"]
  BY DEF Reap
<1>2. /\ DOMAIN jobs' = DOMAIN jobs /\ jobs'[j].state = "reaped" /\ jobs'[j].fg = jobs[j].fg
      /\ \A i \in DOMAIN jobs : i # j => jobs'[i] = jobs[i]
  <2>1. jobs \in Seq(Jobs)
    BY <1>1 DEF TypeOK
  <2>2. jobs[j] \in Jobs
    BY <2>1
  <2>3. jobs'[j] = [jobs[j] EXCEPT !.state = "reaped"] /\ DOMAIN jobs' = DOMAIN jobs
        /\ \A i \in DOMAIN jobs : i # j => jobs'[i] = jobs[i]
    BY <1>1, JobSet DEF JobStates
  <2> QED
    BY <2>2, <2>3 DEF Jobs
<1>3. jobs[j].state = "zombie"
  BY DEF Reaps, Zombies
<1>4. Unreaped' = Unreaped \ {j} /\ j \in Unreaped
  BY <1>2, <1>3 DEF Unreaped
<1>5. Background' = Background
  BY <1>2 DEF Background
<1>6. Cardinality(Unreaped') = Cardinality(Unreaped) - 1
  BY <1>1, <1>4, JobsFinite, FS_RemoveElement
<1>7. pc = "wait" /\ pc' = "read"
  BY DEF Reap
<1>8. Cardinality(Unreaped) >= Cardinality(Background) + 1
  BY <1>7 DEF CountInv, EnoughChildren, Background
<1>9. Cardinality(Background') = Cardinality(Background)
  BY <1>5
<1>10. Cardinality(Unreaped') >= Cardinality(Background')
  BY <1>1, <1>6, <1>8, <1>9, JobsFinite
<1>11. Cardinality(Background') + 0 = Cardinality(Background')
  BY <1>1, <1>9, JobsFinite
<1> QED
  BY <1>7, <1>10, <1>11 DEF EnoughChildren, Background

LEMMA StepCounts == CountInv /\ [Next]_vars => CountInv'
<1> SUFFICES ASSUME CountInv, [Next]_vars PROVE EnoughChildren'
  BY StepTypes DEF CountInv
<1>0. ShellTypes /\ EnoughChildren /\ TypeOK
  BY DEF CountInv, ShellTypes
<1>1. CASE LastLine \/ NextMode \/ NoChild
  <2>1. UNCHANGED jobs /\ (pc' = pc \/ pc' = "down")
    BY <1>1 DEF LastLine, NextMode, NoChild, Crashes
  <2> QED
    BY <1>0, <2>1, SameJobs
<1>2. CASE SetAlias \/ Bare
  <2>1. UNCHANGED jobs /\ (pc' = pc \/ pc' = "down")
    BY <1>2 DEF SetAlias, Bare, Crashes
  <2> QED
    BY <1>0, <2>1, SameJobs
<1>3. CASE Exit \/ ForkFails \/ AnswerYes
  <2>1. UNCHANGED jobs /\ pc' \in {"save", "down"}
    BY <1>3 DEF Exit, ForkFails, AnswerYes, ShellExits, Crashes
  <2> QED
    BY <1>0, <2>1, SameJobs
<1>4. ASSUME NEW fg \in BOOLEAN, Fork(fg)
      PROVE  EnoughChildren'
  BY <1>4, ForkCounts
<1>5. CASE Reap
  BY <1>5, ReapCounts
<1>6. CASE WriteLine \/ Saved \/ AnswerNo
  <2>1. UNCHANGED jobs /\ (pc' = pc \/ pc' \in {"read", "down"})
    BY <1>6 DEF WriteLine, Saved, AnswerNo, loopVars
  <2> QED
    BY <1>0, <2>1, SameJobs
<1>7. CASE Restart
  <2>1. jobs' = <<>> /\ pc' = "read"
    BY <1>7 DEF Restart
  <2>2. Unreaped' = {} /\ Background' = {}
    BY <2>1 DEF Unreaped, Background
  <2>3. Cardinality(Unreaped') = 0 /\ Cardinality(Background') = 0
    BY <2>2, FS_EmptySet
  <2> QED
    BY <2>1, <2>3 DEF EnoughChildren, Background
<1>8. ASSUME NEW j \in DOMAIN jobs, Exec(j) \/ Ends(j) \/ Returns(j)
      PROVE  EnoughChildren'
  <2> PICK st \in JobStates : /\ st # "reaped" /\ jobs[j].state # "reaped"
                              /\ jobs' = [jobs EXCEPT ![j].state = st]
    BY <1>8 DEF JobStates, Exec, Ends, Returns
  <2>1. jobs[j] \in Jobs
    BY <1>0 DEF TypeOK
  <2>2. DOMAIN jobs' = DOMAIN jobs /\ jobs'[j] = [jobs[j] EXCEPT !.state = st]
        /\ \A i \in DOMAIN jobs : i # j => jobs'[i] = jobs[i]
    BY <1>0, JobSet
  <2>3. jobs'[j].state = st /\ jobs'[j].fg = jobs[j].fg
    BY <2>1, <2>2 DEF Jobs
  <2>4. Unreaped' = Unreaped /\ Background' = Background
    BY <2>2, <2>3 DEF Unreaped, Background
  <2>5. pc' = pc
    BY <1>8 DEF Exec, Ends, Returns, ShellSame, loopVars
  <2> QED
    BY <1>0, <2>4, <2>5, SameCount
<1>9. CASE Interrupt
  <2> PICK hit \in SUBSET {j \in DOMAIN jobs : jobs[j].state = "running"} :
             jobs' = [j \in DOMAIN jobs |->
                        IF j \in hit THEN [jobs[j] EXCEPT !.state = "zombie"] ELSE jobs[j]]
    BY <1>9 DEF Interrupt
  <2>1. DOMAIN jobs' = DOMAIN jobs
    OBVIOUS
  <2>2. ASSUME NEW j \in DOMAIN jobs
        PROVE  /\ jobs'[j].state # "reaped" <=> jobs[j].state # "reaped"
               /\ jobs'[j].fg = jobs[j].fg
    <3>1. jobs[j] \in Jobs
      BY <1>0 DEF TypeOK
    <3>2. CASE j \in hit
      BY <3>1, <3>2 DEF Jobs
    <3>3. CASE j \notin hit
      BY <3>3
    <3> QED
      BY <3>2, <3>3
  <2>3. Unreaped' = Unreaped /\ Background' = Background
    BY <2>1, <2>2 DEF Unreaped, Background
  <2> QED
    BY <1>0, <1>9, <2>3, SameCount DEF Interrupt
<1>10. CASE UNCHANGED vars
  <2>1. UNCHANGED <<jobs, pc>>
    BY <1>10 DEF vars, loopVars
  <2> QED
    BY <1>0, <2>1, SameJobs
<1> QED
  BY <1>1, <1>2, <1>3, <1>4, <1>5, <1>6, <1>7, <1>8, <1>9, <1>10 DEF Next, Loop, ChildStep

\* However children and background commands interleave: each one not yet taken by
\* waitpid is accounted for, so that the shell never waits without a child.
THEOREM AlwaysEnoughChildren == Spec => []EnoughChildren
<1>1. Init => CountInv
  <2> SUFFICES ASSUME Init PROVE EnoughChildren
    BY InitTypes DEF CountInv
  <2>1. jobs = <<>> /\ pc = "read"
    BY DEF Init, LoopInit
  <2>2. Unreaped = {} /\ Background = {}
    BY <2>1 DEF Unreaped, Background
  <2>3. Cardinality(Unreaped) = 0 /\ Cardinality(Background) = 0
    BY <2>2, FS_EmptySet
  <2> QED
    BY <2>1, <2>3 DEF EnoughChildren, Background
<1>2. CountInv => EnoughChildren
  BY DEF CountInv
<1> QED
  BY <1>1, <1>2, StepCounts, PTL DEF Spec

-----------------------------------------------------------------------------
(* The lines of the alias file.                                            *)

\* The last of the lines 2 .. n about a name is what the table says of it.
PrevailsUpTo(n) ==
  \A i \in 2 .. n :
    (\A m \in i + 1 .. n : file[m].key # file[i].key) => get(ar, file[i].key) = file[i].val

\* While the alias file is read.
ReadSoFar == /\ alias_pos <= Len(file)
             /\ line = "null" => file = <<>>
             /\ ~line_full => alias_pos = Len(file)
             /\ PrevailsUpTo(alias_pos)

ReadInv == ShellTypes /\ (mode = "alias" /\ pc \in {"read", "wait"} => ReadSoFar)

\* One more line.
LEMMA LineSets ==
  ASSUME TypeOK, ReadSoFar, alias_pos < Len(file),
         SetTo(ar, ar', file[alias_pos + 1].key, file[alias_pos + 1].val),
         alias_pos' = alias_pos + 1, UNCHANGED file
  PROVE  PrevailsUpTo(alias_pos)'
<1> DEFINE n == alias_pos + 1
<1>1. /\ alias_pos \in Nat /\ Len(file) \in Nat /\ file \in Seq(Entries)
      /\ \A i \in 1 .. n : file[i] \in Entries
  BY DEF TypeOK
<1>2. ASSUME NEW i \in 2 .. n, \A m \in i + 1 .. n : file[m].key # file[i].key
      PROVE  get(ar', file[i].key) = file[i].val
  <2>1. file[i].key \in Key
    BY <1>1 DEF Entries
  <2>2. CASE i = n
    BY <2>1, <2>2 DEF SetTo
  <2>3. CASE i # n
    <3>1. i \in 2 .. alias_pos /\ n \in i + 1 .. n
      BY <1>1, <2>3
    <3>2. file[n].key # file[i].key
      BY <1>2, <3>1
    <3>3. \A m \in i + 1 .. alias_pos : file[m].key # file[i].key
      BY <1>1, <1>2
    <3>4. get(ar, file[i].key) = file[i].val
      BY <3>1, <3>3 DEF ReadSoFar, PrevailsUpTo
    <3> QED
      BY <2>1, <3>2, <3>4 DEF SetTo
  <2> QED
    BY <2>2, <2>3
<1> QED
  BY <1>2 DEF PrevailsUpTo

\* What the loop may take while it reads the alias file: the next line, an alias.
LEMMA AliasLine ==
  ASSUME mode = "alias", NEW c, Obtain(c)
  PROVE  /\ line_full /\ line = "buffer" /\ alias_pos < Len(file)
         /\ c = AliasCommand(file[alias_pos + 1]) /\ c.kind = "alias"
         /\ alias_pos' = alias_pos + 1 /\ UNCHANGED <<mode, line, line_full>>
BY DEF Obtain, HasLines, AliasCommand

\* A step that leaves the reading alone.
LEMMA SameReading ==
  ASSUME ReadInv, UNCHANGED <<tableVars, readVars, file>>, pc' = pc \/ pc \in {"read", "wait"}
  PROVE  mode' = "alias" /\ pc' \in {"read", "wait"} => ReadSoFar'
BY DEF ReadInv, ReadSoFar, PrevailsUpTo, tableVars, readVars

LEMMA StepReads == ReadInv /\ [Next]_vars => ReadInv'
<1> SUFFICES ASSUME ReadInv, [Next]_vars
             PROVE  mode' = "alias" /\ pc' \in {"read", "wait"} => ReadSoFar'
  BY StepTypes DEF ReadInv
<1>0. ShellTypes /\ TypeOK /\ Settled(ar)
  BY DEF ReadInv, ShellTypes
<1>1. CASE LastLine
  <2>1. /\ line' = line /\ mode' = mode /\ alias_pos' = alias_pos /\ file' = file /\ ar' = ar
        /\ pc = "read" /\ line_full' = FALSE /\ (mode = "alias" => alias_pos = Len(file))
    BY <1>1 DEF LastLine, Reading, tableVars
  <2> QED
    BY <2>1 DEF ReadInv, ReadSoFar, PrevailsUpTo
<1>2. CASE NextMode
  <2>1. CASE mode = "profile"
    <3>1. /\ line_full' = (file # <<>>) /\ alias_pos' = (IF file = <<>> THEN 0 ELSE 1)
          /\ line' = line /\ file' = file
          /\ line = "null" /\ file # <<>> => pc' = "down"
      BY <1>2, <2>1 DEF NextMode, Crashes
    <3>2. file \in Seq(Entries) /\ line \in {"null", "buffer"}
      BY <1>0 DEF TypeOK
    <3>3. alias_pos' <= Len(file') /\ (~line_full' => alias_pos' = Len(file'))
      <4>1. Len(file) \in Nat /\ (file = <<>> => Len(file) = 0) /\ (file # <<>> => Len(file) # 0)
        BY <3>2
      <4>2. CASE file = <<>>
        BY <3>1, <4>1, <4>2
      <4>3. CASE file # <<>>
        <5>1. line_full'
          BY <3>1, <4>3, Zenon
        <5>2. alias_pos' = 1 /\ file' = file
          BY <3>1, <4>3, Zenon
        <5>3. alias_pos' <= Len(file')
          BY <4>1, <4>3, <5>2
        <5> QED
          BY <5>1, <5>3
      <4> QED
        BY <4>2, <4>3
    <3>4. 2 .. alias_pos' = {}
      BY <3>1
    <3>5. PrevailsUpTo(alias_pos)'
      BY <3>4 DEF PrevailsUpTo
    <3> QED
      BY <3>1, <3>3, <3>5 DEF ReadSoFar
  <2>2. CASE mode # "profile"
    BY <1>2, <2>2 DEF NextMode
  <2> QED
    BY <2>1, <2>2
<1>3. CASE NoChild \/ Bare \/ Exit \/ ForkFails \/ Fork(TRUE) \/ Fork(FALSE)
  <2>1. \E c : Obtain(c) /\ c.kind # "alias"
    <3>1. CASE NoChild
      BY <3>1 DEF NoChild
    <3>2. CASE Bare
      <4>1. Obtain([kind |-> "bare"])
        BY <3>2 DEF Bare
      <4> QED
        BY <4>1
    <3>3. CASE Exit
      <4>1. Obtain([kind |-> "exit"])
        BY <3>3 DEF Exit
      <4> QED
        BY <4>1
    <3>4. CASE ForkFails
      <4>1. PICK k \in {"fg", "bg"} : Obtain([kind |-> k])
        BY <3>4 DEF ForkFails
      <4>2. [kind |-> k].kind # "alias"
        OBVIOUS
      <4> QED
        BY <4>1, <4>2
    <3>5. ASSUME NEW fg \in BOOLEAN, Fork(fg)
          PROVE  \E c : Obtain(c) /\ c.kind # "alias"
      <4>1. PICK k \in {"fg", "bg"} : Obtain([kind |-> k])
        BY <3>5 DEF Fork
      <4>2. [kind |-> k].kind # "alias"
        OBVIOUS
      <4> QED
        BY <4>1, <4>2
    <3> QED
      BY <1>3, <3>1, <3>2, <3>3, <3>4, <3>5
  <2>2. mode # "alias" /\ mode' = mode
    BY <2>1, AliasLine DEF Obtain
  <2> QED
    BY <2>2
<1>4. CASE SetAlias
  <2> PICK k \in Key, v \in Val : Obtain([kind |-> "alias", key |-> k, val |-> v]) /\ Add(k, v)
    BY <1>4 DEF SetAlias
  <2> SUFFICES ASSUME mode' = "alias", pc' \in {"read", "wait"} PROVE ReadSoFar'
    OBVIOUS
  <2>1. mode = "alias" /\ pc = "read"
    BY DEF Obtain, Reading
  <2>2. /\ line_full /\ line = "buffer" /\ alias_pos < Len(file) /\ alias_pos' = alias_pos + 1
        /\ UNCHANGED <<line, line_full>>
        /\ k = file[alias_pos + 1].key /\ v = file[alias_pos + 1].val
    BY <2>1, AliasLine DEF AliasCommand
  <2>3. ~overrun' /\ file' = file
    BY <1>4 DEF SetAlias, Crashes
  <2>4. SetTo(ar, ar', k, v)
    BY <1>0, <2>3, AddSets DEF TableInv, TypeOK
  <2>5. ReadSoFar
    BY <2>1 DEF ReadInv
  <2>6. PrevailsUpTo(alias_pos)'
    BY <1>0, <2>2, <2>3, <2>4, <2>5, LineSets
  <2>7. alias_pos' <= Len(file')
    BY <1>0, <2>2, <2>3 DEF TypeOK
  <2> QED
    BY <2>2, <2>6, <2>7 DEF ReadSoFar
<1>5. CASE Reap
  <2>1. UNCHANGED <<tableVars, readVars, file>> /\ pc = "wait"
    BY <1>5 DEF Reap
  <2> QED
    BY <2>1, SameReading
<1>6. CASE WriteLine \/ Saved
  <2>1. pc' \in {"save", "down"}
    BY <1>6 DEF WriteLine, Saved, loopVars
  <2> QED
    BY <2>1
<1>7. CASE Restart
  BY <1>7 DEF Restart
<1>8. ASSUME NEW j \in DOMAIN jobs, Exec(j) \/ Ends(j) \/ Returns(j)
      PROVE  mode' = "alias" /\ pc' \in {"read", "wait"} => ReadSoFar'
  <2>1. j # 0
    BY <1>0 DEF TypeOK
  <2>2. file' = file /\ ShellSame
    BY <1>8, <2>1 DEF Exec, Ends, Returns, is_shell, NoJob
  <2>3. UNCHANGED <<tableVars, readVars, file>> /\ pc' = pc
    BY <2>2 DEF ShellSame, loopVars
  <2> QED
    BY <2>3, SameReading
<1>9. CASE Interrupt
  <2>1. UNCHANGED <<tableVars, readVars, file>> /\ pc' = pc
    BY <1>9 DEF Interrupt
  <2> QED
    BY <2>1, SameReading
<1>10. CASE AnswerYes
  <2>1. pc' \in {"save", "down"}
    BY <1>10 DEF AnswerYes, ShellExits, Crashes
  <2> QED
    BY <2>1
<1>11. CASE AnswerNo
  <2>1. UNCHANGED <<tableVars, readVars, file>> /\ (pc' = pc \/ pc = "wait")
    BY <1>11 DEF AnswerNo
  <2> QED
    BY <2>1, SameReading
<1>12. CASE UNCHANGED vars
  <2>1. UNCHANGED <<tableVars, readVars, file>> /\ pc' = pc
    BY <1>12 DEF vars, loopVars
  <2> QED
    BY <2>1, SameReading
<1> QED
  BY <1>1, <1>2, <1>3, <1>4, <1>5, <1>6, <1>7, <1>8, <1>9, <1>10, <1>11, <1>12
     DEF Next, Loop, ChildStep

LEMMA StepWins ==
  ReadInv /\ [Next]_vars =>
    (mode = "alias" /\ mode' = "prompt" => PrevailsUpTo(Len(file)))
<1> SUFFICES ASSUME ReadInv, [Next]_vars, mode = "alias", mode' = "prompt"
             PROVE  PrevailsUpTo(Len(file))
  OBVIOUS
<1>1. CASE NextMode
  <2>1. pc = "read" /\ ~HasLines
    BY <1>1 DEF NextMode, Reading
  <2>2. ReadSoFar /\ TypeOK
    BY <2>1 DEF ReadInv, ShellTypes
  <2>3. CASE ~line_full
    <3>1. alias_pos = Len(file)
      BY <2>2, <2>3 DEF ReadSoFar
    <3> QED
      BY <2>2, <3>1 DEF ReadSoFar
  <2>4. CASE line # "buffer"
    <3>1. file = <<>>
      BY <2>2, <2>4 DEF ReadSoFar, TypeOK
    <3>2. 2 .. Len(file) = {}
      BY <3>1
    <3> QED
      BY <3>2 DEF PrevailsUpTo
  <2> QED
    BY <2>1, <2>3, <2>4 DEF HasLines
<1>2. CASE ~NextMode
  <2>1. mode' = mode \/ mode' = "profile"
    BY <1>2 DEF Next, Loop, ChildStep, LastLine, NoChild, SetAlias, Bare, Exit, Fork,
                ForkFails, Obtain, Reap, WriteLine, Saved, Restart, Exec, Ends, Returns, ShellSame,
                Interrupt, AnswerYes, AnswerNo, vars, loopVars, readVars
  <2> QED
    BY <2>1
<1> QED
  BY <1>1, <1>2

\* However long the alias file is, whatever PROFILE defined and whichever names share a
\* place: when its reading is over, the last line about a name is what the table says.
THEOREM AliasFileAlwaysWins == Spec => AliasFileWins
<1>1. Init => ReadInv
  BY InitTypes DEF Init, LoopInit, ReadInv
<1>2. ReadInv /\ [Next]_vars =>
        [mode = "alias" /\ mode' = "prompt" =>
           \A i \in 2 .. Len(file) :
             (\A n \in i + 1 .. Len(file) : file[n].key # file[i].key)
               => get(ar, file[i].key) = file[i].val]_vars
  BY StepWins DEF PrevailsUpTo
<1> QED
  BY <1>1, <1>2, StepReads, PTL DEF Spec, AliasFileWins

=============================================================================
