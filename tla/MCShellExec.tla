----------------------------- MODULE MCShellExec -----------------------------
(* All lines up to MaxLen tokens that start with an if, an if in each      *)
(* place of an if, and a few lines without one, written with single blanks *)
(* and some of them in other ways; every text of a few pieces; and lines   *)
(* with aliases for keywords, operators and the shell's own commands.      *)
EXTENDS ShellExec

CONSTANTS MaxLen, MaxText

\* Lines grow token by token; two commands in a row would be one, and a keyword that
\* no accepted line can hold there is not tried.
CanFollow(l, t) ==
  LET before == Last(l)
  IN  CASE t = "cmd" -> before # "cmd" /\ before # "fi"
        [] t = "|" -> before = "cmd"
        [] t = "if" -> before \in {"if", "then", "else"}
        [] OTHER -> before \in {"cmd", "fi"}
Grown[n \in 1 .. MaxLen] ==
  IF n = 1 THEN {<<"if">>}
  ELSE {Append(c[1], c[2]) : c \in {d \in Grown[n - 1] \X {"if", "then", "else", "fi", "cmd", "|"} :
                                      CanFollow(d[1], d[2])}}

IfThenElse(c, t, e) == <<"if">> \o c \o <<"then">> \o t \o <<"else">> \o e \o <<"fi">>
Cmd == <<"cmd">>
Short == IfThenElse(Cmd, Cmd, Cmd)
Piped2 == <<"cmd", "|", "cmd">>
NestedLines == {IfThenElse(Short, Cmd, Cmd), IfThenElse(Cmd, Short, Cmd), IfThenElse(Cmd, Cmd, Short),
                IfThenElse(Cmd, IfThenElse(Piped2, Cmd, Cmd), Cmd),
                IfThenElse(IfThenElse(Cmd, Piped2, Cmd), Cmd, Cmd),
                IfThenElse(Short, Cmd, Short),
                IfThenElse(Piped2 \o <<"|", "cmd">>, Piped2, Cmd), IfThenElse(IfThenElse(Piped2, Cmd, Cmd), Cmd, Cmd),
                IfThenElse(<<"exit">>, <<"cd">>, Cmd), IfThenElse(<<"cd">>, Cmd, <<"exit">>)}
\* An if as the condition of an if, without a pipeline.
NestedConditions == {IfThenElse(Short, Cmd, Cmd)}


PlainLines == {Cmd, Piped2, Piped2 \o <<"|", "cmd">>, <<"cmd", "then", "cmd">>, <<"cmd", "|", "exit">>, <<"cd">>,
               <<"cmd", ">", "cmd">>, Piped2 \o <<">", "cmd">>, <<"cmd", ">", "cmd", "|", "cmd">>, Piped2 \o <<"&">>}
RedirectedLines == {IfThenElse(<<"cmd", ">", "cmd">>, Piped2 \o <<">", "cmd">>, Cmd),
                    IfThenElse(Cmd, <<"cmd", ">", "cmd">>, <<"cmd", ">", "cmd">>) \o <<"&">>}

\* Ways to write a line: how a command is written, and what follows each token.
Write(l, cmd, gap(_)) == FlattenSeq([i \in DOMAIN l |-> (IF l[i] = "cmd" THEN cmd ELSE <<l[i]>>) \o gap(l[i])])
Spaced(l) == Write(l, <<"w">>, LAMBDA t : <<Blank>>)
Wide(l) == <<Blank>> \o Write(l, <<"w", Blank, Blank, "al">>, LAMBDA t : <<Blank, Blank>>)
Aliased(l) == Write(l, <<"al", Blank, Quote, "w", Blank, "|", Quote>>, LAMBDA t : <<Blank>>)
Tight(l) == LET apart == [i \in DOMAIN l |-> IF i < Len(l) /\ {l[i], l[i + 1]} \cap Keywords # {} THEN <<Blank>> ELSE <<>>]
            IN  FlattenSeq([i \in DOMAIN l |-> <<IF l[i] = "cmd" THEN "w" ELSE l[i]>> \o apart[i]])

Pieces == {"w", "al", "cd", Blank, Quote, "|", ">", "&", "if", "then", "else", "fi"}
ShortTexts == UNION {[1 .. n -> Pieces] : n \in 1 .. 3} \cup UNION {[1 .. n -> {"w", "al", Blank, Quote, "|", "if", "fi"}] : n \in 4 .. MaxText}
AliasTexts == {<<"alias", Blank>> \o t : t \in UNION {[1 .. n -> {"w", "=", Quote, Blank}] : n \in 1 .. MaxText}}

\* An if behind an operator is not checked and may be executed without an end.
IfsAreChecked(t) == LET cmd == cleanCmd(t)
                    IN  \A i \in DOMAIN cmd : cmd[i] = "if" => Previous(cmd, i) \notin Operators \/ cmd[1] = "if"

\* Aliases that are judged before they are replaced, and those that are not: the second if,
\* the first else and the last then are the aliases' doing, and the last line gives execute
\* an else with nothing behind it.
Separated(words) == FlattenSeq([i \in DOMAIN words |-> <<words[i], Blank>>])
AliasLines ==
  {Separated(words) : words \in
     {<<"x", "w", "then", "w", "else", "w", "fi">>, <<"if", "w", "then", "w", "else", "if", "w", "then", "w", "else", "w", "fi", "z">>,
      <<"x", "|", "w">>, <<"w", "|", "z">>, <<"w", "|", "o">>, <<"o", "|", "w">>, <<"w", ">", "al">>, <<"w", ">", "e", ">", "al">>,
      <<"w", "|", "g", ">", "al">>, <<"g", "w", "|", "al">>, <<"w", ">", "g", "|", "al">>, <<"e", "|", "al">>, <<"w", "|", "e">>, <<"w", "|", "=", "al">>,
      <<"s", "|", "al", "|", "al">>, <<"w", "|", "s", "|", "al">>, <<"w", "|", "c", "w", "|", "al">>,
      <<"s", "|", "al">>, <<"a", "al">>, <<"a">>, <<"a", "|", "al">>,
      <<"set", "alias", "w">>, <<"w", "|", "set", "w">>, <<"if", "set", "al", "then", "w", "else", "al", "fi">>,
      <<"if", "x", "|", "w", "then", "w", "else", "w", "fi", "y">>}}

SomeLines == NestedLines \cup PlainLines \cup RedirectedLines
LinesDef == {Spaced(l) : l \in UNION {Grown[n] : n \in 1 .. MaxLen} \cup SomeLines}
            \cup UNION {{Wide(l), Aliased(l), Tight(l)} : l \in SomeLines}
            \cup {t \in ShortTexts : cleanCmd(t) # <<>> /\ IfsAreChecked(t)} \cup AliasTexts \cup AliasLines
ConditionLines == {Spaced(l) : l \in NestedConditions}
WordAliases == [al |-> <<"w", Blank, "w">>]
AliasesDef == {WordAliases,
               WordAliases @@ [x |-> <<"if">>, y |-> <<"else">>, z |-> <<"fi">>, o |-> <<"|">>, g |-> <<">">>, e |-> <<"=">>,
                               c |-> <<"cd">>, s |-> <<"set">>, a |-> <<"alias">>]}
=============================================================================
