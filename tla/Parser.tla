------------------------------- MODULE Parser -------------------------------
(***************************************************************************)
(* How mrpsh reads a line (parser.c) and a token becomes the arguments of  *)
(* a program (split of exe.c).                                             *)
(*                                                                         *)
(* A text is a sequence of pieces: blanks, quotes, operators, the words    *)
(* the parser looks for, and other words.  Pieces that touch are one word: *)
(* <<"fi", "w">> is file when "w" is le.  A tab is a blank, as cleanCmd    *)
(* makes it one before anything else looks.  Words are short enough for    *)
(* the buffers (100 characters, then PARAM_SIZE) and contain none of the   *)
(* other pieces.                                                           *)
(***************************************************************************)
EXTENDS Integers, SequencesExt, FiniteSetsExt

Blank == "_"
Quote == "q"
Operators == {"&", ">", "|"}
Keywords == {"if", "then", "else", "fi"}

\* Blanks go at both ends, not in between.
cleanCmd(t) == LET words == {i \in DOMAIN t : t[i] # Blank}
               IN  IF words = {} THEN <<>> ELSE SubSeq(t, Min(words), Max(words))

Occurrences(p, t) == {i \in 1 .. Len(t) - Len(p) + 1 : SubSeq(t, i, i + Len(p) - 1) = p}

\* The places of S in a text of n pieces, what stands there, and what lies between cuts.
InOrder(S, n) == LET places[i \in 0 .. n] == IF i = 0 THEN <<>>
                                             ELSE IF i \in S THEN Append(places[i - 1], i) ELSE places[i - 1]
                 IN  places[n]
Picked(t, S) == LET places == InOrder(S, Len(t)) IN [k \in DOMAIN places |-> t[places[k]]]
Chunks(t, cuts) == LET c == <<0>> \o InOrder(cuts, Len(t)) \o <<Len(t) + 1>>
                   IN  [k \in 1 .. Len(c) - 1 |-> SubSeq(t, c[k] + 1, c[k + 1] - 1)]

NonEmpty(tokens) == Picked(tokens, {k \in DOMAIN tokens : tokens[k] # <<>>})
NoBlank(t) == Picked(t, {i \in DOMAIN t : t[i] # Blank})
-----------------------------------------------------------------------------
(* alias name=value and set name=value: split at the equals signs, with    *)
(* the quotes of the value dropped and no token cleaned.                   *)

StartsWith(w, t) == Len(t) > 1 /\ t[1] = w /\ t[2] = Blank
IsAliasCmd(t) == \/ StartsWith("alias", t)
                 \/ StartsWith("set", t) /\ Occurrences(<<"alias", Blank>>, t) = {}

\* The first piece is dropped for any quote, the last one if a quote is left.
\* A slip Dequoted avoids: the closing quote stays.
DequotedOnce(p) == IF Quote \in ToSet(p) THEN Tail(p) ELSE p
Dequoted(p) == IF Quote \notin ToSet(p) THEN p
               ELSE IF Quote \in ToSet(Tail(p)) THEN Front(Tail(p)) ELSE Tail(p)

aliasCmd(t) ==
  LET rest == SubSeq(t, 3, Len(t))
      parts == NonEmpty(Chunks(rest, {i \in DOMAIN rest : rest[i] = "="}))
  IN  <<<<t[1]>>>> \o [k \in DOMAIN parts |-> Dequoted(parts[k])]

\* The line write_alias saves for an alias.
Saved(name, value) == <<"alias", Blank>> \o name \o <<"=">> \o value
-----------------------------------------------------------------------------
(* Every other line, piece by piece: toks is cmd_params, param the token   *)
(* being filled.  char_count counts since the last operator only, so what  *)
(* follows a keyword is a token even if empty.                             *)

Start == [toks |-> <<>>, param |-> <<>>, q_st |-> FALSE, space_encountered |-> FALSE, char_count |-> 0]

Pattern == <<<<"if", Blank>>, <<Blank, "then", Blank>>, <<Blank, "else", Blank>>, <<Blank, "fi">>>>
Found == <<"if", "then", "else", "fi">>

\* A keyword anywhere in param ends it, and what followed in param is lost.
SplitAtKeyword(s) ==
  LET hits == {k \in DOMAIN Pattern : Occurrences(Pattern[k], s.param) # {}}
      pLoc == Min(Occurrences(Pattern[Min(hits)], s.param))
      before == IF pLoc > 1 THEN <<SubSeq(s.param, 1, pLoc - 1)>> ELSE <<>>
  IN  IF hits = {} THEN s
      ELSE [s EXCEPT !.toks = @ \o before \o <<<<Found[Min(hits)]>>>>, !.param = <<>>]

Kept(s, c) == [s EXCEPT !.param = Append(@, c), !.char_count = @ + 1]

\* A slip Scan avoids: a blank seen is not forgotten at the next word.
ScanSticky(s, c) ==
  CASE c = Quote -> [Kept(s, c) EXCEPT !.q_st = ~@, !.space_encountered = @ /\ ~s.q_st]
    [] c # Quote /\ s.q_st -> Kept(s, c)
    [] c \in Operators /\ ~s.q_st /\ s.char_count # 0 ->
         [s EXCEPT !.toks = @ \o <<s.param, <<c>>>>, !.param = <<>>, !.char_count = 0]
    [] c = Blank /\ ~s.q_st /\ s.space_encountered -> s
    [] OTHER -> SplitAtKeyword([Kept(s, c) EXCEPT !.space_encountered = @ \/ c = Blank])
Scan(s, c) ==
  CASE c = Quote -> [Kept(s, c) EXCEPT !.q_st = ~@, !.space_encountered = @ /\ ~s.q_st]
    [] c # Quote /\ s.q_st -> Kept(s, c)
    [] c \in Operators /\ ~s.q_st /\ s.char_count # 0 ->
         [s EXCEPT !.toks = @ \o <<s.param, <<c>>>>, !.param = <<>>, !.char_count = 0]
    [] c = Blank /\ ~s.q_st /\ s.space_encountered -> s
    [] OTHER -> SplitAtKeyword([Kept(s, c) EXCEPT !.space_encountered = c = Blank])

\* The end of the line closes the last token, unless a quote is open.
scanned(t) == LET after[i \in 0 .. Len(t)] == IF i = 0 THEN Start ELSE Scan(after[i - 1], t[i])
                  s == after[Len(t)]
                  toks == IF s.char_count # 0 /\ ~s.q_st THEN Append(s.toks, s.param) ELSE s.toks
              IN  [k \in DOMAIN toks |-> cleanCmd(toks[k])]

parseCmd(in_cmd) == LET cmd == cleanCmd(in_cmd)
                    IN  IF IsAliasCmd(cmd) THEN aliasCmd(cmd) ELSE scanned(cmd)
-----------------------------------------------------------------------------
(* The arguments of a program: a token split at its blanks.                *)

\* A slip SplitStep avoids: a quote does not protect a blank.
SplitEverywhere(s, c) ==
  CASE c = Quote -> [s EXCEPT !.skip = ~@]
    [] c = Blank -> [s EXCEPT !.str_list = Append(@, s.tstr), !.tstr = <<>>]
    [] OTHER -> [s EXCEPT !.tstr = Append(@, c)]
SplitStep(s, c) ==
  CASE c = Quote -> [s EXCEPT !.skip = ~@]
    [] c = Blank /\ ~s.skip -> [s EXCEPT !.str_list = Append(@, s.tstr), !.tstr = <<>>]
    [] OTHER -> [s EXCEPT !.tstr = Append(@, c)]

\* The last character closes the last argument, unless it is a blank that did.
split(t) == LET after[i \in 0 .. Len(t)] == IF i = 0 THEN [str_list |-> <<>>, tstr |-> <<>>, skip |-> FALSE]
                                             ELSE SplitStep(after[i - 1], t[i])
                s == after[Len(t)]
            IN  IF t = <<>> \/ (Last(t) = Blank /\ ~s.skip) THEN s.str_list ELSE Append(s.str_list, s.tstr)
-----------------------------------------------------------------------------
(* What a text means, stated without the scan.                             *)

Quotes(t) == {i \in DOMAIN t : t[i] = Quote}
Quoted(t) == {i \in DOMAIN t : t[i] # Quote /\ Cardinality({j \in Quotes(t) : j < i}) % 2 = 1}
Separators(t) == {i \in DOMAIN t \ Quoted(t) : t[i] \in Operators \cup Keywords}
Balanced(t) == Cardinality(Quotes(t)) % 2 = 0 /\ \A i \in Quoted(t) : t[i] \notin Keywords

\* The piece before i that is not a blank; Blank if there is none.
Previous(t, i) == LET before == {j \in 1 .. i - 1 : t[j] # Blank}
                  IN  IF before = {} THEN Blank ELSE t[Max(before)]
At(t, i) == IF i \in DOMAIN t THEN t[i] ELSE Blank

\* Keywords are words of their own where a command may begin or has ended, and every
\* operator has something to work on: how the demonstration scripts write their lines.
Plain(t) ==
  /\ Balanced(t)
  /\ \A i \in Separators(t) :
       CASE t[i] \in Operators -> Previous(t, i) \notin Operators \cup {Blank}
         [] t[i] = "if" -> At(t, i - 1) \in Operators \cup {Blank} /\ i < Len(t) /\ t[i + 1] = Blank
         [] OTHER -> /\ i > 1 /\ t[i - 1] = Blank
                     /\ Previous(t, i) \notin Operators \cup {"if", "then", "else", Blank}
                     /\ At(t, i + 1) \in {Blank} \cup IF t[i] = "fi" THEN Operators ELSE {}
                     /\ t[i] = "fi" \/ i < Len(t)

\* Blanks in a row are one, outside of quotes.
Squeezed(t) == Picked(t, {i \in DOMAIN t : t[i] # Blank \/ i \in Quoted(t) \/ i = 1 \/ t[i - 1] # Blank})

\* The separators, and what stands between them.
AsWritten(text) ==
  LET t == Squeezed(text)
      marks == InOrder(Separators(t), Len(t))
      chunks == Chunks(t, Separators(t))
  IN  NonEmpty(FlattenSeq([k \in DOMAIN chunks |->
                 <<cleanCmd(chunks[k]), IF k \in DOMAIN marks THEN <<t[marks[k]]>> ELSE <<>>>>]))

\* The words between the blanks that are not quoted, without their quotes; a blank at the
\* end begins no word.
Unquoted(t) == Picked(t, {i \in DOMAIN t : t[i] # Quote})
WordBreaks(t) == {i \in DOMAIN t \ Quoted(t) : t[i] = Blank}
Arguments(t) == LET chunks == Chunks(t, WordBreaks(t))
                    words == IF Last(chunks) = <<>> THEN Front(chunks) ELSE chunks
                IN  [k \in DOMAIN words |-> Unquoted(words[k])]
=============================================================================
