------------------------------- MODULE MCCompiler -------------------------------
(***************************************************************************)
(* Texts for TLC: paths, each written in several ways; filters with what   *)
(* may follow "=~"; and all short texts over two alphabets.                *)
(***************************************************************************)
EXTENDS CsonpathCompilerCheck, SequencesExt

Written(t, p) == [text |-> t, jq |-> FALSE, meant |-> p]
NotAPath(t) == Written(t, <<>>)
InJq(i)     == [i EXCEPT !.jq = TRUE]
MCInvalid   == {"["}

--------------------------------------------------------------------------------
(***************************************************************************)
(* Pieces: a text, the selector it is, and the slots it takes.             *)
(***************************************************************************)
P(t, s) == [text |-> t, sel |-> s, slots |-> 0]
Test(keys, op, o) == Where(<<Clause(keys, op, o)>>)
TheB   == Path(<<Key("b")>>)
XIsOne == Clause(<<"x">>, "FILTER_KEY_EQ", NumOperand(1))

Plain == {P(".a", Key("a")), P("[ 'a,]']", Key("a,]")), P("[\"a\"]", Key("a")), P(".['a']", Key("a")),
          P("..a", DotDot("a")), P("..[\"a\"]", DotDot("a")), P("..*", DotDot(Wildcard)),
          P(".*", All), P("[*]", All), P("[ 0]", Index(0)), P("[100]", Index(100)),
          P("[0:12]", Slice(0, 12)), P("[ 1: 2]", Slice(1, 2)), P("[1:]", Slice(1, 0)),
          P("@string()", Type("string")), P("[$.b]", SubSel(TheB)),
          P("[$['b']|$[0]]", SubSel(OrElse(TheB, Path(<<Index(0)>>)))),
          P("[$[$[0]]]", SubSel(Path(<<SubSel(Path(<<Index(0)>>))>>)))}

Filters ==
  {P("[?x]", Where(<<Exists(<<"x">>)>>)), P("[?(@.x.y) ]", Where(<<Exists(<<"x", "y">>)>>)),
   P("[? (@[\"x\"].y == 1)]", Test(<<"x", "y">>, "FILTER_KEY_EQ", NumOperand(1))),
   P("[?@['x'] != 'a']", Test(<<"x">>, "FILTER_KEY_NOT_EQ", StrOperand("a"))),
   P("[?['x']>=100 ]", Test(<<"x">>, "FILTER_KEY_SUPERIOR_EQ", NumOperand(100))),
   P("[?x >1]", Test(<<"x">>, "FILTER_KEY_SUPERIOR", NumOperand(1))),
   P("[?x <= null]", Test(<<"x">>, "FILTER_KEY_INFERIOR_EQ", NullOperand)),
   P("[?x <true]", Test(<<"x">>, "FILTER_KEY_INFERIOR", TrueOperand)),
   P("[?x===false]", Test(<<"x">>, "FILTER_KEY_EQ", FalseOperand)),
   P("[?x=$.b]", Test(<<"x">>, "FILTER_KEY_EQ", SubOperand(TheB))),
   P("[?x=1 & y==\"a\"]", Where(<<XIsOne, Clause(<<"y">>, "FILTER_KEY_EQ", StrOperand("a"))>>))}

\* "=~" takes the next slot.
Regexes(n) ==
  {[P(t, Test(<<"x">>, "FILTER_KEY_REG_EQ", RegOperand(n))) EXCEPT !.slots = 1] :
     t \in {"[?x =~ \"a\"]", "[?(@.x=~/a/)]"}}

Members == {P("'a'", Key("a")), P("0", Index(0)), P("*", All), P("0:2", Slice(0, 2)), P("?x", Where(<<Exists(<<"x">>)>>)),
            P("?x=1", Where(<<XIsOne>>)), P("$.b", SubSel(TheB)),
            P("$['a','b']", SubSel(Path(<<UnionOf(<<Key("a"), Key("b")>>)>>))),
            P("?x = $.b", Test(<<"x">>, "FILTER_KEY_EQ", SubOperand(TheB)))}
\* "[?x, *]" is rejected: after a key and a blank, an operator is looked for.
Comma(m) == IF m.text = "?x" THEN "," ELSE ", "
Unions == {P("[" \o m.text \o Comma(m) \o n.text \o "]", UnionOf(<<m.sel, n.sel>>)) :
             m \in Members, n \in Members}
Pieces(n) == Plain \cup Filters \cup Regexes(n)

Write(ps)  == Written("$" \o FoldLeft(LAMBDA t, p : t \o p.text, "", ps),
                    Path([i \in DOMAIN ps |-> ps[i].sel]))
Texts ==
  UNION {{Write(<<p, q>>) : q \in Pieces(p.slots)} : p \in Pieces(0)}
  \cup {Write(<<p>>) : p \in Pieces(0) \cup Unions}
  \cup {Write(<<p, q>>) : p \in Unions, q \in {P(".*", All), P("[0]", Index(0))}}
  \cup {Write(<<P("..a", DotDot("a")), p>>) : p \in Unions}
  \cup {Written("$.a|$2['b']  ", OrElse(Path(<<Key("a")>>), <<From(2, <<Key("b")>>)>>)),
        Written("$0.a", Path(<<Key("a")>>)), Written("$256", <<From(256, <<>>)>>),
        InJq(Written(".a[0]|[?x=1]", OrElse(Path(<<Key("a"), Index(0)>>), Path(<<Where(<<XIsOne>>)>>)))),
        Written("$[?,?,?,?,?,?]", Path(<<UnionOf([i \in 1..6 |-> Where(<<Exists(<<"">>)>>)])>>))}

--------------------------------------------------------------------------------
(***************************************************************************)
(* Texts that need not be paths.                                           *)
(***************************************************************************)
\* Left out: null, true and false after "=~", and a second string in the filter of
\* a regular expression (README.md).
Operands == {"'a'", "/a/", "'['", "1", "$.b", "nul", ""}
Patterns ==
  {NotAPath("$[?x=~" \o o \o "]") : o \in Operands}
  \cup {NotAPath("$[?x=~" \o o \o "][?y=~" \o o2 \o "][?z" \o o3) :
          o \in Operands, o2 \in Operands, o3 \in {"]", "=~'a']", "=", "=~1]"}}
  \cup {NotAPath("$[?x=/a]"), NotAPath("$[?x=~/a/ & y=~1]"), NotAPath("$257"),
        NotAPath("$[?aaaaa.b]"), NotAPath("$[?aaaa.b]"), NotAPath("$.a@null()"),
        NotAPath("$.a@integer("), NotAPath("$.a@b"), NotAPath("$..['a"), NotAPath("$..[*]"), NotAPath("$..[?a]"),
        NotAPath("$..[0]"), NotAPath("$..[$.a]"), NotAPath("$[?(x"),
        NotAPath("$['a',?(@.x) "), NotAPath("$['a',?['x'] "), NotAPath("$['a',?x ")}

Strings(S, n) ==
  LET upto[k \in 0..n] == IF k = 0 THEN {""}
                          ELSE upto[k - 1] \cup {c \o s : c \in S, s \in upto[k - 1]}
  IN  upto[n]
Selecting == {".", "a", "[", "]", "*", ",", "0", ":", "'", "|", " ", "$"}
Filtering == {"x", "=", "~", "!", "<", "1", "&", "(", ")", ",", " ", "'"}
\* A subset, for longer texts
Few(S) == S \ {":", "|", " ", "$", "~", "!", "<", "'"}

Short == {NotAPath("$" \o t) : t \in Strings(Selecting, 3) \cup Strings(Few(Selecting), 4)}
         \cup {NotAPath("$[" \o t \o "]") : t \in Strings(Selecting, 3)}
         \cup {NotAPath("$[?" \o t \o "]") : t \in Strings(Filtering, 3) \cup Strings(Few(Filtering), 4)}
         \cup {NotAPath("$['a',?x=1" \o t \o "]") : t \in Strings(Filtering, 3)}
         \cup {InJq(NotAPath(t)) : t \in Strings(Selecting, 2)}

MCInputs == Texts \cup Patterns \cup Short

(***************************************************************************)
(* Texts on which the code departs from what the repository says of it.    *)
(***************************************************************************)
\* README.md:26
BlankBeforeOr == {Written("$.a | $.b", OrElse(Path(<<Key("a")>>), TheB))}

\* README.md:29; the character after "&" is lost
AndWithoutBlank == {Written("$[?x=1&y=1]",
  Path(<<Where(<<XIsOne, Clause(<<"y">>, "FILTER_KEY_EQ", NumOperand(1))>>)>>))}
\* README.md:29; the string is taken for a pattern, and compiled into slot 0 again
StringAfterRegex == {Written("$[?x=~\"a\" & y=\"b\"]",
  Path(<<Where(<<Clause(<<"x">>, "FILTER_KEY_REG_EQ", RegOperand(0)),
                 Clause(<<"y">>, "FILTER_KEY_EQ", StrOperand("b"))>>)>>))}
\* The table is made with slot 0, which has no pattern here.
NullThenRegex == {NotAPath("$[?x=~null][?y=~\"a\"]")}
\* The engine takes the byte after the constant for the slot, and goes on behind it.
RegexOfConstant == {NotAPath("$[?x=~" \o c[1] \o "]") : c \in Constants}
ManyColons    == {NotAPath("$[::::::]")}
OpenRegex     == {NotAPath("$[?x=~/a]")}
\* The key of a union's second member ends the text: what follows is looked for
\* past the NUL.
OpenFilter    == {NotAPath("$['a',?(@.x)"), NotAPath("$['a',?['x']")}
================================================================================
