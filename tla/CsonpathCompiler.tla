---------------------------- MODULE CsonpathCompiler ----------------------------
(***************************************************************************)
(* csonpath_new_ex, csonpath_compile_do and csonpath_destroy: one pass     *)
(* over the text of a path that writes the program as it goes, into space  *)
(* reserved before.  A sub-path is compiled by a nested call.              *)
(*                                                                         *)
(* csonpath_compile_do is a goto program; a frame is one call of it, and   *)
(* frame.at the label it is at, or a place between two labels that it      *)
(* comes to from several sides.                                            *)
(***************************************************************************)
EXTENDS CsonpathInst, Integers, FiniteSets
LOCAL INSTANCE SequencesExt

CONSTANTS
  Inputs,   \* [text, jq, meant]: the argument; for the properties, the path meant
  BufSize,  \* CSONPATH_TMP_BUF_SIZE
  MaxRegex, \* CSONPATH_MAX_REGEX
  Invalid   \* the patterns that are no regular expressions

ASSUME CompilerAssumption ==
  /\ BufSize \in Nat /\ MaxRegex \in Nat
  /\ \A i \in Inputs : i.jq \in BOOLEAN

VARIABLES
  input,
  stack,      \* the calls of csonpath_compile_do
  data,
  regexCnt,
  incomplete, \* CSONPATH_REG_INCOMPLETTE
  table,      \* how often regexs[] was allocated
  regexs,     \* how often each slot was filled, and not released
  status      \* "compiling", "compiled", "rejected" or "destroyed"

slots == <<regexCnt, incomplete, table, regexs>>
vars  == <<input, stack, data, slots, status>>

(***************************************************************************)
(* The text.  What is past its end is a NUL.                               *)
(***************************************************************************)
NUL   == ""
SPACE == " "
Chars(s) == {SubSeq(s, i, i) : i \in 1..Len(s)}
Quotes   == {"'", "\""}
DigitSeq == "0123456789"
Digit    == Chars(DigitSeq)
Alnum    == Digit \cup Chars("abcdefghijklmnopqrstuvwxyzABCDEFGHIJKLMNOPQRSTUVWXYZ")
DotOperand == Alnum \cup {"_", "-"}

End0    == Len(input.text) + 1
Char(i) == IF i \in 1..Len(input.text) THEN SubSeq(input.text, i, i) ELSE NUL
Between(i, j) == SubSeq(input.text, i, j - 1)

\* The first position from i on whose character is not in S, or is in S.
After(i, S)  == CHOOSE j \in i..(i + End0) : /\ Char(j) \notin S
                                             /\ \A k \in i..(j - 1) : Char(k) \in S
Reach(i, S)  == CHOOSE j \in i..(i + End0) : /\ Char(j) \in S \cup {NUL}
                                             /\ \A k \in i..(j - 1) : Char(k) \notin S \cup {NUL}
Unblank(i)   == After(i, {SPACE})
Starts(i, s) == i + Len(s) <= End0 /\ Between(i, i + Len(s)) = s
Worded(i, s) == Starts(i, s) /\ Char(i + Len(s)) \notin Alnum

\* atoi, strtol
Atoi(i) ==
  LET s == Unblank(i)
      ValueOf(c) == (CHOOSE d \in 1..10 : SubSeq(DigitSeq, d, d) = c) - 1
  IN  FoldLeft(LAMBDA n, j : 10 * n + ValueOf(Char(j)), 0,
               [j \in 1..(After(s, Digit) - s) |-> s + j - 1])

(***************************************************************************)
(* The space: bytes a cell takes, and bytes csonpath_new_ex reserves.      *)
(***************************************************************************)
Bytes(cell) ==
  CASE cell.inst \in {"GET_OBJ", "FIND_ALL"} -> Len(cell.key) + 2
    [] cell.inst = "GET_ARRAY_BIG" -> 5
    [] cell.inst \in {"GET_ARRAY_SMALL", "SWITCH_ROOT", "TYPECHECK"} -> 2
    [] OTHER -> 1
Size(code) == FoldLeft(LAMBDA n, cell : n + Bytes(cell), 0, code)

BytePerInst == 2
\* Mutant: the "," of unions is not counted.
BugReserved == LET len == Len(input.text) IN BytePerInst * (len \div 2 + 1) + len + 1
Reserved ==
  LET len == Len(input.text) IN
  BytePerInst * (len \div 2 + 1) + len + 1
  + Cardinality({i \in 1..len : Char(i) = ","})

--------------------------------------------------------------------------------
(***************************************************************************)
(* A call: the label, walker, next, to_check, inst, in_union; of a filter, *)
(* have_parentesis, the getters, getter_end, regex_idx and the operator;   *)
(* and end_path.                                                           *)
(***************************************************************************)
Frame(walker, end) ==
  [at |-> "root", walker |-> walker, next |-> walker, toCheck |-> NUL,
   inst |-> NUL, inUnion |-> FALSE, parens |-> 0, keys |-> <<>>, quote |-> NUL,
   regex |-> -1, op |-> NUL, end |-> end]

f == stack[Len(stack)]
At(label) == status = "compiling" /\ stack # <<>> /\ f.at = label

\* The call goes on as g, having written cells.
Go(cells, g) ==
  /\ data' = data \o cells
  /\ stack' = [stack EXCEPT ![Len(stack)] = g]
  /\ UNCHANGED <<input, status>>

Fail(cells) == Go(cells, [f EXCEPT !.at = "error"])

\* goto again, with to_check read from where the walker is
Again(cells, w) ==
  Go(cells, [f EXCEPT !.at = "again", !.walker = w, !.toCheck = Char(w)])

\* After a member that ends at w: the next one, or the closing bracket.
UnionJmp(cells, w) == Go(cells \o <<Bare("UNION_JMP")>>,
                         [f EXCEPT !.at = "array", !.walker = w])
Closed(cells, w) ==
  IF f.inUnion /\ Char(w) = "," THEN UnionJmp(cells, w)
  ELSE IF Char(w) = "]" THEN Again(cells, w + 1)
  ELSE Fail(cells)

Nested(cells, w, at) ==
  /\ data' = data \o cells
  /\ stack' = Append([stack EXCEPT ![Len(stack)].at = at],
                     Frame(w, IF f.inUnion THEN "u" ELSE "]"))
  /\ UNCHANGED <<input, status>>

--------------------------------------------------------------------------------
(***************************************************************************)
(* Roots, and what is not in brackets.                                     *)
(***************************************************************************)

\* root_again
Root ==
  /\ At("root")
  /\ LET w == IF input.jq THEN f.walker ELSE f.walker + 1
         e == After(w, Digit)
         n == Atoi(w) IN
     IF ~input.jq /\ Char(f.walker) # "$" THEN Fail(<<>>)
     ELSE IF e = w \/ n = 0 THEN Again(<<Bare("ROOT")>>, e)
     ELSE IF n > 256 THEN Fail(<<Bare("SWITCH_ROOT")>>)
     ELSE Again(<<Cell("SWITCH_ROOT", NoKey, n - 1)>>, e)
  /\ UNCHANGED slots

\* Mutant: the end of a union is not marked.
BugDispatch ==
  /\ At("again")
  /\ Go(<<>>, [f EXCEPT !.at = "switch", !.inUnion = FALSE])
  /\ UNCHANGED slots

\* again: the union that ends with the last bracket is closed
Dispatch ==
  /\ At("again")
  /\ Go(IF f.inUnion THEN <<Bare("UNION_END")>> ELSE <<>>,
        [f EXCEPT !.at = "switch", !.inUnion = FALSE])
  /\ UNCHANGED slots

Case(c) == At("switch") /\ f.toCheck = c /\ UNCHANGED slots

\* "@string()": the name is looked for as a prefix, "(" and ")" after it
TypeSelector ==
  /\ Case("@")
  /\ LET named == {t \in {"string", "integer", "null"} : Starts(f.walker + 1, t)} IN
     IF named = {} THEN Fail(<<>>)
     ELSE LET t == CHOOSE x \in named : TRUE
              e == f.walker + 1 + Len(t)
              code == <<Cell("TYPECHECK", t, 0)>> IN
          IF Starts(e, "()") THEN Again(code, e + 2) ELSE Fail(code)

Bracket == Case("[") /\ Go(<<>>, [f EXCEPT !.at = "array", !.inst = NUL])

\* The name after "." or ".."; ".[" and "..[" are brackets
Name(inst, w) ==
  LET e == After(w, DotOperand) IN
  IF e > w THEN Again(<<Cell(inst, Between(w, e), 0)>>, e)
  ELSE IF Char(w) = "[" THEN Go(<<>>, [f EXCEPT !.at = "array", !.walker = w, !.inst = inst])
  ELSE Fail(<<>>)

Dot ==
  /\ Case(".")
  /\ LET w == f.walker + 1 IN
     IF Starts(w, ".*") THEN Again(<<Cell("FIND_ALL", Wildcard, 0)>>, w + 2)
     ELSE IF Char(w) = "." THEN Name("FIND_ALL", w + 1)
     ELSE IF Char(w) # "*" THEN Name("GET_OBJ", w)
     ELSE IF Char(w + 1) \in {".", "[", NUL, "@"} THEN Again(<<Bare("GET_ALL")>>, w + 1)
     ELSE Fail(<<Bare("GET_ALL")>>)

Or == Case("|") /\ Go(<<Bare("OR")>>, [f EXCEPT !.at = "root", !.walker = @ + 1])

\* Neither a selector nor an OR.  After a blank to_check is what it was.
Others  == At("switch") /\ f.toCheck \notin {"@", "[", ".", "|"} /\ UNCHANGED slots
AtEnd   == Char(f.walker) = f.end \/ (f.end = "u" /\ Char(f.walker) \in {"]", ","})
\* Mutant: the blank is not passed.
BugSpace == Others /\ Char(f.walker) = SPACE /\ Go(<<>>, [f EXCEPT !.at = "again"])
Space   == Others /\ Char(f.walker) = SPACE
           /\ Go(<<>>, [f EXCEPT !.at = "again", !.walker = @ + 1])
Unexpected == Others /\ Char(f.walker) # SPACE /\ ~AtEnd /\ Fail(<<>>)

EndOfPath ==
  /\ Others /\ Char(f.walker) # SPACE /\ AtEnd
  /\ data' = data \o <<Bare("END")>>
  /\ LET callers == SubSeq(stack, 1, Len(stack) - 1) IN
     IF callers = <<>>
     THEN stack' = <<>> /\ status' = "compiled"
     ELSE /\ stack' = [callers EXCEPT ![Len(callers)].walker = f.walker]
          /\ UNCHANGED status
  /\ UNCHANGED input

\* error, through all the calls
Error ==
  /\ At("error")
  /\ data' = <<Bare("BROKEN")>>
  /\ stack' = <<>> /\ status' = "rejected"
  /\ UNCHANGED <<input, slots>>

--------------------------------------------------------------------------------
(***************************************************************************)
(* Brackets.                                                               *)
(***************************************************************************)

\* Where the search for a "," of this bracket stops: there, at its "]", or at
\* the end of the text.  Quoted text is passed over.
FirstComma(start) ==
  LET scan[i \in start..(End0 + 1), depth \in 0..End0] ==
        LET c == Char(i) IN
        IF c = NUL \/ (depth = 0 /\ c \in {",", "]"}) THEN i
        ELSE IF c \in Quotes THEN LET j == Reach(i + 1, {c}) IN
                                  IF Char(j) = NUL THEN j ELSE scan[j + 1, depth]
        ELSE scan[i + 1, depth + (IF c = "[" THEN 1 ELSE 0) - (IF c = "]" THEN 1 ELSE 0)]
  IN  scan[start, 0]

\* do_array: a bracket, or the next member of the union it turned out to be
Array ==
  /\ At("array")
  /\ LET c == Char(FirstComma(f.walker + 1))
         g == [f EXCEPT !.at = "member", !.walker = Unblank(f.walker + 1)] IN
     IF f.inUnion THEN Go(<<>>, g)
     ELSE IF c = "," THEN Go(<<Bare("GET_UNION")>>, [g EXCEPT !.inUnion = TRUE])
     ELSE IF c = "]" THEN Go(<<>>, g)
     ELSE Fail(<<>>)
  /\ UNCHANGED slots

Member(chars) == At("member") /\ Char(f.walker) \in chars
Descending    == f.inst = "FIND_ALL"

Star ==
  /\ Member({"*"})
  /\ IF Descending THEN Fail(<<>>) ELSE Closed(<<Bare("GET_ALL")>>, f.walker + 1)
  /\ UNCHANGED slots

Question ==
  /\ Member({"?"})
  /\ IF Descending THEN Fail(<<>>)
     ELSE Go(<<>>, [f EXCEPT !.at = "filter", !.parens = 0, !.keys = <<>>,
                             !.quote = NUL, !.regex = -1])
  /\ UNCHANGED slots

SubPath == Member({"$"}) /\ Nested(<<Bare("GET_SUBPATH")>>, f.walker, "sub") /\ UNCHANGED slots

\* A sub-path ends where its caller's bracket does.
AfterSubPath ==
  /\ At("sub")
  /\ IF f.inUnion /\ Char(f.walker) = "," THEN UnionJmp(<<>>, f.walker)
     ELSE Again(<<>>, f.walker + 1)
  /\ UNCHANGED slots

Quoted ==
  /\ Member(Quotes)
  /\ LET w == f.walker + 1
         e == Reach(w, {Char(f.walker)})
         code == <<Cell(IF Descending THEN "FIND_ALL" ELSE "GET_OBJ", Between(w, e), 0)>> IN
     IF Char(e) = NUL THEN Fail(code) ELSE Closed(code, e + 1)
  /\ UNCHANGED slots

IndexOrSlice ==
  /\ At("member") /\ Char(f.walker) \notin {"*", "?", "$"} \cup Quotes
  /\ IF Descending THEN Fail(<<>>)
     ELSE Go(<<>>, [f EXCEPT !.at = "number", !.next = f.walker])
  /\ UNCHANGED slots

\* One turn of the loop over "1", "1:2": a RANGE for every ":".
NumberChar ==
  /\ At("number")
  /\ LET c == Char(f.next)
         d == Unblank(f.next)
         n == (IF c = ":" THEN f.next ELSE d) + 1
         out == IF Char(n) \in {NUL, "]"} \/ (c # ":" /\ f.inUnion /\ Char(n) = ",")
                THEN "number_end" ELSE "number"
         g == [f EXCEPT !.at = out, !.next = n] IN
     IF c = ":" THEN Go(<<Bare("RANGE"), Number(Atoi(f.walker))>>,
                        [g EXCEPT !.walker = n])
     ELSE IF Char(d) \in Digit THEN Go(<<>>, g)
     ELSE Fail(<<>>)
  /\ UNCHANGED slots

NumberEnd ==
  /\ At("number_end")
  /\ IF Char(f.next) = NUL THEN Fail(<<>>)
     ELSE Closed(<<Number(Atoi(f.walker))>>, f.next)
  /\ UNCHANGED slots

--------------------------------------------------------------------------------
(***************************************************************************)
(* Filters.                                                                *)
(***************************************************************************)

\* filter_again_root: past "?", or past what follows an "&", to the first key,
\* which may stand after "(@." or "@.", in brackets or not
FilterRoot ==
  /\ At("filter")
  /\ LET w == Unblank(f.walker + 1)
         open == Char(w) = "("
         at == open \/ Char(w) = "@"
         v == IF open THEN w + 1 ELSE w                  \* the "@", if there is one
         k == IF at THEN v + 1 ELSE v                    \* "." or "[", or the key
         g == [f EXCEPT !.at = "getter", !.parens = IF open THEN @ + 1 ELSE @] IN
     IF at /\ (Char(v) # "@" \/ Char(k) \notin {".", "["}) THEN Fail(<<>>)
     ELSE IF Char(k) = "[" THEN Go(<<>>, [g EXCEPT !.walker = IF open THEN Unblank(k + 1) ELSE k + 1,
                                                   !.quote = Char(k + 1)])
     ELSE Go(<<>>, [g EXCEPT !.walker = IF open THEN Unblank(k + 1) ELSE IF at THEN k + 1 ELSE k])
  /\ UNCHANGED slots

\* filter_again: a key of the getter
Getter ==
  /\ At("getter")
  /\ LET bracket == f.quote # NUL
         b    == IF bracket THEN f.walker + 1 ELSE f.walker
         e    == IF bracket THEN Reach(b, {f.quote}) ELSE After(b, DotOperand)
         keys == Append(f.keys, Between(b, e))
         n    == IF bracket THEN e + 2 ELSE e
         g    == [f EXCEPT !.keys = keys, !.quote = NUL, !.toCheck = Char(n)] IN
     IF \/ bracket /\ f.quote \notin Quotes
        \/ Size(FilterGetters(keys)) > BufSize
        \/ Char(e) = NUL
        \/ bracket /\ Char(e + 1) # "]"
     THEN Fail(<<>>)
     ELSE IF Char(n) = "." THEN Go(<<>>, [g EXCEPT !.walker = n + 1])
     ELSE IF Char(n) = "[" THEN Go(<<>>, [g EXCEPT !.walker = n + 1, !.quote = Char(n + 1)])
     ELSE Go(<<>>, [g EXCEPT !.at = "compare", !.next = n])
  /\ UNCHANGED slots

\* Mutant: a ")" need not have its "(".
BugOperator ==
  LET closing == f.toCheck = ")"
      t == IF closing THEN Char(f.next + 1) ELSE f.toCheck
      n == IF closing THEN f.next + 1 ELSE f.next
      m == Unblank(n + 1)
      blank == t = SPACE \/ m > n + 1
      moved == Char(m) # NUL /\ blank /\ t \notin {"=", "!"} IN
  [char |-> IF moved THEN Char(m) ELSE t, next |-> IF moved THEN m + 1 ELSE m,
   parens |-> IF closing THEN f.parens - 1 ELSE f.parens]

\* The operator: what is read as to_check after the key, and its last character.
Operator ==
  LET closing == f.parens > 0 /\ f.toCheck = ")"
      t == IF closing THEN Char(f.next + 1) ELSE f.toCheck
      n == IF closing THEN f.next + 1 ELSE f.next
      m == Unblank(n + 1)
      blank == t = SPACE \/ m > n + 1
      moved == Char(m) # NUL /\ blank /\ t \notin {"=", "!"} IN
  [char |-> IF moved THEN Char(m) ELSE t, next |-> IF moved THEN m + 1 ELSE m,
   parens |-> IF closing THEN f.parens - 1 ELSE f.parens]

\* "=~" takes a slot for a regular expression.
TakeSlot ==
  /\ regexCnt' = regexCnt + 1 /\ incomplete' = TRUE
  /\ UNCHANGED <<table, regexs>>

Comparisons ==
  {<<"==", "FILTER_KEY_EQ">>, <<"!=", "FILTER_KEY_NOT_EQ">>,
   <<">=", "FILTER_KEY_SUPERIOR_EQ">>, <<">", "FILTER_KEY_SUPERIOR">>,
   <<"<=", "FILTER_KEY_INFERIOR_EQ">>, <<"<", "FILTER_KEY_INFERIOR">>,
   <<"=~", "FILTER_KEY_REG_EQ">>, <<"=", "FILTER_KEY_EQ">>}

Comparing(o) ==
  {c \in Comparisons :
     /\ SubSeq(c[1], 1, 1) = o.char
     /\ Len(c[1]) = 2 => Char(o.next) = SubSeq(c[1], 2, 2)
     /\ Len(c[1]) = 1 => Char(o.next) \notin (IF o.char = "=" THEN {"=", "~"} ELSE {"="})}

\* A key alone: that it exists
Existence ==
  /\ At("compare")
  /\ LET o == Operator
         g == [f EXCEPT !.parens = o.parens]
         code == <<Bare("FILTER_KEY_EXIST")>> \o FilterGetters(f.keys)
         n == Unblank(o.next) IN
     /\ o.char = "]" \/ (f.inUnion /\ o.char = ",")
     /\ IF o.parens > 0 THEN Go(<<>>, [f EXCEPT !.at = "error", !.next = o.next])
        ELSE IF o.char = "," THEN UnionJmp(code, n - 1)
        ELSE Again(code, n)
  /\ UNCHANGED slots

NoOperator ==
  /\ At("compare")
  /\ LET o == Operator IN
     /\ Comparing(o) = {} /\ o.char # "]" /\ ~(f.inUnion /\ o.char = ",")
     /\ Go(<<>>, [f EXCEPT !.at = "error", !.next = o.next])
  /\ UNCHANGED slots

Compare ==
  /\ At("compare")
  /\ LET o == Operator IN
     /\ Comparing(o) # {}
     /\ LET c == CHOOSE x \in Comparing(o) : TRUE
            e == o.next + Len(c[1]) - 1
            n == IF c[1] = "==" /\ Char(e) = "=" THEN e + 1 ELSE e
            reg == c[2] = "FILTER_KEY_REG_EQ" IN
        IF reg /\ regexCnt >= MaxRegex THEN Fail(<<>>) /\ UNCHANGED slots
        ELSE /\ IF Char(n) = NUL THEN Fail(<<Bare(c[2])>>)
                ELSE Go(<<Bare(c[2])>> \o FilterGetters(f.keys),
                        [f EXCEPT !.at = "operand", !.walker = Unblank(n), !.op = c[2],
                                  !.parens = o.parens,
                                  !.regex = IF reg THEN regexCnt ELSE @])
             /\ IF reg THEN TakeSlot ELSE UNCHANGED slots

Operand(chars) == At("operand") /\ Char(f.walker) \in chars
AfterOperand(cells, n) ==
  Go(cells, [f EXCEPT !.at = "clause", !.next = n, !.toCheck = Char(n)])

\* Mutant: a string without an end is taken.
BugStringOperand ==
  /\ Operand(Quotes \cup {"/"}) /\ f.regex < 0
  /\ LET w == f.walker + 1
         e == Reach(w, {Char(f.walker)}) IN
     AfterOperand(<<Cell("GET_OBJ", Between(w, e), 0)>>, e + 1)
  /\ UNCHANGED slots

StringOperand ==
  /\ Operand(Quotes \cup {"/"}) /\ f.regex < 0
  /\ LET w == f.walker + 1
         e == Reach(w, {Char(f.walker)})
         code == <<Cell("GET_OBJ", Between(w, e), 0)>> IN
     IF Char(e) = NUL THEN Fail(code) ELSE AfterOperand(code, e + 1)
  /\ UNCHANGED slots

\* csonpath_reg_compile, which fills the slot whether or not the pattern is a
\* regular expression; the table is made for slot 0.  A pattern without an end
\* is taken up to that of the text.  (match_datas of PCRE2 is left out.)
RegexOperand ==
  /\ Operand(Quotes \cup {"/"}) /\ f.regex >= 0
  /\ table' = IF f.regex = 0 THEN table + 1 ELSE table
  /\ incomplete' = FALSE
  /\ LET w == f.walker + 1
         e == Reach(w, {Char(f.walker)})
         code == <<Cell("GET_ARRAY_SMALL", NoKey, f.regex)>> IN
     IF Between(w, e) \in Invalid THEN Fail(code) ELSE AfterOperand(code, e + 1)
  /\ regexs' = [regexs EXCEPT ![f.regex] = @ + 1]
  /\ UNCHANGED regexCnt

SubPathOperand ==
  /\ Operand({"$"})
  /\ IF f.op = "FILTER_KEY_REG_EQ" THEN Fail(<<>>)
     ELSE Nested(<<Bare("GET_SUBPATH")>>, f.walker, "sub_operand")
  /\ UNCHANGED slots

AfterSubPathOperand == At("sub_operand") /\ AfterOperand(<<>>, f.walker) /\ UNCHANGED slots

Constants ==
  {<<"null", "FILTER_KEY_EXIST">>, <<"true", "FILTER_KEY_TRUE">>, <<"false", "FILTER_KEY_FALSE">>}

ConstantOperand ==
  /\ At("operand")
  /\ \E c \in Constants : /\ Worded(f.walker, c[1])
                         /\ AfterOperand(<<Bare(c[2])>>, f.walker + Len(c[1]))
  /\ UNCHANGED slots

NumberOperand ==
  /\ At("operand") /\ Char(f.walker) \notin Quotes \cup {"/", "$"}
  /\ \A c \in Constants : ~Worded(f.walker, c[1])
  /\ LET e == After(f.walker, Digit) IN
     IF f.op = "FILTER_KEY_REG_EQ" \/ e = f.walker \/ Char(e) = NUL THEN Fail(<<>>)
     ELSE AfterOperand(<<Number(Atoi(f.walker))>>, e)
  /\ UNCHANGED slots

\* After the operand: another clause; the parentheses, and the end of the filter
Following == IF f.toCheck = SPACE THEN Unblank(f.next + 1) ELSE f.next

\* Mutant: the keys of the clause before are kept.
BugAnd ==
  /\ At("clause") /\ Char(Following) = "&"
  /\ LET n == IF Char(Following + 1) = "&" THEN Following + 1 ELSE Following IN
     Go(<<Bare("FILTER_AND")>>, [f EXCEPT !.at = "filter", !.walker = n + 1])
  /\ UNCHANGED slots

And ==
  /\ At("clause") /\ Char(Following) = "&"
  /\ LET n == IF Char(Following + 1) = "&" THEN Following + 1 ELSE Following IN
     Go(<<Bare("FILTER_AND")>>, [f EXCEPT !.at = "filter", !.walker = n + 1, !.keys = <<>>])
  /\ UNCHANGED slots

EndOfFilter ==
  /\ At("clause") /\ Char(Following) # "&"
  /\ LET n == Following + f.parens IN
     IF \E i \in Following..(n - 1) : Char(i) # ")" THEN Fail(<<>>)
     ELSE Closed(<<>>, n)
  /\ UNCHANGED slots

--------------------------------------------------------------------------------
\* Mutant: the slot whose pattern was not reached is released too.
BugReleased == regexCnt

\* csonpath_destroy: of the slots, all those that were taken, but for the last
\* one if its pattern was not reached; and the table, if there are any
Released == regexCnt - (IF incomplete THEN 1 ELSE 0)
Destroy ==
  /\ status \in {"compiled", "rejected"}
  /\ status' = "destroyed"
  /\ regexs' = [i \in DOMAIN regexs |-> IF i < Released THEN regexs[i] - 1 ELSE regexs[i]]
  /\ table' = IF Released > 0 THEN table - 1 ELSE table
  /\ UNCHANGED <<input, stack, data, regexCnt, incomplete>>

Init ==
  /\ input \in Inputs
  /\ stack = <<Frame(1, NUL)>>
  /\ data = <<>>
  /\ regexCnt = 0 /\ incomplete = FALSE /\ table = 0
  /\ regexs = [i \in 0..(MaxRegex - 1) |-> 0]
  /\ status = "compiling"

Selector == Root \/ Dispatch \/ TypeSelector \/ Bracket \/ Dot \/ Or \/ Space
            \/ EndOfPath \/ Unexpected \/ Error
InBracket == Array \/ Star \/ Question \/ SubPath \/ AfterSubPath \/ Quoted
             \/ IndexOrSlice \/ NumberChar \/ NumberEnd
InFilter == FilterRoot \/ Getter \/ Existence \/ NoOperator \/ Compare
            \/ StringOperand \/ RegexOperand \/ SubPathOperand \/ AfterSubPathOperand
            \/ ConstantOperand \/ NumberOperand \/ And \/ EndOfFilter

Next == Selector \/ InBracket \/ InFilter \/ Destroy

\* One thread, which nothing blocks; the caller destroys what it has made.
Spec == Init /\ [][Next]_vars /\ WF_vars(Next)
================================================================================
