----------------------------- MODULE CsonpathInst -----------------------------
(***************************************************************************)
(* The instruction stream a compiled path is made of (the data[] array of  *)
(* struct csonpath) and how the engine moves in it.                        *)
(*                                                                         *)
(* A program is a sequence of cells.  A cell is one instruction together   *)
(* with its inline operand: the NUL-terminated key of GET_OBJ and          *)
(* FIND_ALL, the number of GET_ARRAY_*, the type of TYPECHECK, the index   *)
(* of SWITCH_ROOT.  Two instructions span several cells, because the       *)
(* engine can land between their parts:                                    *)
(*   - a filter is  <<op, LEN, GET_OBJ, ..., GET_OBJ, operand>>, where LEN *)
(*     is the filter_next byte (num: its value, cnt: how many getters      *)
(*     follow it) and the operand is absent for FILTER_KEY_EXIST;          *)
(*   - RANGE is  <<RANGE, number, number>>.                                *)
(***************************************************************************)
EXTENDS Integers, Sequences

Getters   == {"GET_OBJ", "GET_ARRAY_SMALL", "GET_ARRAY_BIG"}
FilterOps == {"FILTER_KEY_EXIST", "FILTER_KEY_EQ", "FILTER_KEY_NOT_EQ",
              "FILTER_KEY_SUPERIOR", "FILTER_KEY_INFERIOR",
              "FILTER_KEY_SUPERIOR_EQ", "FILTER_KEY_INFERIOR_EQ",
              "FILTER_KEY_REG_EQ"}
Endish    == {"END", "OR"}

\* What the switch of csonpath_do_internal has a case for.
Executable == Getters \cup FilterOps \cup
              {"UNION_JMP", "UNION_END", "ROOT", "SWITCH_ROOT", "FIND_ALL",
               "RANGE", "GET_UNION", "GET_ALL", "GET_SUBPATH", "TYPECHECK"}

\* What may stand as the constant operand of a filter.
ConstOperands == Getters \cup
                 {"FILTER_KEY_EXIST", "FILTER_KEY_TRUE", "FILTER_KEY_FALSE"}

Opcodes == Executable \cup ConstOperands \cup Endish \cup
           {"FILTER_AND", "BROKEN", "LEN", "OUTSIDE"}

\* The bytes of the opcodes: the enum numbers them from 0, in this order.
Enum == <<"ROOT", "GET_OBJ", "GET_SUBPATH", "GET_ARRAY_SMALL", "GET_ARRAY_BIG",
          "FILTER_KEY_EXIST", "FILTER_KEY_TRUE", "FILTER_KEY_FALSE",
          "FILTER_KEY_SUPERIOR_EQ", "FILTER_KEY_INFERIOR_EQ", "FILTER_KEY_SUPERIOR",
          "FILTER_KEY_INFERIOR", "FILTER_KEY_EQ", "FILTER_KEY_NOT_EQ",
          "FILTER_KEY_REG_EQ", "FILTER_AND", "GET_ALL", "GET_UNION", "UNION_JMP",
          "UNION_END", "FIND_ALL", "TYPECHECK", "RANGE", "OR", "END", "SWITCH_ROOT",
          "BROKEN">>
Byte(inst) == (CHOOSE i \in DOMAIN Enum : Enum[i] = inst) - 1

\* What follows the opcode byte of these is a cell of its own.
Bytewide == {"ROOT", "GET_SUBPATH", "FILTER_AND", "GET_ALL", "GET_UNION",
             "UNION_JMP", "UNION_END", "RANGE", "OR", "END"}

NoKey == ""
Text  == STRING \cup {NoKey}     \* that "" is a string is unknown to tlapm

Cells == [inst : Opcodes, key : Text, num : Nat, cnt : Nat]

Cell(inst, key, num) == [inst |-> inst, key |-> key, num |-> num, cnt |-> 0]
Bare(inst) == Cell(inst, NoKey, 0)

\* csonpath_fill_walker_with_int; the byte of GET_ARRAY_SMALL is a char
Number(n) == Cell(IF n < 100 THEN "GET_ARRAY_SMALL" ELSE "GET_ARRAY_BIG", NoKey, n)

\* csonpath_push_filter_getter: the filter_next byte, then the getters; each
\* is its opcode, its key and a NUL
FilterGetters(keys) ==
  LET bytes[n \in 0..Len(keys)] ==
        IF n = 0 THEN 0 ELSE bytes[n - 1] + Len(keys[n]) + 2
  IN  <<[Cell("LEN", NoKey, bytes[Len(keys)] - 1) EXCEPT !.cnt = Len(keys)]>>
      \o [i \in DOMAIN keys |-> Cell("GET_OBJ", keys[i], 0)]

\* What is read past the end of data[] is none of the instructions.
Outside == Cell("OUTSIDE", NoKey, 0)
CellAt(prog, pc) == IF pc \in DOMAIN prog THEN prog[pc] ELSE Outside

\* FIND_ALL whose key is the GET_ALL byte: the wildcard descent "..*".
Wildcard == "*"

(***************************************************************************)
(* csonpath_walker_next_inst.  The length table gives the filter operators *)
(* 2 bytes (operator and filter_next), except FILTER_KEY_EXIST, which is   *)
(* given 1 although it is followed by a filter_next byte too.  Stepping    *)
(* over FILTER_KEY_EXIST therefore lands on that byte (LEN), which is then *)
(* read as an opcode.  The bytes of OneByte are opcodes 1 byte long: the   *)
(* walk is back in step by luck.  So it is with 20 (FIND_ALL, taken up to  *)
(* the NUL that ends the first getter) and with 4 (GET_ARRAY_BIG, which    *)
(* for a single three-letter getter ends on that NUL, read as ROOT).  The  *)
(* others lead into the letters of a key, outside the table, or stand for  *)
(* unions and ends that are not there: the walk is lost.                   *)
(***************************************************************************)
OneByte == {2, 5, 6, 7, 15, 16, 22, 26}
WideOps == FilterOps \ {"FILTER_KEY_EXIST"}

Lost(cell) == \/ cell.inst = "LEN" /\ cell.num \notin OneByte \cup {4, 20}
              \/ cell = Outside

NextInst(prog, pc) ==
  LET cell == CellAt(prog, pc) IN
  IF cell.inst \in WideOps \/ (cell.inst = "LEN" /\ cell.num \in {4, 20})
  THEN pc + 2
  ELSE pc + 1
================================================================================
