--------------------------- MODULE InstructionSet ---------------------------
(***************************************************************************)
(* What the compiler writes for an instruction (Compiler/instructions.py,   *)
(* Compiler/instructions_base.py) and what the machine reads of it          *)
(* (Processor/Instruction.h, Processor/Instruction.cpp): the two tables of  *)
(* opcodes and formats that are kept by hand.                               *)
(*                                                                          *)
(* A word has four digits below Digit.  A string takes four words, the first *)
(* of which stands for it.                                                  *)
(***************************************************************************)
EXTENDS Integers, Sequences, FiniteSetsExt, SequencesExt, TLC

CONSTANT Digit             \* 256 in the code

(* Names with numbers in a row, and several such rows.                      *)
Row(first, names) ==
  [n \in ToSet(names) |-> first - 1 + CHOOSE i \in DOMAIN names : names[i] = n]
Rows(rows) == FoldSeq(LAMBDA row, all : row @@ all, <<>>, rows)

-----------------------------------------------------------------------------
(* The compiler.                                                            *)

Opcodes == Rows(<<
  Row(\H01, <<"LDI", "LDSI", "LDMC", "LDMS", "STMC", "STMS", "LDMCI", "LDMSI", "STMCI", "STMSI",
              "MOVC", "MOVS", "PROTECTMEMS", "PROTECTMEMC", "PROTECTMEMINT">>),
  Row(\HCA, <<"LDMINT", "STMINT", "LDMINTI", "STMINTI", "PUSHINT", "POPINT", "MOVINT">>),
  Row(\H10, <<"LDTN", "LDARG", "REQBL", "STARG", "TIME", "START", "STOP", "USE", "USE_INP",
              "RUN_TAPE", "JOIN_TAPE", "CRASH", "USE_PREP", "STARTGRIND", "STOPGRIND">>),
  Row(\H20, <<"ADDC", "ADDS", "ADDM", "ADDCI", "ADDSI", "SUBC", "SUBS", "SUBML", "SUBMR",
              "SUBCI", "SUBSI", "SUBCFI", "SUBSFI">>),
  Row(\H30, <<"MULC", "MULM", "MULCI", "MULSI", "DIVC", "DIVCI", "MODC", "MODCI", "LEGENDREC",
              "DIGESTC", "INV2M">>),
  Row(\H136, <<"GMULBITC", "GMULBITM">>),
  Row(\HA0, <<"STARTOPEN", "STOPOPEN">>),
  Row(\H50, <<"TRIPLE", "BIT", "SQUARE", "INV">>), Row(\H154, <<"GBITTRIPLE", "GBITGF2NTRIPLE">>),
  Row(\H56, <<"INPUTMASK", "PREP">>),
  Row(\H60, <<"INPUT", "STARTINPUT", "STOPINPUT", "READSOCKETC", "READSOCKETS", "WRITESOCKETC",
              "WRITESOCKETS">>),
  Row(\H69, <<"READSOCKETINT", "WRITESOCKETINT", "WRITESOCKETSHARE", "LISTEN",
              "ACCEPTCLIENTCONNECTION", "CONNECTIPV4", "READCLIENTPUBLICKEY">>),
  Row(\H70, <<"ANDC", "XORC", "ORC", "ANDCI", "XORCI", "ORCI", "NOTC">>),
  Row(\H80, <<"SHLC", "SHRC", "SHLCI", "SHRCI">>), Row(\H184, <<"GBITDEC", "GBITCOM">>),
  Row(\H90, <<"JMP", "JMPNZ", "JMPEQZ", "EQZC", "LTZC", "LTC", "GTC", "EQC", "JMPI", "BITDECINT",
              "LDINT", "ADDINT", "SUBINT", "MULINT", "DIVINT", "PRINTINT">>),
  Row(\HC0, <<"CONVINT", "CONVMODP">>), Row(\H1C1, <<"GCONVGF2N">>),
  Row(\HB0, <<"PRINTMEM", "PRINTREG", "RAND", "PRINTREGPLAIN", "PRINTCHR", "PRINTSTR", "PUBINPUT",
              "RAWOUTPUT", "STARTPRIVATEOUTPUT", "STOPPRIVATEOUTPUT", "PRINTCHRINT",
              "PRINTSTRINT", "PRINTFLOATPLAIN", "WRITEFILESHARE", "READFILESHARE">>),
  Row(\H1BA, <<"INITSECURESOCKET", "RESPSECURESOCKET">>) >>)

(* A class of instructions: whether it is of GF(2^n), the formats of its     *)
(* arguments, that of any number of further ones, if it has them, and whether *)
(* it has vectors.                                                          *)
Class(op, gf2n, format, rest, vec) ==
  [op |-> op, gf2n |-> gf2n, format |-> format, rest |-> rest, vec |-> vec]
Code(c) == Opcodes[c.op] + (IF c.gf2n THEN 256 ELSE 0)

(* The decorator gf2n adds a class of the other field; some classes stand    *)
(* for it on their own.                                                     *)
Kept == {"int", "p", "ci", "str"}
InGf2n(f) ==
  CASE f \in Kept -> f
    [] f = "c" -> "cg" [] f = "cw" -> "cgw" [] f = "s" -> "sg" [] f = "sw" -> "sgw"
    [] f = "i" -> "ig" [] f = "ciw" -> "cgiw" [] f = "" -> ""
Of(names, format, rest, vec) == {Class(n, FALSE, format, rest, vec) : n \in names}
InBoth(classes) ==
  classes \cup {[c EXCEPT !.gf2n = TRUE, !.rest = InGf2n(c.rest),
                          !.format = [i \in DOMAIN c.format |-> InGf2n(c.format[i])]] : c \in classes}

LoadClasses ==
  InBoth(UNION {
    Of({"LDI"}, <<"cw", "i">>, "", TRUE), Of({"LDSI"}, <<"sw", "i">>, "", TRUE),
    Of({"LDMC"}, <<"cw", "int">>, "", TRUE), Of({"LDMS"}, <<"sw", "int">>, "", TRUE),
    Of({"STMC"}, <<"c", "int">>, "", TRUE), Of({"STMS"}, <<"s", "int">>, "", TRUE),
    Of({"LDMCI"}, <<"cw", "ci">>, "", TRUE), Of({"LDMSI"}, <<"sw", "ci">>, "", TRUE),
    Of({"STMCI"}, <<"c", "ci">>, "", TRUE), Of({"STMSI"}, <<"s", "ci">>, "", TRUE) })
MoveClasses ==
  InBoth(UNION {
    Of({"PROTECTMEMS", "PROTECTMEMC", "PROTECTMEMINT"}, <<"ci", "ci">>, "", TRUE),
    Of({"MOVC"}, <<"cw", "c">>, "", TRUE), Of({"MOVS"}, <<"sw", "s">>, "", TRUE) })
  \cup UNION {
    Of({"LDMINT"}, <<"ciw", "int">>, "", TRUE), Of({"STMINT"}, <<"ci", "int">>, "", TRUE),
    Of({"LDMINTI", "MOVINT"}, <<"ciw", "ci">>, "", TRUE), Of({"STMINTI"}, <<"ci", "ci">>, "", TRUE),
    Of({"PUSHINT"}, <<"ci">>, "", TRUE), Of({"POPINT"}, <<"ciw">>, "", TRUE) }

MachineClasses ==
  InBoth(Of({"REQBL"}, <<"int">>, "", FALSE) \cup Of({"USE_PREP"}, <<"str", "int">>, "", FALSE))
  \cup UNION {
    Of({"LDTN", "LDARG"}, <<"ciw">>, "", TRUE), Of({"STARG"}, <<"ci">>, "", TRUE),
    Of({"TIME", "CRASH", "STARTGRIND", "STOPGRIND"}, <<>>, "", FALSE),
    Of({"START", "STOP"}, <<"i">>, "", FALSE), Of({"JOIN_TAPE"}, <<"int">>, "", FALSE),
    Of({"USE", "USE_INP", "RUN_TAPE"}, <<"int", "int", "int">>, "", FALSE) }

ArithmeticClasses ==
  InBoth(UNION {
    Of({"ADDC", "SUBC", "MULC", "DIVC", "MODC", "ANDC", "ORC", "XORC", "SHLC", "SHRC"},
       <<"cw", "c", "c">>, "", TRUE),
    Of({"ADDS", "SUBS"}, <<"sw", "s", "s">>, "", TRUE),
    Of({"ADDM", "SUBML", "MULM"}, <<"sw", "s", "c">>, "", TRUE),
    Of({"SUBMR"}, <<"sw", "c", "s">>, "", TRUE) })
  \cup Of({"INV2M"}, <<"cw", "int">>, "", TRUE) \cup Of({"LEGENDREC"}, <<"cw", "c">>, "", TRUE)
BitClasses ==
  UNION {
    Of({"DIGESTC", "NOTC"}, <<"cw", "c", "int">>, "", TRUE),
    {Class("NOTC", TRUE, <<"cgw", "cg">>, "", TRUE)},
    Of({"GMULBITC"}, <<"cgw", "cg", "cg">>, "", TRUE), Of({"GMULBITM"}, <<"sgw", "sg", "cg">>, "", TRUE),
    Of({"GBITDEC"}, <<"cg", "int">>, "cgw", TRUE), Of({"GBITCOM"}, <<"cgw", "int">>, "cg", TRUE) }

ImmediateClasses ==
  InBoth(Of({"ADDCI", "SUBCI", "SUBCFI", "MULCI", "DIVCI", "MODCI", "ANDCI", "XORCI", "ORCI",
             "SHLCI", "SHRCI"}, <<"cw", "c", "i">>, "", TRUE)
         \cup Of({"ADDSI", "SUBSI", "SUBSFI", "MULSI"}, <<"sw", "s", "i">>, "", TRUE))

DataClasses ==
  InBoth(UNION {
    Of({"TRIPLE"}, <<"sw", "sw", "sw">>, "", TRUE), Of({"BIT"}, <<"sw">>, "", TRUE),
    Of({"SQUARE", "INV"}, <<"sw", "sw">>, "", TRUE), Of({"INPUTMASK"}, <<"sw", "p">>, "", TRUE),
    Of({"PREP"}, <<"str">>, "sw", TRUE), Of({"STARTOPEN"}, <<>>, "s", TRUE),
    Of({"STOPOPEN"}, <<>>, "cw", TRUE) })
  \cup Of({"GBITTRIPLE", "GBITGF2NTRIPLE"}, <<"sgw", "sgw", "sgw">>, "", TRUE)

OutsideClasses ==
  InBoth(UNION {
    Of({"INPUT"}, <<"sw", "p">>, "", TRUE), Of({"STARTINPUT"}, <<"p", "int">>, "", FALSE),
    Of({"STOPINPUT"}, <<"p">>, "sw", FALSE), Of({"PRINTREG"}, <<"c", "i">>, "", TRUE),
    Of({"PRINTMEM", "PRINTREGPLAIN", "RAWOUTPUT"}, <<"c">>, "", TRUE),
    Of({"STARTPRIVATEOUTPUT"}, <<"sw", "s", "p">>, "", TRUE),
    Of({"STOPPRIVATEOUTPUT"}, <<"c", "p">>, "", TRUE) })
PrintClasses ==
  UNION {
    Of({"PRINTFLOATPLAIN"}, <<"c", "c", "c", "c">>, "", TRUE), Of({"PRINTINT"}, <<"ci">>, "", FALSE),
    Of({"PRINTCHR", "PRINTSTR", "LISTEN"}, <<"int">>, "", FALSE),
    Of({"PRINTCHRINT", "PRINTSTRINT"}, <<"ci">>, "", TRUE), Of({"PUBINPUT"}, <<"ciw">>, "", TRUE) }
SocketClasses ==
  UNION {
    Of({"READSOCKETC"}, <<"ci">>, "cw", TRUE), Of({"READSOCKETS"}, <<"ci">>, "sw", TRUE),
    Of({"READSOCKETINT"}, <<"ci">>, "ciw", TRUE), Of({"WRITESOCKETC"}, <<"ci", "int">>, "c", TRUE),
    Of({"WRITESOCKETS", "WRITESOCKETSHARE"}, <<"ci", "int">>, "s", TRUE),
    Of({"WRITESOCKETINT"}, <<"ci", "int">>, "ci", TRUE),
    Of({"ACCEPTCLIENTCONNECTION"}, <<"ciw", "int">>, "", FALSE),
    Of({"CONNECTIPV4"}, <<"ciw", "ci", "int">>, "", FALSE),
    Of({"READCLIENTPUBLICKEY", "INITSECURESOCKET", "RESPSECURESOCKET"}, <<"ci">>, "ci", FALSE),
    Of({"WRITEFILESHARE"}, <<>>, "s", FALSE), Of({"READFILESHARE"}, <<"ci", "ciw">>, "sw", FALSE) }

IntegerClasses ==
  InBoth(Of({"CONVINT"}, <<"cw", "ci">>, "", TRUE))
  \cup UNION {
    Of({"LDINT"}, <<"ciw", "i">>, "", TRUE), Of({"RAND", "EQZC", "LTZC"}, <<"ciw", "ci">>, "", TRUE),
    Of({"ADDINT", "SUBINT", "MULINT", "DIVINT", "LTC", "GTC", "EQC"}, <<"ciw", "ci", "ci">>, "", TRUE),
    Of({"BITDECINT"}, <<"ci">>, "ciw", TRUE), Of({"CONVMODP"}, <<"ciw", "c", "int">>, "", TRUE),
    Of({"GCONVGF2N"}, <<"ciw", "cg">>, "", TRUE), Of({"JMP"}, <<"int">>, "", FALSE),
    Of({"JMPI"}, <<"ci">>, "", FALSE), Of({"JMPNZ", "JMPEQZ"}, <<"ci", "int">>, "", FALSE) }

Classes == UNION {LoadClasses, MoveClasses, MachineClasses, ArithmeticClasses, BitClasses,
                  ImmediateClasses, DataClasses, OutsideClasses, PrintClasses, SocketClasses,
                  IntegerClasses}

(* The registers of a format, and whether it is written.                     *)
Bank(f) ==
  CASE f \in {"c", "cw"} -> "C" [] f \in {"s", "sw"} -> "S" [] f \in {"cg", "cgw"} -> "C2"
    [] f \in {"sg", "sgw"} -> "S2" [] f \in {"ci", "ciw"} -> "I" [] OTHER -> "none"
Written(f) == f \in {"cw", "sw", "cgw", "sgw", "ciw"}

(* int_to_bytes.                                                             *)
IntToBytes(x) == [i \in 1 .. 4 |-> (x \div Digit ^ (4 - i)) % Digit]

(* get_encoding of an instruction with its arguments.                        *)
FormatAt(c, i) == IF i <= Len(c.format) THEN c.format[i] ELSE c.rest
GetEncoding(c, size, args) ==
  IntToBytes((IF size > 1 THEN size * 512 ELSE 0) + Code(c))
  \o (IF c.rest = "" THEN <<>> ELSE IntToBytes(Len(args)))
  \o FlattenSeq([i \in DOMAIN args |->
       IntToBytes(args[i])
       \o (IF FormatAt(c, i) = "str" THEN [k \in 1 .. 12 |-> 0] ELSE <<>>)])

-----------------------------------------------------------------------------
(* The machine.                                                             *)

ModpEnum == Rows(<<
  Row(\H01, <<"LDI", "LDSI", "LDMC", "LDMS", "STMC", "STMS", "LDMCI", "LDMSI", "STMCI", "STMSI",
              "MOVC", "MOVS", "PROTECTMEMS", "PROTECTMEMC", "PROTECTMEMINT">>),
  Row(\HCA, <<"LDMINT", "STMINT", "LDMINTI", "STMINTI", "PUSHINT", "POPINT", "MOVINT">>),
  Row(\H10, <<"LDTN", "LDARG", "REQBL", "STARG", "TIME", "START", "STOP", "USE", "USE_INP",
              "RUN_TAPE", "JOIN_TAPE", "CRASH", "USE_PREP", "STARTGRIND", "STOPGRIND">>),
  Row(\H20, <<"ADDC", "ADDS", "ADDM", "ADDCI", "ADDSI", "SUBC", "SUBS", "SUBML", "SUBMR",
              "SUBCI", "SUBSI", "SUBCFI", "SUBSFI">>),
  Row(\H30, <<"MULC", "MULM", "MULCI", "MULSI", "DIVC", "DIVCI", "MODC", "MODCI", "LEGENDREC",
              "DIGESTC", "INV2M">>),
  Row(\HA0, <<"STARTOPEN", "STOPOPEN">>), Row(\H50, <<"TRIPLE", "BIT", "SQUARE", "INV">>),
  Row(\H56, <<"INPUTMASK", "PREP">>),
  Row(\H60, <<"INPUT", "STARTINPUT", "STOPINPUT", "READSOCKETC", "READSOCKETS", "WRITESOCKETC",
              "WRITESOCKETS">>),
  Row(\H69, <<"READSOCKETINT", "WRITESOCKETINT", "WRITESOCKETSHARE", "LISTEN",
              "ACCEPTCLIENTCONNECTION", "CONNECTIPV4", "READCLIENTPUBLICKEY">>),
  Row(\H70, <<"ANDC", "XORC", "ORC", "ANDCI", "XORCI", "ORCI", "NOTC">>),
  Row(\H80, <<"SHLC", "SHRC", "SHLCI", "SHRCI">>),
  Row(\H90, <<"JMP", "JMPNZ", "JMPEQZ", "EQZC", "LTZC", "LTC", "GTC", "EQC", "JMPI", "BITDECINT",
              "LDINT", "ADDINT", "SUBINT", "MULINT", "DIVINT", "PRINTINT">>),
  Row(\HC0, <<"CONVINT", "CONVMODP">>),
  Row(\HB0, <<"PRINTMEM", "PRINTREG", "RAND", "PRINTREGPLAIN", "PRINTCHR", "PRINTSTR", "PUBINPUT",
              "RAWOUTPUT", "STARTPRIVATEOUTPUT", "STOPPRIVATEOUTPUT", "PRINTCHRINT",
              "PRINTSTRINT", "PRINTFLOATPLAIN", "WRITEFILESHARE", "READFILESHARE">>) >>)
Gf2nEnum == Rows(<<
  Row(\H101, <<"GLDI", "GLDSI", "GLDMC", "GLDMS", "GSTMC", "GSTMS", "GLDMCI", "GLDMSI", "GSTMCI",
               "GSTMSI", "GMOVC", "GMOVS", "GPROTECTMEMS", "GPROTECTMEMC">>),
  Row(\H112, <<"GREQBL">>), Row(\H11C, <<"GUSE_PREP">>),
  Row(\H120, <<"GADDC", "GADDS", "GADDM", "GADDCI", "GADDSI", "GSUBC", "GSUBS", "GSUBML", "GSUBMR",
               "GSUBCI", "GSUBSI", "GSUBCFI", "GSUBSFI">>),
  Row(\H130, <<"GMULC", "GMULM", "GMULCI", "GMULSI", "GDIVC", "GDIVCI", "GMULBITC", "GMULBITM">>),
  Row(\H1A0, <<"GSTARTOPEN", "GSTOPOPEN">>),
  Row(\H150, <<"GTRIPLE", "GBIT", "GSQUARE", "GINV", "GBITTRIPLE", "GBITGF2NTRIPLE", "GINPUTMASK",
               "GPREP">>),
  Row(\H160, <<"GINPUT", "GSTARTINPUT", "GSTOPINPUT">>), Row(\H164, <<"GREADSOCKETS">>),
  Row(\H166, <<"GWRITESOCKETS">>),
  Row(\H170, <<"GANDC", "GXORC", "GORC", "GANDCI", "GXORCI", "GORCI", "GNOTC">>),
  Row(\H182, <<"GSHLCI", "GSHRCI", "GBITDEC", "GBITCOM">>),
  Row(\H1C0, <<"GCONVINT", "GCONVGF2N">>), Row(\H1B0, <<"GPRINTMEM", "GPRINTREG">>),
  Row(\H1B3, <<"GPRINTREGPLAIN">>), Row(\H1B7, <<"GRAWOUTPUT", "GSTARTPRIVATEOUTPUT",
               "GSTOPPRIVATEOUTPUT", "INITSECURESOCKET", "RESPSECURESOCKET">>) >>)
Enum == ModpEnum @@ Gf2nEnum
(* The two of GF(2^n) for sockets have no case.                              *)
Named(opcode) == {n \in DOMAIN Enum : Enum[n] = opcode} \ {"GREADSOCKETS", "GWRITESOCKETS"}

(* parse_operands: where each operand goes, and whether start takes the      *)
(* others (after their number) or just four.                                *)
ThreeRegisters ==
  {"ADDC", "ADDS", "ADDM", "SUBC", "SUBS", "SUBML", "SUBMR", "MULC", "MULM", "DIVC", "MODC",
   "TRIPLE", "ANDC", "XORC", "ORC", "SHLC", "SHRC", "GADDC", "GADDS", "GADDM", "GSUBC", "GSUBS",
   "GSUBML", "GSUBMR", "GMULC", "GMULM", "GDIVC", "GTRIPLE", "GBITTRIPLE", "GBITGF2NTRIPLE",
   "GANDC", "GXORC", "GORC", "GMULBITC", "GMULBITM", "LTC", "GTC", "EQC", "ADDINT", "SUBINT",
   "MULINT", "DIVINT"}
TwoRegisters ==
  {"LDMCI", "LDMSI", "STMCI", "STMSI", "MOVC", "MOVS", "MOVINT", "LDMINTI", "STMINTI",
   "LEGENDREC", "SQUARE", "INV", "GINV", "CONVINT", "GLDMCI", "GLDMSI", "GSTMCI", "GSTMSI",
   "GMOVC", "GMOVS", "GSQUARE", "GNOTC", "GCONVINT", "GCONVGF2N", "LTZC", "EQZC", "RAND",
   "PROTECTMEMS", "PROTECTMEMC", "GPROTECTMEMS", "GPROTECTMEMC", "PROTECTMEMINT"}
OneRegister ==
  {"BIT", "PRINTMEM", "PRINTREGPLAIN", "LDTN", "LDARG", "STARG", "JMPI", "GBIT", "GPRINTMEM",
   "GPRINTREGPLAIN", "JOIN_TAPE", "PUSHINT", "POPINT", "PUBINPUT", "RAWOUTPUT", "GRAWOUTPUT",
   "PRINTCHRINT", "PRINTSTRINT", "PRINTINT"}
TwoRegistersAndInteger ==
  {"ADDCI", "ADDSI", "SUBCI", "SUBSI", "SUBCFI", "SUBSFI", "MULCI", "MULSI", "DIVCI", "MODCI",
   "ANDCI", "XORCI", "ORCI", "SHLCI", "SHRCI", "NOTC", "CONVMODP", "GADDCI", "GADDSI", "GSUBCI",
   "GSUBSI", "GSUBCFI", "GSUBSFI", "GMULCI", "GMULSI", "GDIVCI", "GANDCI", "GXORCI", "GORCI",
   "GSHLCI", "GSHRCI", "USE", "USE_INP", "RUN_TAPE", "STARTPRIVATEOUTPUT",
   "GSTARTPRIVATEOUTPUT", "DIGESTC", "CONNECTIPV4"}
RegisterAndInteger ==
  {"LDI", "LDSI", "LDMC", "LDMS", "STMC", "STMS", "LDMINT", "STMINT", "INPUT", "JMPNZ", "JMPEQZ",
   "GLDI", "GLDSI", "GLDMC", "GLDMS", "GSTMC", "GSTMS", "GINPUT", "PRINTREG", "GPRINTREG",
   "LDINT", "STARTINPUT", "GSTARTINPUT", "STOPPRIVATEOUTPUT", "GSTOPPRIVATEOUTPUT", "INPUTMASK",
   "GINPUTMASK", "ACCEPTCLIENTCONNECTION", "INV2M"}
Layout(op) ==
  LET to(fixed, others) == [fixed |-> fixed, others |-> others] IN
  CASE op \in ThreeRegisters -> to(<<"r0", "r1", "r2">>, "no")
    [] op \in TwoRegisters -> to(<<"r0", "r1">>, "no")
    [] op \in OneRegister -> to(<<"r0">>, "no")
    [] op \in TwoRegistersAndInteger -> to(<<"r0", "r1", "n">>, "no")
    [] op \in RegisterAndInteger -> to(<<"r0", "n">>, "no")
    [] op \in {"PRINTSTR", "PRINTCHR", "JMP", "START", "STOP", "LISTEN", "REQBL", "GREQBL"} -> to(<<"n">>, "no")
    [] op \in {"TIME", "CRASH", "STARTGRIND", "STOPGRIND"} -> to(<<>>, "no")
    [] op = "PRINTFLOATPLAIN" -> to(<<>>, "four")
    [] op \in {"STARTOPEN", "STOPOPEN", "GSTARTOPEN", "GSTOPOPEN", "WRITEFILESHARE"} -> to(<<>>, "counted")
    [] op \in {"READFILESHARE", "WRITESOCKETC", "WRITESOCKETS", "WRITESOCKETSHARE",
               "WRITESOCKETINT"} -> to(<<"r0", "r1">>, "counted")
    [] op \in {"READSOCKETC", "READSOCKETS", "READSOCKETINT", "READCLIENTPUBLICKEY",
               "INITSECURESOCKET", "RESPSECURESOCKET", "BITDECINT"} -> to(<<"r0">>, "counted")
    [] op \in {"STOPINPUT", "GSTOPINPUT"} -> to(<<"n">>, "counted")
    [] op \in {"GBITDEC", "GBITCOM"} -> to(<<"r0", "n">>, "counted")
    [] op \in {"PREP", "GPREP"} -> to(<<"r">>, "counted")
    [] op \in {"USE_PREP", "GUSE_PREP"} -> to(<<"r", "n">>, "no")

(* get_int: of four digits, with a sign.                                     *)
GetInt(bytes, i) ==
  LET v == FoldLeft(LAMBDA n, k : n * Digit + bytes[4 * i + k], 0, <<1, 2, 3, 4>>)
  IN  IF v >= Digit ^ 4 \div 2 THEN v - Digit ^ 4 ELSE v

(* parse: the opcode, the size and the fields.  An invalid instruction throws *)
(* and has no opcode.                                                       *)
Width(f) == IF f = "r" THEN 4 ELSE 1
OperandAt(fixed, skip, k) == skip + FoldLeft(LAMBDA s, f : s + Width(f), 0, SubSeq(fixed, 1, k - 1))
ParseOperands(op, fixed, skip, others, bytes) ==
  LET word(i) == GetInt(bytes, i)
      end == OperandAt(fixed, skip, Len(fixed) + 1)
      field(f) ==
        IF f \notin ToSet(fixed) THEN 0
        ELSE word(OperandAt(fixed, skip, CHOOSE k \in DOMAIN fixed : fixed[k] = f))
  IN  [op |-> op, size |-> IF word(0) \div 512 = 0 THEN 1 ELSE word(0) \div 512,
       r |-> IF "r" \in ToSet(fixed) THEN [i \in 0 .. 3 |-> word(skip + i)]
             ELSE [i \in 0 .. 3 |-> IF i = 3 THEN 0 ELSE field(<<"r0", "r1", "r2">>[i + 1])],
       n |-> field("n"),
       start |-> [i \in 1 .. others |-> word(end + i - 1)],
       used |-> 4 * (end + others)]
ParseLayout(op, layout, bytes) ==
  ParseOperands(op, layout.fixed, IF layout.others = "counted" THEN 2 ELSE 1,
                CASE layout.others = "no" -> 0 [] layout.others = "four" -> 4
                  [] OTHER -> GetInt(bytes, 1) - Len(layout.fixed),
                bytes)
ParseAs(op, bytes) == ParseLayout(op, Layout(op), bytes)
Parse(bytes) ==
  IF Named(GetInt(bytes, 0) % 512) = {} THEN [op |-> "invalid"]
  ELSE ParseAs(CHOOSE n \in Named(GetInt(bytes, 0) % 512) : TRUE, bytes)

(* execute: the registers each field stands for ("w" if written), of the      *)
(* opcodes without regard to the field.                                     *)
Fields(fixed, others) == [fixed |-> fixed, others |-> others]
Accesses(rows) ==
  FoldSeq(LAMBDA row, all : [op \in row[1] |-> Fields(row[2], row[3])] @@ all, <<>>, rows)
MemoryOperands == Accesses(<<
  <<{"LDI", "LDMC"}, <<"Cw">>, "">>,
  <<{"LDSI", "LDMS"}, <<"Sw">>, "">>,
  <<{"STMC"}, <<"C">>, "">>,
  <<{"STMS"}, <<"S">>, "">>,
  <<{"LDMINT", "POPINT", "LDTN", "LDARG"}, <<"Iw">>, "">>,
  <<{"STMINT", "PUSHINT", "STARG"}, <<"I">>, "">>,
  <<{"LDMCI"}, <<"Cw", "I">>, "">>,
  <<{"LDMSI"}, <<"Sw", "I">>, "">>,
  <<{"STMCI"}, <<"C", "I">>, "">>,
  <<{"STMSI"}, <<"S", "I">>, "">>,
  <<{"LDMINTI", "MOVINT"}, <<"Iw", "I">>, "">>,
  <<{"STMINTI", "PROTECTMEMS", "PROTECTMEMC", "PROTECTMEMINT"}, <<"I", "I">>, "">>,
  <<{"MOVC"}, <<"Cw", "C">>, "">>,
  <<{"MOVS"}, <<"Sw", "S">>, "">> >>)
SumOperands == Accesses(<<
  <<{"ADDC", "SUBC", "MULC"}, <<"Cw", "C", "C">>, "">>,
  <<{"ADDS", "SUBS"}, <<"Sw", "S", "S">>, "">>,
  <<{"ADDM", "SUBML", "MULM"}, <<"Sw", "S", "C">>, "">>,
  <<{"SUBMR"}, <<"Sw", "C", "S">>, "">> >>)
QuotientOperands == Accesses(<<
  <<{"DIVC", "MODC", "MULBITC"}, <<"Cw", "C", "C">>, "">>,
  <<{"MULBITM"}, <<"Sw", "S", "C">>, "">>,
  <<{"LEGENDREC", "DIGESTC", "DIVCI", "MODCI"}, <<"Cw", "C">>, "">>,
  <<{"INV2M"}, <<"Cw">>, "">> >>)
ImmediateOperands == Accesses(<<
  <<{"ADDCI", "SUBCI", "SUBCFI", "MULCI"}, <<"Cw", "C">>, "">>,
  <<{"ADDSI", "SUBSI", "SUBSFI", "MULSI"}, <<"Sw", "S">>, "">> >>)
DataOperands == Accesses(<<
  <<{"TRIPLE", "BITTRIPLE", "BITGF2NTRIPLE"}, <<"Sw", "Sw", "Sw">>, "">>,
  <<{"SQUARE", "INV"}, <<"Sw", "Sw">>, "">>,
  <<{"BIT", "INPUTMASK", "INPUT"}, <<"Sw">>, "">>,
  <<{"STOPINPUT"}, <<>>, "Sw">> >>)
BitOperands == Accesses(<<
  <<{"ANDC", "XORC", "ORC"}, <<"Cw", "C", "C">>, "">>,
  <<{"ANDCI", "XORCI", "ORCI", "NOTC"}, <<"Cw", "C">>, "">> >>)
ShiftOperands == Accesses(<<
  <<{"SHLC", "SHRC"}, <<"Cw", "C", "C">>, "">>,
  <<{"SHLCI", "SHRCI"}, <<"Cw", "C">>, "">>,
  <<{"BITDEC"}, <<"C">>, "Cw">>,
  <<{"BITCOM"}, <<"Cw">>, "C">>,
  <<{"BITDECINT"}, <<"I">>, "Iw">>,
  <<{"STARTOPEN"}, <<>>, "S">>,
  <<{"STOPOPEN"}, <<>>, "Cw">> >>)
IntegerOperands == Accesses(<<
  <<{"JMPI", "JMPNZ", "JMPEQZ"}, <<"I">>, "">>,
  <<{"EQZC", "LTZC"}, <<"Iw", "I">>, "">>,
  <<{"ADDINT", "SUBINT", "MULINT", "DIVINT", "LTC", "GTC", "EQC"}, <<"Iw", "I", "I">>, "">>,
  <<{"LDINT"}, <<"Iw">>, "">>,
  <<{"CONVINT"}, <<"Cw", "I">>, "">>,
  <<{"CONVMODP", "CONVGF2N"}, <<"Iw", "C">>, "">> >>)
PrintOperands == Accesses(<<
  <<{"PRINTINT", "PRINTCHRINT", "PRINTSTRINT"}, <<"I">>, "">>, <<{"RAND"}, <<"Iw", "I">>, "">>,
  <<{"PRINTREG", "PRINTREGPLAIN"}, <<"C">>, "">>,
  <<{"PRINTFLOATPLAIN"}, <<>>, "C">> >>)
OutsideOperands == Accesses(<<
  <<{"ACCEPTCLIENTCONNECTION", "PUBINPUT"}, <<"Iw">>, "">>,
  <<{"CONNECTIPV4"}, <<"Iw", "I">>, "">>,
  <<{"RAWOUTPUT", "STOPPRIVATEOUTPUT"}, <<"C">>, "">>,
  <<{"STARTPRIVATEOUTPUT"}, <<"Sw", "S">>, "">>,
  <<{"WRITEFILESHARE"}, <<>>, "S">>,
  <<{"READFILESHARE"}, <<"I", "Iw">>, "Sw">>,
  <<{"PREP"}, <<>>, "Sw">>,
  <<{"READSOCKETC"}, <<"I">>, "Cw">>,
  <<{"READSOCKETS"}, <<"I">>, "Sw">>,
  <<{"READSOCKETINT", "READCLIENTPUBLICKEY"}, <<"I">>, "Iw">>,
  <<{"WRITESOCKETC"}, <<"I">>, "C">>,
  <<{"WRITESOCKETS", "WRITESOCKETSHARE"}, <<"I">>, "S">>,
  <<{"WRITESOCKETINT", "INITSECURESOCKET", "RESPSECURESOCKET"}, <<"I">>, "I">> >>)
AllOperands ==
  FoldSeq(LAMBDA some, all : some @@ all, <<>>,
          <<MemoryOperands, SumOperands, QuotientOperands, ImmediateOperands, DataOperands,
            BitOperands, ShiftOperands, IntegerOperands, PrintOperands, OutsideOperands>>)
Operands(op) == IF op \in DOMAIN AllOperands THEN AllOperands[op] ELSE Fields(<<>>, "")

IsGf2nInstruction(op) == (Enum[op] \div 256) % 2 = 1
(* The cases of the opcodes of both fields.                                  *)
Base(op) ==
  IF IsGf2nInstruction(op) /\ op \notin {"INITSECURESOCKET", "RESPSECURESOCKET"}
  THEN CASE op = "GMULBITC" -> "MULBITC" [] op = "GMULBITM" -> "MULBITM"
         [] op = "GBITTRIPLE" -> "BITTRIPLE" [] op = "GBITGF2NTRIPLE" -> "BITGF2NTRIPLE"
         [] op = "GBITDEC" -> "BITDEC" [] op = "GBITCOM" -> "BITCOM" [] op = "GCONVGF2N" -> "CONVGF2N"
         [] OTHER -> CHOOSE n \in DOMAIN Enum : Enum[n] = Enum[op] - 256
  ELSE op
RegisterAccess(op, field, reg) ==
  LET name == CASE field \in {"C", "Cw"} -> "C" [] field \in {"S", "Sw"} -> "S" [] OTHER -> "I"
  IN  [bank |-> IF IsGf2nInstruction(op) /\ name # "I" THEN name \o "2" ELSE name,
       written |-> field \in {"Cw", "Sw", "Iw"}, reg |-> reg]

(* The arguments that are used as numbers.                                   *)
NumbersOf(d) ==
  CASE d.op \in {"USE", "USE_INP", "RUN_TAPE"} -> <<d.r[0], d.r[1], d.n>>
    [] d.op \in {"STARTINPUT", "GSTARTINPUT"} -> <<d.r[0], d.n>>
    [] d.op = "JOIN_TAPE" -> <<d.r[0]>>
    [] d.op \in {"WRITESOCKETC", "WRITESOCKETS", "WRITESOCKETSHARE", "WRITESOCKETINT"} -> <<d.r[1]>>
    [] "n" \in ToSet(Layout(d.op).fixed) -> <<d.n>>
    [] OTHER -> <<>>

(* The elements of a vector: r moves along by one, start only in the         *)
(* instructions that treat vectors on their own.                             *)
OwnVectors == {"STARTOPEN", "STOPOPEN", "GSTARTOPEN", "GSTOPOPEN", "PREP", "GPREP", "GBITDEC", "GBITCOM"}
AccessesOfFields(d, element, ops) ==
  {RegisterAccess(d.op, ops.fixed[k], d.r[k - 1] + element) : k \in DOMAIN ops.fixed}
  \cup {RegisterAccess(d.op, ops.others, d.start[k] + (IF d.op \in OwnVectors THEN element ELSE 0)) :
          k \in IF ops.others = "" THEN {} ELSE DOMAIN d.start}
AccessesOf(d, element) == AccessesOfFields(d, element, Operands(Base(d.op)))

(* get_reg_type, get_max_reg.                                                *)
GetRegType(op) ==
  CASE op \in {"LDMINT", "STMINT", "LDMINTI", "STMINTI", "PUSHINT", "POPINT", "MOVINT",
               "READSOCKETINT", "WRITESOCKETINT", "READCLIENTPUBLICKEY", "INITSECURESOCKET",
               "RESPSECURESOCKET", "LDARG", "LDINT", "CONVMODP", "GCONVGF2N", "RAND"} -> "INT"
    [] op \in {"PREP", "USE_PREP", "GUSE_PREP"} -> "NONE"
    [] IsGf2nInstruction(op) -> "GF2N"
    [] Enum[op] \div 16 = 9 -> "INT"
    [] OTHER -> "MODP"
GetMaxRegOfFirst(d, type) ==      \* only the first element of a vector
  IF GetRegType(d.op) # type THEN 0
  ELSE 1 + (IF d.start # <<>> THEN Max(ToSet(d.start)) ELSE Max({d.r[0], d.r[1], d.r[2]}))
GetMaxReg(d, type) ==
  IF GetRegType(d.op) # type THEN 0
  ELSE d.size + (IF d.start # <<>> THEN Max(ToSet(d.start)) ELSE Max({d.r[0], d.r[1], d.r[2]}))
=============================================================================
