------------------------------ MODULE Argparse ------------------------------
(***************************************************************************)
(* argparse.c: the parser of the command line.  It reads argv from left to *)
(* right, stores the values of the options, and moves the arguments that   *)
(* are no options to the front of the same array.                          *)
(*                                                                         *)
(* A text is a sequence of symbols; an argument is a text after zero, one  *)
(* or two dashes, and may have a value after an equals sign (--num=5).     *)
(***************************************************************************)
EXTENDS Integers, Sequences

CONSTANTS
  Options,   \* the options: records of short_name, long_name, type, noneg, help
  Digits,    \* the symbols that are numbers
  Symbols,   \* what texts are made of
  Inputs,    \* the argument lists, argv[0] not counted
  NULL

Argument ==
  [dashes : 0 .. 2, text : Seq(Symbols), value : Seq(Symbols) \cup {NULL}]

\* No name is given to two options: argparse takes the first in the array that
\* has it, and no program's array has one twice.
ASSUME ArgparseAssumption ==
  /\ \A args \in Inputs : args \in Seq(Argument)
  /\ "program" \in Symbols /\ NULL \notin Symbols /\ NULL \notin Argument
  /\ \A o \in Options : o.type \in {"BOOLEAN", "BIT", "INTEGER", "STRING"}
  /\ \A o, p \in Options :
       \/ o.short_name = p.short_name /\ o.short_name # NULL
       \/ o.long_name = p.long_name /\ o.long_name # NULL
       => o = p

VARIABLES
  flags,     \* the parser's flags: a subset of {"stop", "ignore"}
  input,     \* the arguments the program was started with
  argv,      \* the array, argv[0] first
  pos,       \* the element that the pointer self->argv is at
  cpidx,     \* the arguments moved to the front
  optvalue,  \* the rest of the argument being parsed, or NULL
  values,    \* what the options' variables hold; NULL is the caller's default
  status     \* "next" and "short" while parsing; "unknown"; how it ended

vars == <<flags, input, argv, pos, cpidx, optvalue, values, status>>

Text(t) == [dashes |-> 0, text |-> t, value |-> NULL]

TakesValue(o) == o.type \in {"INTEGER", "STRING"}

Init ==
  /\ flags \in SUBSET {"stop", "ignore"}
  /\ input \in Inputs
  /\ argv = <<Text(<<"program">>)>> \o input
  /\ pos = 2
  /\ cpidx = 0
  /\ optvalue = NULL
  /\ values = [o \in Options |-> IF TakesValue(o) THEN NULL ELSE 0]
  /\ status = "next"

arg == argv[pos]
argc == Len(argv) + 1 - pos    \* the arguments not yet parsed

\* What strtol accepts to the end: a number, also after a minus sign, and the
\* empty text.
IsInteger(v) ==
  /\ v.value = NULL
  /\ \/ v.text = <<>> /\ v.dashes = 0
     \/ Len(v.text) = 1 /\ v.text[1] \in Digits /\ v.dashes < 2

-----------------------------------------------------------------------------
(* argparse_getvalue.                                                       *)

\* Mutant: nothing stops the count at zero.
Counted(o, unset) ==
  CASE o.type = "BIT" -> IF unset THEN 0 ELSE 1
    [] o.type = "BOOLEAN" -> IF unset THEN values[o] - 1 ELSE values[o] + 1

\* BOOLEAN counts up and down but not below zero, BIT sets and clears.
Flagged(o, unset) ==
  IF o.type = "BOOLEAN" /\ unset /\ values[o] = 0 THEN 0 ELSE Counted(o, unset)

\* The option's callback ends the program.
GetFlag(o, unset, rest, after) ==
  /\ ~TakesValue(o)
  /\ optvalue' = rest
  /\ IF o.help THEN status' = "help" /\ UNCHANGED values
     ELSE status' = after /\ values' = [values EXCEPT ![o] = Flagged(o, unset)]
  /\ UNCHANGED <<argv, pos>>

\* Mutant: the rest of the argument is still there after it has been used.
KeepRest(rest) == rest

UsedUp(rest) == NULL

\* The value is the rest of the argument, or else the next argument.
GetValue(o, rest, after) ==
  /\ TakesValue(o)
  /\ rest # NULL \/ argc > 1
  /\ LET v == IF rest # NULL THEN rest ELSE argv[pos + 1]
     IN  /\ values' = [values EXCEPT ![o] = v]
         /\ status' = IF o.type = "INTEGER" /\ ~IsInteger(v) THEN "error" ELSE after
  /\ pos' = IF rest # NULL THEN pos ELSE pos + 1
  /\ optvalue' = UsedUp(rest)
  /\ UNCHANGED argv

GetNothing(o, rest) ==
  /\ TakesValue(o)
  /\ rest = NULL /\ argc <= 1
  /\ status' = "error"
  /\ UNCHANGED <<argv, pos, optvalue, values>>

Get(o, unset, rest, after) ==
  /\ \/ GetFlag(o, unset, rest, after)
     \/ GetValue(o, rest, after)
     \/ GetNothing(o, rest)
  /\ UNCHANGED <<flags, input, cpidx>>

-----------------------------------------------------------------------------
(* argparse_parse.                                                          *)

IsOperand(a) == a.dashes = 0 \/ (a.dashes = 1 /\ a.text = <<>>)
IsEnd(a) == a.dashes = 2 /\ a.text = <<>> /\ a.value = NULL

\* Mutant: argv[0] is kept.
AfterProgramName == cpidx + 2

\* The place an operand moves to.
Place == cpidx + 1

Operand ==
  /\ status = "next" /\ argc > 0
  /\ IsOperand(arg) /\ "stop" \notin flags
  /\ argv' = [argv EXCEPT ![Place] = arg]
  /\ cpidx' = cpidx + 1
  /\ pos' = pos + 1
  /\ UNCHANGED <<flags, input, optvalue, values, status>>

\* A cluster of short options: its first letter comes next.
ShortCluster ==
  /\ status = "next" /\ argc > 0
  /\ arg.dashes = 1 /\ arg.text # <<>>
  /\ optvalue' = Text(arg.text)
  /\ status' = "short"
  /\ UNCHANGED <<flags, input, argv, pos, cpidx, values>>

\* Mutant: the last letter is never looked at.
ShortRest(t) == IF Len(t) > 2 THEN Text(Tail(t)) ELSE NULL

Rest(t) == IF Len(t) > 1 THEN Text(Tail(t)) ELSE NULL

ShortOption(o) ==
  /\ status = "short"
  /\ optvalue # NULL
  /\ o.short_name = optvalue.text[1]
  /\ Get(o, FALSE, Rest(optvalue.text), "short")

ShortUnknown ==
  /\ status = "short"
  /\ optvalue # NULL
  /\ \A o \in Options : o.short_name # optvalue.text[1]
  /\ status' = "unknown"
  /\ UNCHANGED <<flags, input, argv, pos, cpidx, optvalue, values>>

\* On to the next argument.
Advance(label) ==
  /\ status = label
  /\ pos' = pos + 1
  /\ status' = "next"
  /\ UNCHANGED <<flags, input, argv, cpidx, optvalue, values>>

ShortEnd == optvalue = NULL /\ Advance("short")

\* A long option, or, for a flag that allows it, its name after no-.
IsNamed(o, a) == a.text = <<o.long_name>>
IsNegated(o, a) ==
  ~o.noneg /\ o.type \in {"BOOLEAN", "BIT"} /\ a.text = <<"no-", o.long_name>>

\* Without a value, optvalue stays as it is.
LongRest == IF arg.value # NULL THEN Text(arg.value) ELSE optvalue

LongOption(o) ==
  /\ status = "next" /\ argc > 0
  /\ arg.dashes = 2 /\ ~IsEnd(arg)
  /\ IsNamed(o, arg) \/ IsNegated(o, arg)
  /\ Get(o, IsNegated(o, arg), LongRest, "long")

LongUnknown ==
  /\ status = "next" /\ argc > 0
  /\ arg.dashes = 2 /\ ~IsEnd(arg)
  /\ \A o \in Options : ~IsNamed(o, arg) /\ ~IsNegated(o, arg)
  /\ status' = "unknown"
  /\ UNCHANGED <<flags, input, argv, pos, cpidx, optvalue, values>>

LongEnd == Advance("long")

\* Report the argument, and stop unless the flags say to go on.
Unknown ==
  \/ "ignore" \in flags /\ Advance("unknown")
  \/ /\ "ignore" \notin flags
     /\ status = "unknown"
     /\ status' = "error"
     /\ UNCHANGED <<flags, input, argv, pos, cpidx, optvalue, values>>

\* The end: what is left follows the arguments at the front.
Finish ==
  /\ status = "next"
  /\ \/ argc = 0
     \/ argc > 0 /\ IsEnd(arg)
     \/ argc > 0 /\ IsOperand(arg) /\ "stop" \in flags
  /\ LET left == IF argc > 0 /\ IsEnd(arg) THEN pos + 1 ELSE pos
     IN  /\ argv' = SubSeq(argv, 1, cpidx) \o SubSeq(argv, left, Len(argv))
         /\ pos' = left
  /\ status' = "done"
  /\ UNCHANGED <<flags, input, cpidx, optvalue, values>>

Next ==
  \/ Operand \/ ShortCluster \/ ShortUnknown \/ ShortEnd
  \/ LongUnknown \/ LongEnd \/ Unknown \/ Finish
  \/ \E o \in Options : ShortOption(o) \/ LongOption(o)
  \/ (status \in {"done", "error", "help"} /\ UNCHANGED vars)

Spec == Init /\ [][Next]_vars
=============================================================================
