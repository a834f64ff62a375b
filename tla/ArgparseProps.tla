---------------------------- MODULE ArgparseProps ----------------------------
(***************************************************************************)
(* What the parser gives back, against a reading of the argument list that *)
(* knows no pointers and no rest of an argument.                           *)
(***************************************************************************)
EXTENDS Argparse, FiniteSetsExt

\* Every variable has its type.
TypeOK ==
  /\ flags \subseteq {"stop", "ignore"}
  /\ input \in Inputs
  /\ Len(argv) <= Len(input) + 1
  /\ pos \in 2 .. Len(input) + 2
  /\ cpidx \in 0 .. Len(input)
  /\ optvalue # NULL => optvalue.dashes = 0
  /\ DOMAIN values = Options
  /\ \A o \in Options : ~TakesValue(o) => values[o] \in Nat
  /\ status \in {"next", "short", "long", "unknown", "done", "error", "help"}

-----------------------------------------------------------------------------
(* The reading.                                                             *)

ByLetter(c) == {o \in Options : o.short_name = c}
ByName(n) == {o \in Options : o.long_name = n}

IsCluster(a) == a.dashes = 1 /\ a.text # <<>>
IsLong(a) == a.dashes = 2 /\ ~IsEnd(a)

\* Of a cluster: the letters up to the first that takes a value or that no
\* option has.
LastLetter(a) ==
  LET stops == {n \in DOMAIN a.text :
                  \A o \in ByLetter(a.text[n]) : TakesValue(o)}
  IN  IF stops = {} THEN Len(a.text) ELSE Min(stops)

\* The option that argument a gives a value to, if any.
Given(a) ==
  IF IsCluster(a) THEN {o \in ByLetter(a.text[LastLetter(a)]) : TakesValue(o)}
  ELSE IF IsLong(a) /\ Len(a.text) = 1 THEN {o \in ByName(a.text[1]) : TakesValue(o)}
  ELSE {}

\* The value is within the argument.
HasValue(a) == IF IsCluster(a) THEN LastLetter(a) < Len(a.text) ELSE a.value # NULL

ValueIn(k) ==
  LET a == input[k]
  IN  IF ~HasValue(a) THEN IF k < Len(input) THEN input[k + 1] ELSE NULL
      ELSE IF IsCluster(a) THEN Text(SubSeq(a.text, LastLetter(a) + 1, Len(a.text)))
      ELSE Text(a.value)

\* Where the reading goes on after k.
After(k) == IF Given(input[k]) # {} /\ ~HasValue(input[k]) THEN k + 2 ELSE k + 1

Stops(a) == IsEnd(a) \/ (IsOperand(a) /\ "stop" \in flags)

\* The arguments that are read as such, from k on, and the operands.
ReadFrom[k \in 1 .. Len(input) + 2] ==
  IF k > Len(input) THEN {} ELSE IF Stops(input[k]) THEN {}
  ELSE {k} \cup ReadFrom[After(k)]

OperandsFrom[k \in 1 .. Len(input) + 2] ==
  IF k > Len(input) THEN <<>>
  ELSE IF IsEnd(input[k]) THEN SubSeq(input, k + 1, Len(input))
  ELSE IF Stops(input[k]) THEN SubSeq(input, k, Len(input))
  ELSE IF IsOperand(input[k]) THEN <<input[k]>> \o OperandsFrom[After(k)]
  ELSE OperandsFrom[After(k)]

\* What leaves a rest behind: a value for a flag, or a cluster with a letter
\* that no option has and that the parser's flags allow.
LeavesRest(a) ==
  \/ IsLong(a) /\ a.value # NULL /\ Given(a) = {}
  \/ IsCluster(a) /\ \E n \in 1 .. LastLetter(a) : ByLetter(a.text[n]) = {}

Clean == \A k \in ReadFrom[1] : ~LeavesRest(input[k])

-----------------------------------------------------------------------------
\* Between two arguments the parser holds a rest of an earlier one only if
\* that one gave a flag a value or had an unknown letter: the options that
\* take values use theirs up (argparse.c:75-77, 87-89, 153, 192).
RestsUsedUp ==
  status = "next" /\ optvalue # NULL =>
    \E k \in ReadFrom[1] : k < pos - 1 /\ LeavesRest(input[k])

\* Unless an argument left a rest, the parser returns the operands in their
\* order, those after -- included, each once, although it moves them within
\* the array it reads from (argparse.c:231-237, 259-263, 281-286).
OperandsKept ==
  status = "done" /\ Clean => argv = OperandsFrom[1]

\* Unless an argument left a rest, each option that takes a value has the
\* last one it was given, and no option takes an argument that is meant for
\* another, or one after -- (argparse.c:74-116, 149-197).
ValuesRight ==
  status = "done" /\ Clean =>
    \A o \in Options :
      TakesValue(o) =>
        LET givers == {k \in ReadFrom[1] : o \in Given(input[k])}
        IN  values[o] = IF givers = {} THEN NULL ELSE ValueIn(Max(givers))

-----------------------------------------------------------------------------
(* The parts that make these inductive.                                     *)

\* What is still to be read is where the program put it, and the operands
\* moved so far end before it.
ArrayBehind ==
  /\ argv \in Seq(Argument)
  /\ optvalue # NULL => optvalue.text \in Seq(Symbols) /\ optvalue = Text(optvalue.text)
  /\ status # "done" =>
       /\ Len(argv) = Len(input) + 1 /\ cpidx <= pos - 2
       /\ \A p \in pos .. Len(argv) : argv[p] = input[p - 1]
  /\ status \in {"short", "long", "unknown"} => pos <= Len(input) + 1

\* An argument before m left a rest.
Tainted(m) == \E k \in ReadFrom[1] : k < m /\ LeavesRest(input[k])

\* The reading comes to m; the operands and the values up to there are those
\* that the parser has.
ComesTo(m) == {k \in ReadFrom[1] : k >= m} = ReadFrom[m]

OperandsUpTo(m) == SubSeq(argv, 1, cpidx) \o OperandsFrom[m] = OperandsFrom[1]

Givers(o, m) == {k \in ReadFrom[1] : k < m /\ o \in Given(input[k])}

ValuesUpTo(m) ==
  \A o \in Options :
    TakesValue(o) =>
      \/ Givers(o, m) = {} /\ values[o] = NULL
      \/ \E k \in Givers(o, m) :
           values[o] = ValueIn(k) /\ \A l \in Givers(o, m) : l <= k

ReadUpTo(m) == ComesTo(m) /\ OperandsUpTo(m) /\ ValuesUpTo(m)

Passed(m) == optvalue = NULL /\ ReadUpTo(m)

\* The parser is at a letter of the cluster that the reading goes to.
InCluster ==
  LET a == input[pos - 1]
  IN  /\ IsCluster(a) /\ ReadUpTo(pos - 1)
      /\ \E n \in 1 .. LastLetter(a) : optvalue = Text(SubSeq(a.text, n, Len(a.text)))

\* Unless an argument left a rest, the parser is where the reading is.
FollowsReading ==
  /\ status = "next" => Tainted(pos - 1) \/ Passed(pos - 1)
  /\ status = "short" => Tainted(pos - 1) \/ InCluster \/ Passed(pos)
  /\ status \in {"long", "unknown"} => Tainted(pos) \/ Passed(pos)

ParseInv ==
  TypeOK /\ ArrayBehind /\ FollowsReading /\ OperandsKept /\ ValuesRight
=============================================================================
