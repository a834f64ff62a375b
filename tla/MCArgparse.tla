----------------------------- MODULE MCArgparse -----------------------------
(* Instances of Argparse for TLC. *)
EXTENDS ArgparseProps

CONSTANT MaxArgs    \* longest argument list

Option(short, long, type, noneg, help) ==
  [short_name |-> short, long_name |-> long, type |-> type, noneg |-> noneg, help |-> help]

\* One option of every kind, help as OPT_HELP defines it.
AnyOptions ==
  {Option("h", "help", "BOOLEAN", TRUE, TRUE),
   Option("v", "verbose", "BOOLEAN", FALSE, FALSE),
   Option("b", "bit", "BIT", FALSE, FALSE),
   Option("n", "threads", "INTEGER", FALSE, FALSE),
   Option("s", NULL, "STRING", FALSE, FALSE)}

Texts ==
  {"program", "5", "file", "x", "no-", "h", "v", "b", "n", "s", "help", "verbose", "bit",
   "threads"}

Short(t) == [dashes |-> 1, text |-> t, value |-> NULL]
Long(t, v) == [dashes |-> 2, text |-> t, value |-> v]

Arguments ==
  {Text(<<"5">>), Text(<<"file">>), Short(<<>>), Short(<<"5">>), Short(<<"h">>),
   Short(<<"v">>), Short(<<"n">>), Short(<<"v", "n", "5">>), Short(<<"x", "n">>),
   Short(<<"b", "s", "file">>), Long(<<>>, NULL), Long(<<"help">>, NULL),
   Long(<<"no-", "help">>, NULL), Long(<<"verbose">>, <<"5">>), Long(<<"no-", "verbose">>, NULL),
   Long(<<"threads">>, NULL), Long(<<"threads">>, <<"5">>), Long(<<"threads">>, <<>>)}

Lists == UNION {[1 .. n -> Arguments] : n \in 0 .. MaxArgs}
=============================================================================
