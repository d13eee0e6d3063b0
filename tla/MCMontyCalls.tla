---------------------------- MODULE MCMontyCalls ----------------------------
(* A small instance of MontyCalls with the conversions of MontyValues:     *)
(* integers of 4 bits, floats of 3.                                        *)
EXTENDS MontyValues

Str(s) == <<"str", s>>
Pair(k, x) == << Str(k), x >>
Dict(pairs) == <<"dict", pairs>>

(* A tool of the host's own, the two file tools, and a path that is none.  *)
MCExposed == [echo |-> Str("echo"), read |-> Str("read_file"),
              write |-> Str("write_file"), broken |-> <<"null">>]
MCProgram == [echo |-> "custom", read_file |-> "read_file",
              write_file |-> "write_file", monty_os |-> "monty_os"]
MCOsTool == Str("monty_os")
MCName == DOMAIN MCExposed \cup {"undefined"}

MCFile == {"f"}
MCText == {"", "x", "xy"}
MCChars == [t \in MCText |-> CASE t = "" -> 0 [] t = "x" -> 1 [] t = "xy" -> 2]
MCCut == [t \in MCText |-> CASE t = "" -> {} [] t = "x" -> {""} [] t = "xy" -> {"", "x"}]

(* What else the interpreter has and JSON has not.                         *)
MCMore == << <<"ellipsis">>, <<"bigint", 99>>, <<"bytes", <<0, 1>>>>, <<"tuple", <<>>>>,
             <<"exception", "ValueError", <<"null">>>>, <<"function", "echo">>, <<"repr", "r">> >>

(* What file calls need, a dict with that and more, one that looks like a  *)
(* call, and a number that does not convert.                               *)
MCLiteral ==
  { <<"path", "f">>, Str("xy"), <<"nonfinite">>,
    Dict({Pair("path", Str("f")), Pair("content", Str("xy")), Pair("more", <<"list", MCMore>>)}),
    Dict({Pair("args", <<"list", <<Str("xy")>>>>), Pair("kwargs", Dict({}))}) }

(* Every number of i64 and u64, and the other kinds of JSON, nested.       *)
MCAnswer ==
  { <<"array", [i \in 1..24 |-> <<"int", i - 9>>]>>,
    <<"object", [n |-> <<"array", << <<"float", 8>>, <<"null">>, <<"bool", TRUE>> >> >>]>> }

MCOsFunction == {"Path.read_text", "Path.write_text", "Path.exists"}
=============================================================================
