---------------------------- MODULE MontyValues ----------------------------
(***************************************************************************)
(* The conversions of MontyTool between JSON, which tools speak, and the   *)
(* objects of the interpreter (crates/tool-monty), for MontyCalls, which   *)
(* has them as parameters.                                                 *)
(*                                                                         *)
(* Numbers keep the bounds of i64 and u64 and the rounding of f64, at a    *)
(* small word size; strings are values of TLA+; a JSON object is a         *)
(* function from keys, a dict a set of pairs with different keys, since    *)
(* neither is compared by order.                                           *)
(***************************************************************************)
EXTENDS MontyCalls

CONSTANTS
  Width,    \* of an integer, 64 in the code
  Precision \* of the significand of a float, 53 in the code

ASSUME NumberAssumption ==
  Width \in Nat /\ Precision \in Nat /\ 1 < Precision /\ Precision < Width

MaxInt == 2 ^ (Width - 1) - 1
MaxUnsigned == 2 ^ Width - 1

(* n as f64, for n above MaxInt: to the nearest, halves to even.           *)
Nearest(n) ==
  LET unit == 2 ^ (Width - Precision)
      q == n \div unit
      r == n % unit
  IN  IF 2 * r < unit \/ (2 * r = unit /\ q % 2 = 0) THEN q * unit ELSE (q + 1) * unit

-----------------------------------------------------------------------------
(* From the interpreter to a tool *)

RECURSIVE MontyToJson(_)

(* monty_kwargs_to_json, dict_pairs_to_json: every key must be a string,   *)
(* and every value must convert.                                           *)
PairsToJson(pairs) ==
  LET fields == [k \in {p[1][2] : p \in pairs} |->
                   MontyToJson((CHOOSE p \in pairs : p[1][2] = k)[2])]
  IN  IF /\ \A p \in pairs : p[1][1] = "str"
         /\ \A k \in DOMAIN fields : fields[k] # Error
      THEN <<"object", fields>>
      ELSE Error

(* monty_to_json; objects of the remaining kinds encode as they like.      *)
MontyToJson(m) ==
  CASE m[1] \in {"none", "ellipsis"} -> <<"null">>
    [] m[1] \in {"bool", "int", "float"} -> m
    [] m[1] = "nonfinite" -> Error
    [] m[1] = "bigint" -> <<"str", ToString(m[2])>>
    [] m[1] \in {"str", "path", "repr"} -> <<"str", m[2]>>
    [] m[1] = "bytes" -> <<"array", [i \in DOMAIN m[2] |-> <<"int", m[2][i]>>]>>
    [] m[1] \in {"list", "tuple", "set", "frozenset"} ->
         Collected([i \in DOMAIN m[2] |-> MontyToJson(m[2][i])], "array")
    [] m[1] = "dict" -> PairsToJson(m[2])
    [] m[1] = "exception" ->
         <<"object", [type |-> <<"str", m[2]>>, message |-> m[3]]>>
    [] m[1] = "function" ->
         <<"object", [name |-> <<"str", m[2]>>, docstring |-> <<"null">>]>>
    [] m[1] = "other" -> m[2]

-----------------------------------------------------------------------------
(* From a tool to the interpreter *)

(* Slip: the bits of a large number are taken for a signed one. *)
NumberToMontyWrapping(n) == <<"int", IF n <= MaxInt THEN n ELSE n - 2 ^ Width>>

(* as_i64, and otherwise as_f64, which always answers. *)
NumberToMonty(n) == IF n <= MaxInt THEN <<"int", n>> ELSE <<"float", Nearest(n)>>

RECURSIVE JsonToMonty(_)
JsonToMonty(j) ==
  CASE j[1] = "null" -> <<"none">>
    [] j[1] \in {"bool", "float", "str"} -> j
    [] j[1] = "int" -> NumberToMonty(j[2])
    [] j[1] = "array" -> <<"list", [i \in DOMAIN j[2] |-> JsonToMonty(j[2][i])]>>
    [] j[1] = "object" -> <<"dict", {<< <<"str", k>>, JsonToMonty(j[2][k]) >> : k \in DOMAIN j[2]}>>

-----------------------------------------------------------------------------
(* Properties *)

(* What a value is in JSON after it went through the interpreter: numbers  *)
(* above MaxInt are floats from then on.                                   *)
RECURSIVE Canonical(_)
Canonical(j) ==
  CASE j[1] = "int" /\ j[2] > MaxInt -> <<"float", Nearest(j[2])>>
    [] j[1] = "array" -> <<"array", [i \in DOMAIN j[2] |-> Canonical(j[2][i])]>>
    [] j[1] = "object" -> <<"object", [k \in DOMAIN j[2] |-> Canonical(j[2][k])]>>
    [] OTHER -> j

(* A result the code passes on arrives as the tool gave it, except that a  *)
(* number above i64::MAX is a float, and passing it on again changes       *)
(* nothing more.                                                           *)
ResultsPassOn ==
  \A v \in held : v.from # Error =>
    /\ MontyToJson(v.obj) = Canonical(v.from)
    /\ JsonToMonty(Canonical(v.from)) = v.obj
=============================================================================
