--------------------------- MODULE IdempotencyKey ---------------------------
(* The key under which an action is done at most once: task, step, tool and  *)
(* a canonical form of the arguments (app/core/ids.py).  A digest is as good *)
(* as what it is taken of.                                                   *)
EXTENDS Integers, Sequences

(* Values: [type, ...].  A number is int * 10^-scale, an int has scale 0; a  *)
(* string is its characters; a dict is a function from its keys.             *)
Num(type, n, scale) == [type |-> type, n |-> n, scale |-> scale]
Str(s) == [type |-> "str", s |-> s]
Bool(b) == [type |-> "bool", b |-> b]
Null == [type |-> "none"]
Dict(d) == [type |-> "dict", d |-> d]

(* The JSON that is written: quoted text, a bare word, or an object, which   *)
(* is written in the order of its keys and is thus a function.               *)
Text(s) == [json |-> "text", text |-> s]
Word(w) == [json |-> "word", word |-> w]
Object(o) == [json |-> "object", object |-> o]

\* _normalize_number: no trailing zeros, and no exponent; the text of it.
Digits == <<"0", "1", "2", "3", "4", "5", "6", "7", "8", "9">>
NormalizeNumber(n, scale) ==
    LET natural[k \in Nat] ==
            IF k < 10 THEN <<Digits[k + 1]>> ELSE Append(natural[k \div 10], Digits[(k % 10) + 1])
        trim[s \in 0..scale] ==     \* the digits after the point that remain
            IF s = 0 \/ n % 10 ^ (scale - s + 1) # 0 THEN s ELSE trim[s - 1]
        s == trim[scale]
        v == n \div 10 ^ (scale - s)
        pad[k \in Nat] == IF k = 0 THEN <<>> ELSE Append(pad[k - 1], "0")
        whole == natural[v \div 10 ^ s]
        rest == natural[v % 10 ^ s]
    IN  IF s = 0 THEN whole ELSE whole \o <<".">> \o pad[s - Len(rest)] \o rest

Strip(s) ==
    LET chars == {i \in DOMAIN s : s[i] # " "}
    IN  IF chars = {} THEN <<>>
        ELSE SubSeq(s, CHOOSE i \in chars : \A j \in chars : i <= j,
                       CHOOSE i \in chars : \A j \in chars : j <= i)

\* _normalize, of what is no dict.
Scalar(v) ==
    CASE v.type = "bool" -> Word(IF v.b THEN "true" ELSE "false")
      [] v.type = "none" -> Word("null")
      [] v.type \in {"int", "float", "decimal"} -> Text(NormalizeNumber(v.n, v.scale))
      [] v.type = "str" -> Text(Strip(v.s))

\* canonical_json of the arguments of a tool.
canonical_json(arguments) == Object([k \in DOMAIN arguments.d |-> Scalar(arguments.d[k])])

(* The parts are joined with "|", so that the key is the sequence of the     *)
(* characters of all of them; the arguments are one more part.               *)
Joined(parts) ==
    LET join[k \in 0..Len(parts)] ==
            IF k = 0 THEN <<>> ELSE IF k = 1 THEN parts[1] ELSE join[k - 1] \o <<"|">> \o parts[k]
    IN  join[Len(parts)]

build_idempotency_key(task, step, tool, arguments, suffix) ==
    <<Joined(<<task, step, tool>>), canonical_json(arguments),
      IF suffix = <<>> THEN <<>> ELSE <<"|">> \o suffix>>
=============================================================================
