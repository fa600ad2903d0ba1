------------------------------ MODULE Compare ------------------------------
(***************************************************************************)
(* function/compare.c: infra.compare(v1, v2), the order of the keys of a   *)
(* map.                                                                    *)
(*                                                                         *)
(* A Lua value is a record: type, and at for what distinguishes it from    *)
(* the other values of its type: the number, the sequence of bytes, the    *)
(* address.  Numbers are the integers from 0 on, and NaN.                  *)
(***************************************************************************)
EXTENDS Binary, Sequences

CONSTANTS Mantissa,    \* bits of the mantissa of lua_Number
          CharSigned   \* whether char is signed, as on x86

ASSUME MantissaAssumption == Mantissa \in Nat \ {0}
ASSUME CharSignedAssumption == CharSigned \in BOOLEAN

\* lua_type.
Type == [nil |-> 0, boolean |-> 1, lightuserdata |-> 2, number |-> 3, string |-> 4,
         table |-> 5, function |-> 6, userdata |-> 7, thread |-> 8]

NaN == -1
IsNaN(v1) == v1.type = "number" /\ v1.at = NaN

\* "Cannot do compare." is raised.
RAISED == 2

-----------------------------------------------------------------------------
ThreeWay(m, n) == IF m < n THEN -1 ELSE IF m > n THEN 1 ELSE 0

\* lua_tonumber of an integer n >= 0: the nearest number with Mantissa bits,
\* the even one of two.
Bits(n) == CHOOSE b \in 0..n : Pow2[b] > n /\ (b = 0 \/ Pow2[b - 1] <= n)
lua_tonumber(n) ==
    IF Bits(n) <= Mantissa THEN n
    ELSE LET ulp == Pow2[Bits(n) - Mantissa]
             q   == n \div ulp
             r   == n % ulp
         IN  ulp * (IF 2 * r > ulp \/ (2 * r = ulp /\ q % 2 = 1) THEN q + 1 ELSE q)

_internal_compare_as_number(v1, v2) ==
    IF IsNaN(v1) \/ IsNaN(v2) THEN 0
    ELSE ThreeWay(lua_tonumber(v1.at), lua_tonumber(v2.at))

_internal_compare_as_boolean(v1, v2) == ThreeWay(v1.at, v2.at)

\* A byte as a char.
Char(b) == IF CharSigned /\ b > 127 THEN b - 256 ELSE b

Shorter(m, n) == IF m < n THEN m ELSE n

\* The first position that differs decides, else the length.
_internal_compare_as_string(v1, v2) ==
    LET differ == {i \in 1..Shorter(Len(v1.at), Len(v2.at)) : v1.at[i] # v2.at[i]}
        first  == CHOOSE i \in differ : \A j \in differ : i <= j
    IN  IF differ = {} THEN ThreeWay(Len(v1.at), Len(v2.at))
        ELSE ThreeWay(Char(v1.at[first]), Char(v2.at[first]))

_internal_compare_as_pointer(v1, v2) == ThreeWay(v1.at, v2.at)

Same(v1, v2) == v1.type = v2.type /\ v1.at = v2.at
lua_rawequal(v1, v2) == Same(v1, v2) /\ ~IsNaN(v1)

\* Two values of one type; a light userdata has no order.
_internal_compare_same_type(v1, v2) ==
    CASE v1.type = "nil"           -> 0
      [] v1.type = "number"        -> _internal_compare_as_number(v1, v2)
      [] v1.type = "boolean"       -> _internal_compare_as_boolean(v1, v2)
      [] v1.type = "string"        -> _internal_compare_as_string(v1, v2)
      [] v1.type = "lightuserdata" -> RAISED
      [] OTHER                     -> _internal_compare_as_pointer(v1, v2)

_internal_compare_without_meta(v1, v2) ==
    IF lua_rawequal(v1, v2) THEN 0
    ELSE IF v1.type # v2.type THEN ThreeWay(Type[v1.type], Type[v2.type])
    ELSE _internal_compare_same_type(v1, v2)

-----------------------------------------------------------------------------
\* _internal_compare_with_meta, the way out for values without an order.
\* m[f] is what the metamethod call f answers, "none" when there is no such
\* metamethod: eq12 is __eq(v1, v2), lt21 is __lt(v2, v1).

MetaCall == {"eq12", "eq21", "lt12", "lt21", "le12", "le21"}

\* The rules in the order of the code: the first that applies decides.
\* (Slip: v1 <= v2 is taken for v1 < v2.)
RulesHasty(m) ==
    << <<m["eq12"] = "yes" \/ m["eq21"] = "yes", 0>>,
       <<m["lt12"] = "yes" \/ m["le12"] = "yes", -1>>,
       <<m["lt21"] = "yes" \/ m["le21"] = "yes", 1>>,
       <<TRUE, RAISED>> >>
Rules(m) ==
    LET unequal == m["eq12"] = "no" \/ m["eq21"] = "no"
        ge      == m["lt12"] = "no"                         \* ret_1_ge_2
        le      == m["le12"] = "yes" \/ m["lt21"] = "no"    \* ret_1_le_2
    IN  << <<m["eq12"] = "yes" \/ m["eq21"] = "yes", 0>>,
           <<m["lt12"] = "yes", -1>>,
           <<ge /\ unequal, 1>>,
           <<m["le12"] = "no", 1>>,
           <<m["le12"] = "yes" /\ unequal, -1>>,
           <<m["le12"] = "yes" /\ ge, 0>>,
           <<m["lt21"] = "yes", 1>>,
           <<m["lt21"] = "no" /\ unequal, -1>>,
           <<m["le21"] = "no", -1>>,
           <<m["le21"] = "yes" /\ unequal, 1>>,
           <<m["le21"] = "yes" /\ le, 0>>,
           <<TRUE, RAISED>> >>

_internal_compare_with_meta(m) ==
    LET applies == {i \in DOMAIN Rules(m) : Rules(m)[i][1]}
    IN  Rules(m)[CHOOSE i \in applies : \A j \in applies : i <= j][2]

\* m is what the metamethods say of v1 and v2.
_internal_compare(v1, v2, m) ==
    IF _internal_compare_without_meta(v1, v2) # RAISED
    THEN _internal_compare_without_meta(v1, v2)
    ELSE _internal_compare_with_meta(m)

=============================================================================
