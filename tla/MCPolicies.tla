----------------------------- MODULE MCPolicies -----------------------------
(* Attributes and conditions that policies may be made of.                 *)

Number(n) == [kind |-> "number", of |-> n]
Text(parts) == [kind |-> "text", of |-> parts]
List(items) == [kind |-> "list", of |-> items]
The(x) == [kind |-> "attribute", of |-> x]
Test(left, operator, right) ==
  [kind |-> "attribute", left |-> left, operator |-> operator, right |-> right]

Absent == [kind |-> "missing"]
MCValues == {Number(1), Number(2), Text({"a"})}

(* One condition of each kind, and of each operator; of the four orders,   *)
(* which differ by their comparison alone, one.                            *)
MCCandidates ==
  {[kind |-> "held", of |-> "role"],
   [kind |-> "time", readable |-> TRUE, from |-> 0, until |-> 1],
   [kind |-> "time", readable |-> TRUE, from |-> 1, until |-> 0],
   Test(The("x"), "equals", Number(1)), Test(The("x"), "gte", The("y")),
   Test(The("y"), "contains", Text({"a"})), Test(The("x"), "in", List({Number(1), Text({"a"})})),
   Test(The("x"), "present", Absent)}
=============================================================================
