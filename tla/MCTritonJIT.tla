----------------------------- MODULE MCTritonJIT ----------------------------
(* Four kernels and a helper two of them call.                              *)
EXTENDS TritonJIT

Fun(params, dns, noinline, callees) ==
  [params |-> params, do_not_specialize |-> dns, noinline |-> <<noinline, 0>>, calls |-> callees]
MCFuns ==
  [scale |-> Fun(<<"Tensor", "">>, {}, "False", <<"helper">>),
   tile  |-> Fun(<<"constexpr", "", "">>, {2}, "False", <<"helper", "helper">>),
   count |-> Fun(<<"int", "i32">>, {1}, "False", <<>>),
   flag  |-> Fun(<<"Tensor", "bool">>, {}, "False", <<"helper", "flag">>),
   helper |-> Fun(<<"">>, {}, "True", <<>>)]

Num(v) == [kind |-> "int", v |-> v]
Bool(v) == [kind |-> "bool", v |-> v]
Tensor(dtype, aligned) == [kind |-> "tensor", dtype |-> dtype, base |-> dtype, aligned |-> aligned]
Tensors == {Tensor("int32", TRUE), Tensor("int32", FALSE),
            reinterpret(Tensor("int32", TRUE), "int8"), [kind |-> "dtype", dtype |-> "int32"]}
Numbers == {Num(v) : v \in {0, 1, 16, Half32 - 1, Half32, Half64, 2 * Half64}}
             \cup {Bool(0), Bool(1), [kind |-> "float", v |-> 1]}
MCValues(f, i) ==
  CASE f = "scale" /\ i = 1 -> Tensors \cup {Num(1)}
    [] f = "scale"          -> {Num(1), Num(16), [kind |-> "none"]}
    [] f = "tile" /\ i = 1  -> {Num(1), Bool(1), Num(16), [kind |-> "float", v |-> 16], [kind |-> "none"]}
    [] f = "tile" /\ i = 2  -> {Num(1)}
    [] f = "tile"           -> {Num(1), Num(5)}
    [] f = "count" /\ i = 1 -> {Num(1), Num(16), [kind |-> "none"]}
    [] f = "count"          -> {Num(1), Num(5)}
    [] f = "flag"           -> {Bool(1), Tensor("float32", TRUE)}
    [] f = "helper"         -> Numbers \cup {[kind |-> "none"], [kind |-> "other"], Tensor("float32", FALSE)}
=============================================================================
