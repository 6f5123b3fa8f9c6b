------------------------------- MODULE MCCodecs -------------------------------
(* The messages of both formats with blocks of one byte, string fields of  *)
(* three and two, every message, every buffer, and wires with right and    *)
(* wrong headers and up to four arbitrary bytes behind the block.          *)
EXTENDS Codecs

BestObRpi      == [format |-> "sbe", template |-> 1, schema |-> 1, version |-> 0, block |-> 1, caps |-> <<3>>]
CreateOrderReq == [format |-> "sbe", template |-> 2, schema |-> 2, version |-> 2, block |-> 1, caps |-> <<>>]
FastOrderResp  == [format |-> "sbe", template |-> 3, schema |-> 1, version |-> 0, block |-> 1, caps |-> <<3, 2>>]
NewOrderShort  == [format |-> "eti", template |-> 2, block |-> 1, caps |-> <<>>]

MCLayouts == {BestObRpi, CreateOrderReq, FastOrderResp, NewOrderShort}

UpTo(S, n) == UNION {[1 .. m -> S] : m \in 0 .. n}

MCMessages ==
  [l \in MCLayouts |->
    [body : {<<1>>},
     strings : {s \in [DOMAIN l.caps -> UpTo({1, 2}, 3)] : \A i \in DOMAIN s : Len(s[i]) <= l.caps[i]}]]

MCCapacities == 0 .. 13

Headers(l) ==
  IF l.format = "sbe"
    THEN {<<block, template, schema, 0>> :
            block \in 0 .. 2, template \in {l.template, 9}, schema \in {l.schema, 9}}
    ELSE {<<length, template>> : length \in {0, 2, 3, 4, 5}, template \in {l.template, 9}}

MCWires ==
  [l \in MCLayouts |->
    {SubSeq(h, 1, n) : h \in Headers(l), n \in 0 .. 2}
      \cup {h \o rest : h \in Headers(l), rest \in UpTo(0 .. 3, 5)}]
=============================================================================
