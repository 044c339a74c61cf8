---------------------------- MODULE MCBinaryMessage ----------------------------
(***************************************************************************)
(* BinaryMessage with lengths of four bytes.  Messages of the types in Cut   *)
(* go in pieces of any length, those of the others, with the values at the   *)
(* edges of all formats, in one piece.                                      *)
(***************************************************************************)
EXTENDS BinaryMessage

CONSTANT Cut  \* types whose messages are cut anywhere

Kind(k) == [kind |-> k]
Int_(w) == [kind |-> "int", width |-> w]
UInt_(w) == [kind |-> "uint", width |-> w]
Float_(w) == [kind |-> "float", width |-> w]
Enum(t) == [kind |-> "enum", as |-> t]
List(t, init) == [kind |-> "list", elem |-> t, init |-> init]
ArrayOf(n, t) == [kind |-> "array", size |-> n, elem |-> t]
Map_(k, v) == [kind |-> "map", key |-> k, val |-> v]
Struct(ts) == [kind |-> "struct", fields |-> ts]
Variant(ts) == [kind |-> "variant", of |-> ts]

(* Bytes of a length, with two in them that differ. *)
Run(n) == [k \in 1 .. n |-> IF k = n THEN 2 ELSE 1]

(* The numbers next to which a format begins or ends. *)
EdgesOf(b) == {b, PlusOne(b), MinusOne(b)}
Edges(w) ==
  LET widths == {v \in {1, 2, 4} : v <= w}
      signed == UNION {EdgesOf(Least(v)) \cup EdgesOf(Greatest(v)) : v \in widths}
      small == UNION {EdgesOf(b) : b \in {<<0>>, <<31>>, <<32>>, <<224>>, <<223>>}}
  IN {Filled(Sign(b), b, w) : b \in signed \cup small}
       \cup {Filled(0, b, w) : b \in signed \cup small}
       \cup {Least(w), Greatest(w), [k \in 1 .. w |-> 255]}

Seconds == {Filled(0, b, 8) : b \in {<<0>>, <<7>>, <<255, 255, 255, 255>>, <<1, 0, 0, 0, 9>>,
                                     <<3, 255, 255, 255, 255>>, <<4, 0, 0, 0, 0>>}}
Before == {Filled(255, b, 8) : b \in {<<255>>, <<0>>, <<251, 0, 0, 0, 0>>}}
Times == {<<s, n>> : s \in Seconds, n \in {0, 1, 64, 16777217, Giga - 1}}
           \cup {<<s, n>> : s \in Before \cup {Filled(0, <<0>>, 8)}, n \in {0, -1, 1 - Giga}}

Small == Struct(<<Kind("bytes")>>)
Text == Kind("string")
OfAllSizes == Variant(<<Kind("nil"), Text, UInt_(2), Kind("time")>>)
Long == Variant([k \in 1 .. 129 |-> Kind("nil")])
Nested == List(Variant(<<Struct(<<Text, Int_(2)>>), OfAllSizes>>), <<>>)

SmallValues == {<<<<>>>>, <<<<7>>>>}
Ones(S) == {<<v>> : v \in S}

(* A map of n entries with keys of one byte. *)
Numbered(n) == [k \in {<<i>> : i \in 0 .. n - 1} |-> <<k[1]>>]
MCTyped ==
  {<<Small, SmallValues>>}
    \cup {<<Struct(<<Int_(w)>>), Ones(Edges(w))>> : w \in {1, 2, 4, 8}}
    \cup {<<Struct(<<UInt_(w)>>), Ones(Edges(w))>> : w \in {1, 2, 4, 8}}
    \cup {<<Struct(<<Float_(w)>>), {<<Run(w)>>}>> : w \in {4, 8}}
    \cup {<<Struct(<<Kind("bool"), Kind("nil"), Kind("bool")>>),
            {<<x, <<>>, y>> : x, y \in {<<0>>, <<1>>}}>>,
          <<Struct(<<Text, Enum(Int_(4))>>),
            {<<Run(n), e>> : n \in {0, 31, 32, 254, 255, 256},
                             e \in {<<0, 0, 0, 9>>, <<255, 255, 255, 0>>}}>>,
          <<Struct(<<Kind("bytes"), UInt_(1)>>),
            {<<Run(n), <<9>>>> : n \in {0, 254, 255, 256}}>>,
          <<Struct(<<List(UInt_(1), <<>>), Text>>),
            {<<[k \in 1 .. n |-> <<k>>], <<5>>>> : n \in {0, 15, 16}}>>,
          <<Struct(<<List(UInt_(1), <<<<3>>>>)>>), {<<<<>>>>, <<<<<<4>>>>>>}>>,
          <<Struct(<<ArrayOf(2, Int_(2))>>), {<<<<Least(2), <<255, 255>>>>>>}>>,
          <<Struct(<<Map_(UInt_(1), UInt_(1)), Kind("nil")>>),
            {<<Numbered(n), <<>>>> : n \in {0, 1, 15, 16}}>>,
          <<Struct(<<Map_(Int_(4), Text)>>),
            {<<(Filled(255, <<255>>, 4) :> <<1>>) @@ (Filled(0, <<255>>, 4) :> <<2>>)>>}>>,
          <<Struct(<<Kind("time"), UInt_(1)>>), {<<v, <<8>>>> : v \in Times}>>,
          <<Struct(<<OfAllSizes>>),
            {<<<<0, <<>>>>>>, <<<<2, <<1, 1>>>>>>}
              \cup {<<<<1, Run(n)>>>> : n \in {0, 1, 3, 7, 15, 252, 253, 254}}>>,
          <<Struct(<<Long>>), {<<<<0, <<>>>>>>, <<<<128, <<>>>>>>}>>,
          <<Struct(<<Nested>>),
            {<<<<<<0, <<<<6>>, <<0, 3>>>>>>, <<1, <<1, <<4>>>>>>>>>>}>> }

MCType == {x[1] : x \in MCTyped}
MCValue == [t \in MCType |-> (CHOOSE x \in MCTyped : x[1] = t)[2]]
MCCut == {Small}

Whole(p, n) == type \notin Cut => n = MaxSize
MCStep(p) ==
  \/ \E v \in Value[type] : Pack(p, v) \/ PackFails(p, v)
  \/ \E room \in Room : Whole(p, room) /\ (WriteHead(p, room) \/ WriteBody(p, room))
  \/ \E span \in 0 .. Len(wire[p]) :
       /\ type \notin Cut => span = Len(wire[p])
       /\ ReadHead(p, span) \/ ReadBody(p, span)
  \/ TooLong(p) \/ Unpack(p) \/ UnpackFails(p)

(* A header came out wrong: the reader has ended or waits for bytes that no   *)
(* one sends.                                                               *)
MCOver(p) ==
  /\ \/ doing[p] = "failed"
     \/ doing[p] = "readBody" /\ doing[Other(p)] = "read" /\ wire[p] = <<>> 
  /\ UNCHANGED vars
MCNext == \E p \in Program : MCStep(p) \/ MCOver(p)
MCSpec == Init /\ [][MCNext]_vars
===============================================================================
