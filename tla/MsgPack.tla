-------------------------------- MODULE MsgPack --------------------------------
(***************************************************************************)
(* msgpack23 (src/src/libModules/msgpack23.cpp): Packer turns a value into   *)
(* bytes, Unpacker turns bytes into a value.  Which overload is called       *)
(* follows from the C++ type, here a record with a kind and its parameters:  *)
(*                                                                         *)
(*   nil, bool, string, bytes, time        (bytes: std::vector<std::byte>)   *)
(*   int, uint, float   of width bytes                                      *)
(*   enum               as an integer type                                  *)
(*   list               of elem; init is what a new one holds (a member may  *)
(*                      have an initialiser)                                *)
(*   array              of size elem                                        *)
(*   map                from key to val                                     *)
(*   struct             of fields one after another: tuple, pair, object    *)
(*   variant            of alternatives                                     *)
(*                                                                         *)
(* Numbers, floats and strings are their bytes, numbers big-endian and in    *)
(* two's complement, so that all widths are the real ones.  A bool is <<0>>  *)
(* or <<1>>, a map a function, a variant <<index, value>>, a time point      *)
(* <<whole seconds, nanoseconds>>, both with the sign of its count.          *)
(***************************************************************************)
EXTENDS Integers, Sequences, SequencesExt, Functions

(* FormatConstants, those of one family by the width of what follows. *)
FixMap == 128
FixArray == 144
FixStr == 160
Nil == 192
FalseBool == 194
TrueBool == 195
Bin == 1 :> 196 @@ 2 :> 197 @@ 4 :> 198
Ext == 1 :> 199 @@ 2 :> 200 @@ 4 :> 201
Float == 4 :> 202 @@ 8 :> 203
UInt == 1 :> 204 @@ 2 :> 205 @@ 4 :> 206 @@ 8 :> 207
SInt == 1 :> 208 @@ 2 :> 209 @@ 4 :> 210 @@ 8 :> 211
FixExt == 1 :> 212 @@ 2 :> 213 @@ 4 :> 214 @@ 8 :> 215 @@ 16 :> 216
Str == 1 :> 217 @@ 2 :> 218 @@ 4 :> 219
Array == 2 :> 220 @@ 4 :> 221
MapOf == 2 :> 222 @@ 4 :> 223

-------------------------------------------------------------------------------
(* Bytes as numbers.  Sizes have at most four bytes, and are far below 2^31. *)
BigEndian(n, w) == [k \in 1 .. w |-> (n \div 256 ^ (w - k)) % 256]
Number(b) == FoldLeft(LAMBDA n, x : 256 * n + x, 0, b)

Filled(fill, b, w) == [k \in 1 .. w - Len(b) |-> fill] \o b
Sign(b) == IF b[1] < 128 THEN 0 ELSE 255
UpperHalf(b) == SubSeq(b, 1, Len(b) \div 2)
LowerHalf(b) == SubSeq(b, Len(b) \div 2 + 1, Len(b))
AllAre(x, b) == \A k \in DOMAIN b : b[k] = x

PlusOne(b) == [k \in DOMAIN b |->
  IF AllAre(255, SubSeq(b, k + 1, Len(b))) THEN (b[k] + 1) % 256 ELSE b[k]]
MinusOne(b) == [k \in DOMAIN b |->
  IF AllAre(0, SubSeq(b, k + 1, Len(b))) THEN (b[k] + 255) % 256 ELSE b[k]]

-------------------------------------------------------------------------------
(* Packer *)

(* A size goes into a width if it is below its largest number.  Those of four *)
(* bytes are the last; the exceptions beyond them are not modelled.          *)
UpToIt(n, w) == w = 4 \/ n <= 256 ^ w \* mutant: one too many
Fits(n, w) == w = 4 \/ n < 256 ^ w - 1

WithSize(family, n) ==
  LET w == CHOOSE w \in DOMAIN family :
             Fits(n, w) /\ \A v \in DOMAIN family : v < w => ~Fits(n, v)
  IN <<family[w]>> \o BigEndian(n, w)

Header(fix, small, family, n) == IF n < small THEN <<fix + n>> ELSE WithSize(family, n)

(* A number is packed as one of half the width if it lies strictly between    *)
(* the least and the greatest of those.                                     *)
Least(w) == [k \in 1 .. w |-> IF k = 1 THEN 128 ELSE 0]
Greatest(w) == [k \in 1 .. w |-> IF k = 1 THEN 127 ELSE 255]
DropsFill(b) == AllAre(0, UpperHalf(b)) \/ AllAre(255, UpperHalf(b)) \* mutant: loses the sign
Narrows(b) ==
  /\ AllAre(Sign(LowerHalf(b)), UpperHalf(b))
  /\ LowerHalf(b) \notin {Least(Len(b) \div 2), Greatest(Len(b) \div 2)}

RECURSIVE PackedInt(_), PackedUInt(_)
PackedInt(b) ==
  IF Len(b) = 1 THEN (IF b[1] \in 32 .. 223 THEN <<SInt[1]>> ELSE <<>>) \o b
  ELSE IF Narrows(b) THEN PackedInt(LowerHalf(b))
  ELSE <<SInt[Len(b)]>> \o b
PackedUInt(b) ==
  IF Len(b) = 1 THEN (IF b[1] < 128 THEN <<>> ELSE <<UInt[1]>>) \o b
  ELSE IF AllAre(0, UpperHalf(b)) THEN PackedUInt(LowerHalf(b))
  ELSE <<UInt[Len(b)]>> \o b

(* A time point as seconds rounded down and 30 bits of nanoseconds; a format  *)
(* of 32 bits of seconds, one of 34 and the nanoseconds, one of all.         *)
Giga == 1000000000
Stamp == 255  \* the extension type -1

FewSeconds(s) == AllAre(0, SubSeq(s, 1, 3)) /\ s[4] < 4
Data64(s, nanos) ==
  <<nanos \div 2 ^ 22, (nanos \div 2 ^ 14) % 256, (nanos \div 64) % 256,
    (nanos % 64) * 4 + s[4]>> \o SubSeq(s, 5, 8)

RoundedDown(v) == IF v[2] < 0 THEN <<MinusOne(v[1]), Giga + v[2]>> ELSE v

PackedTime(v) ==
  LET s == RoundedDown(v)[1]
      nanos == RoundedDown(v)[2]
  IN IF ~FewSeconds(s) THEN <<Ext[1], 12, Stamp>> \o BigEndian(nanos, 4) \o s
     ELSE IF nanos = 0 THEN <<FixExt[4], Stamp>> \o SubSeq(s, 5, 8)
     ELSE <<FixExt[8], Stamp>> \o Data64(s, nanos)

(* The size of what a variant holds is counted by packing it a first time.    *)
(* Its index is a byte, whatever the test against 127 means to do.           *)
PackedVariant(index, data) ==
  (IF Len(data) \in DOMAIN FixExt THEN <<FixExt[Len(data)]>>
                                  ELSE WithSize(Ext, Len(data)))
    \o <<index % 256>> \o data

PackedScalar(t, v) ==
  CASE t.kind = "nil" -> <<Nil>>
    [] t.kind = "bool" -> <<IF v = <<1>> THEN TrueBool ELSE FalseBool>>
    [] t.kind = "float" -> <<Float[t.width]>> \o v
    [] t.kind = "string" -> Header(FixStr, 32, Str, Len(v)) \o v
    [] t.kind = "bytes" -> WithSize(Bin, Len(v)) \o v

RECURSIVE Packed(_, _)
Packed(t, v) ==
  LET all(ts, vs) == FlattenSeq([k \in DOMAIN vs |-> Packed(ts[k], vs[k])])
      same(elem, vs) == all([k \in DOMAIN vs |-> elem], vs)
  IN CASE t.kind = "int" -> PackedInt(v)
       [] t.kind = "uint" -> PackedUInt(v)
       [] t.kind = "time" -> PackedTime(v)
       [] t.kind = "enum" -> Packed(t.as, v)
       [] t.kind \in {"list", "array"} ->
            Header(FixArray, 16, Array, Len(v)) \o same(t.elem, v)
       [] t.kind = "map" ->
            Header(FixMap, 16, MapOf, Cardinality(DOMAIN v))
              \o FoldSet(LAMBDA k, bytes : all(<<t.key, t.val>>, <<k, v[k]>>) \o bytes,
                         <<>>, DOMAIN v)
       [] t.kind = "struct" -> all(t.fields, v)
       [] t.kind = "variant" -> PackedVariant(v[1], Packed(t.of[v[1] + 1], v[2]))
       [] OTHER -> PackedScalar(t, v)

-------------------------------------------------------------------------------
(* Unpacker: a value and where the next one begins, or an exception. *)
Thrown == [ok |-> FALSE, val |-> <<>>, at |-> 0]
Got(v, at) == [ok |-> TRUE, val |-> v, at |-> at]

(* read_integral, and every other access by current and increment. *)
Has(d, i, n) == i + n <= Len(d) + 1
Bytes(d, i, n) == IF Has(d, i, n) THEN Got(SubSeq(d, i, i + n - 1), i + n) ELSE Thrown

Formats(family, w) == {family[v] : v \in {u \in DOMAIN family : u <= w}}
WidthOf(family, f) == CHOOSE w \in DOMAIN family : family[w] = f

(* A number of the type's width or a smaller one.  Any other byte stands for  *)
(* itself; of the signed ones only the narrow two take it as a signed byte.  *)
ReadUInt(w, d, i) ==
  IF ~Has(d, i, 1) THEN Thrown
  ELSE LET r == IF d[i] \in Formats(UInt, w)
                THEN Bytes(d, i + 1, WidthOf(UInt, d[i])) ELSE Bytes(d, i, 1)
       IN [r EXCEPT !.val = Filled(0, @, w)]

ReadInt(w, d, i) ==
  IF ~Has(d, i, 1) THEN Thrown
  ELSE IF d[i] \in Formats(SInt, w)
  THEN LET r == Bytes(d, i + 1, WidthOf(SInt, d[i]))
       IN IF r.ok THEN Got(Filled(Sign(r.val), r.val, w), r.at) ELSE Thrown
  ELSE Got(Filled(IF w <= 2 THEN Sign(<<d[i]>>) ELSE 0, <<d[i]>>, w), i + 1)

(* Any byte that is no format of the family gives a size by its last bits. *)
ReadSize(family, small, d, i) ==
  IF ~Has(d, i, 1) THEN Thrown
  ELSE IF d[i] \in Formats(family, 4)
  THEN LET r == Bytes(d, i + 1, WidthOf(family, d[i]))
       IN IF r.ok THEN Got(Number(r.val), r.at) ELSE Thrown
  ELSE IF small = 0 THEN Thrown ELSE Got(d[i] % small, i + 1)

ReadSized(family, small, d, i) ==
  LET size == ReadSize(family, small, d, i)
  IN IF size.ok THEN Bytes(d, size.at, size.val) ELSE Thrown

ReadScalar(t, d, i) ==
  CASE t.kind = "nil" -> IF Has(d, i, 1) /\ d[i] = Nil THEN Got(<<>>, i + 1) ELSE Thrown
    [] t.kind = "bool" -> IF Has(d, i, 1) /\ d[i] \in {TrueBool, FalseBool}
                          THEN Got(<<d[i] - FalseBool>>, i + 1) ELSE Thrown
    [] t.kind = "float" -> IF Has(d, i, 1) /\ d[i] = Float[t.width]
                           THEN Bytes(d, i + 1, t.width) ELSE Thrown
    [] t.kind = "string" -> ReadSized(Str, 32, d, i)
    [] t.kind = "bytes" -> ReadSized(Bin, 0, d, i)

(* tp += nanoseconds, tp += seconds *)
TimePoint(s, nanos) ==
  IF s[1] >= 128 /\ nanos > 0 THEN <<PlusOne(s), nanos - Giga>> ELSE <<s, nanos>>
NanosOf(b) == b[1] * 2 ^ 22 + b[2] * 2 ^ 14 + b[3] * 64 + b[4] \div 4

ReadTime(d, i) ==
  LET form == IF Has(d, i, 1) THEN d[i] ELSE 0
      at == IF form = Ext[1] THEN i + 2 ELSE i + 1
      n == CASE form = FixExt[4] -> 4 [] form = FixExt[8] -> 8
             [] form = Ext[1] -> 12 [] OTHER -> 0
      r == Bytes(d, at + 1, n)
      b == r.val
  IN IF n = 0 \/ ~r.ok \/ d[at] # Stamp THEN Thrown
     ELSE CASE n = 4 -> Got(TimePoint(Filled(0, b, 8), 0), r.at)
            [] n = 8 -> Got(TimePoint(Filled(0, <<b[4] % 4>> \o SubSeq(b, 5, 8), 8),
                                      NanosOf(b)), r.at)
            [] n = 12 -> Got(TimePoint(SubSeq(b, 5, 12), Number(SubSeq(b, 1, 4))), r.at)

(* The index is compared as a signed byte with that of the last alternative.  *)
SignedByte(n) == IF n % 256 < 128 THEN n % 256 ELSE (n % 256) - 256
IndexOk(index, of) == SignedByte(index) \in 0 .. SignedByte(Len(of) - 1)

RECURSIVE Read(_, _, _)
(* A size that goes beyond the end of the input: the code makes the span first *)
(* and calls increment, which throws, afterwards.  Making it is undefined by    *)
(* the standard; a build without the library's own checks computes an address   *)
(* and a length that nothing reads, so what remains is the throw.               *)
ReadVariant(t, d, i) ==
  LET fixed == Has(d, i, 1) /\ d[i] \in Formats(FixExt, 16)
      size == IF fixed THEN Got(WidthOf(FixExt, d[i]), i + 1) ELSE ReadSize(Ext, 0, d, i)
      data == Bytes(d, size.at + 1, size.val)
  IN IF ~size.ok \/ ~data.ok \/ ~IndexOk(d[size.at], t.of) THEN Thrown
     ELSE LET r == Read(t.of[d[size.at] + 1], data.val, 1)
          IN IF r.ok THEN Got(<<d[size.at], r.val>>, data.at) ELSE Thrown

(* Values of several types one after another, as a sequence. *)
ReadAll(ts, d, i) ==
  FoldLeft(LAMBDA got, t :
             LET r == IF got.ok THEN Read(t, d, got.at) ELSE Thrown
             IN IF r.ok THEN Got(Append(got.val, r.val), r.at) ELSE Thrown,
           Got(<<>>, i), ts)
ReadMany(elem, size, d) ==
  IF size.ok THEN ReadAll([k \in 1 .. size.val |-> elem], d, size.at) ELSE Thrown

InsertOrAssign(entries) == FoldLeft(LAMBDA m, e : (e[1] :> e[2]) @@ m, <<>>, entries)

(* Elements are added behind what a list holds.  An array of another size     *)
(* than was packed cannot come up, as both ends have the same type.          *)
Read(t, d, i) ==
  CASE t.kind = "int" -> ReadInt(t.width, d, i)
    [] t.kind = "uint" -> ReadUInt(t.width, d, i)
    [] t.kind = "time" -> ReadTime(d, i)
    [] t.kind = "enum" -> Read(t.as, d, i)
    [] t.kind = "list" ->
         LET r == ReadMany(t.elem, ReadSize(Array, 16, d, i), d)
         IN IF r.ok THEN Got(t.init \o r.val, r.at) ELSE Thrown
    [] t.kind = "array" -> ReadMany(t.elem, ReadSize(Array, 16, d, i), d)
    [] t.kind = "map" ->
         LET entry == [kind |-> "struct", fields |-> <<t.key, t.val>>]
             r == ReadMany(entry, ReadSize(MapOf, 16, d, i), d)
         IN IF r.ok THEN Got(InsertOrAssign(r.val), r.at) ELSE Thrown
    [] t.kind = "struct" -> ReadAll(t.fields, d, i)
    [] t.kind = "variant" -> ReadVariant(t, d, i)
    [] OTHER -> ReadScalar(t, d, i)

Unpacked(t, d) == Read(t, d, 1)

-------------------------------------------------------------------------------
(* The values that unpacking gives back as they were packed.  Others are: a   *)
(* number from -32 to -1 in an int of four or eight bytes, which comes back  *)
(* as 224 to 255; whole seconds from 2^32 on without nanoseconds, of which    *)
(* the upper two bits are dropped; a list behind whose initial elements the   *)
(* packed ones are put; a variant of more than 128 alternatives, refused.    *)
Negative(b) == AllAre(255, SubSeq(b, 1, Len(b) - 1)) /\ Last(b) >= 224
Late(v) == FewSeconds(v[1]) /\ v[1][4] > 0 /\ v[2] = 0

RECURSIVE ComesBack(_, _)
ComesBack(t, v) ==
  CASE t.kind = "int" -> t.width <= 2 \/ ~Negative(v)
    [] t.kind = "time" -> ~Late(v)
    [] t.kind = "enum" -> ComesBack(t.as, v)
    [] t.kind = "list" -> t.init = <<>> /\ \A k \in DOMAIN v : ComesBack(t.elem, v[k])
    [] t.kind = "array" -> \A k \in DOMAIN v : ComesBack(t.elem, v[k])
    [] t.kind = "map" -> \A k \in DOMAIN v : ComesBack(t.key, k) /\ ComesBack(t.val, v[k])
    [] t.kind = "struct" -> \A k \in DOMAIN v : ComesBack(t.fields[k], v[k])
    [] t.kind = "variant" -> Len(t.of) <= 128 /\ ComesBack(t.of[v[1] + 1], v[2])
    [] OTHER -> TRUE
===============================================================================
