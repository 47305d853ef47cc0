------------------------------- MODULE Codecs -------------------------------
(***************************************************************************)
(* The filters that make a value of bytes (filters/integer.c, varint.c,    *)
(* formatted_integer.c, string.c, base64.c), and the items that fill an    *)
(* array of one of them, each read after its size was found in what is     *)
(* left of the array.  A filter is a record: its kind and its attributes.  *)
(* What is 8, 7, 6 and 64 bits wide is as wide as the constants say.       *)
(***************************************************************************)
EXTENDS Integers, FiniteSetsExt, SequencesExt

CONSTANTS
    ByteBits, GroupBits, SymbolBits, Width,     \* 8, 7, 6, 64
    IntegerSizes,                               \* 1, 2, 4, 8
    Bad, Plus, Minus, Pad,                      \* characters of the look-up tables
    DecodedMax,                                 \* DECODED_BUFFER_MAX_SIZE, 100 MB
    Inputs                                      \* a filter and the bytes it is given

ASSUME CodecsAssumption ==
    /\ GroupBits = ByteBits - 1 /\ 4 * SymbolBits = 3 * ByteBits
    /\ \A n \in IntegerSizes : n * ByteBits <= Width
    /\ {Bad, Plus, Minus, Pad} \cap Nat = {}

\* A byte, or what a table makes of it.
Char == Nat \cup {Bad, Plus, Minus, Pad}

\* A boundary that is computed is not empty: it would make items without size for ever.
ASSUME InputsAssumption ==
    \A in \in Inputs :
        /\ in.bytes \in Seq(Char)
        /\ in.filter.kind = "string" =>
               /\ in.filter.boundary \in Seq(Char)
               /\ in.filter.boundary = <<>> => in.filter.const

VARIABLES
    filter,     \* the filter of the items; never changes
    bytes,      \* the bytes of the array; never change
    items,      \* the items read, with the result of each
    st          \* "reading", "end" or "error"

vars == <<filter, bytes, items, st>>

Ok(v) == [st |-> "ok", v |-> v]
Refused == [st |-> "refused", v |-> <<>>]
\* A value that was given a length and neither a type nor an address, and is returned
\* with success.
Unset == [st |-> "unset", v |-> <<>>]

\* The low bits of n as an integer in two's complement.
Signed(n, bits) ==
    LET low == n % (2 ^ bits) IN IF low >= 2 ^ (bits - 1) THEN low - 2 ^ bits ELSE low

-----------------------------------------------------------------------------
(***************************************************************************)
(* Integers: "native" is little on the machines it is built for.           *)
(***************************************************************************)
Assembled(f, buf) ==
    LET bigEndian == IF f.endian \in {"little", "native"} THEN Reverse(buf) ELSE buf
    IN  FoldLeft(LAMBDA n, b : n * 2 ^ ByteBits + b, 0, bigEndian)

\* Mutant: the sign of a narrow integer is not extended.
MutReadInteger(f, buf) ==
    IF f.endian = "bad" \/ (f.endian = "none" /\ Len(buf) > 1) \/ Len(buf) \notin IntegerSizes
    THEN Refused ELSE Ok(<<Signed(Assembled(f, buf), Width)>>)
\* binary_integer_read_generic()
ReadInteger(f, buf) ==
    IF f.endian = "bad" \/ (f.endian = "none" /\ Len(buf) > 1) \/ Len(buf) \notin IntegerSizes
    THEN Refused
    ELSE Ok(<<Signed(Assembled(f, buf), IF f.signed THEN Len(buf) * ByteBits ELSE Width)>>)

(***************************************************************************)
(* Integers of as many bytes as they need, of which the last one has its   *)
(* top bit clear.                                                          *)
(***************************************************************************)
IsLast(b) == b < 2 ^ GroupBits
VarintSize(buf) == SelectInSeq(buf, IsLast)
BitsOf(b) == {k \in 0 .. GroupBits - 1 : (b \div 2 ^ k) % 2 = 1}

\* The i-th of n bytes, in its place: little endian, x86 takes the shift modulo the
\* width of the register.
Shifted(f, buf, i) ==
    LET shift == IF f.endian = "big" THEN GroupBits * (Len(buf) - i)
                 ELSE (GroupBits * (i - 1)) % Width
    IN  {shift + k : k \in BitsOf(buf[i])} \cap 0 .. Width - 1

\* varint_read(), varint_read__little_endian() and varint_read__big_endian()
ReadVarint(f, buf) ==
    IF f.endian = "bad" \/ VarintSize(buf) = 0 THEN Refused
    ELSE LET n    == VarintSize(buf)
             used == SubSeq(buf, 1, n)
             bits == UNION {Shifted(f, used, i) : i \in 1 .. n}
         IN  Ok(<<Signed(MapThenSumSet(LAMBDA k : 2 ^ k, bits), Width)>>)

(***************************************************************************)
(* Integers written with digits: a character is the value the table gives  *)
(* it as a digit, a sign, or bad.  The value so far is -1 when reading it  *)
(* stopped; the overflow of an addition shows when it makes it less.       *)
(***************************************************************************)
Parsed(f, digits) ==
    LET soFar[i \in 0 .. Len(digits)] ==
          IF i = 0 THEN 0
          ELSE IF soFar[i - 1] = -1 \/ digits[i] \notin 0 .. f.base - 1 THEN -1
          ELSE LET n == Signed(soFar[i - 1] * f.base + digits[i], Width)
               IN  IF n < soFar[i - 1] THEN -1 ELSE n
    IN  soFar[Len(digits)]

\* formatted_integer_read()
ReadFormatted(f, buf) ==
    LET first == SelectInSeq(buf, LAMBDA c : c \notin {Plus, Minus})
        signs == SubSeq(buf, 1, first - 1)
        n     == Parsed(f, SubSeq(buf, first, Len(buf)))
        minus == Cardinality({i \in DOMAIN signs : signs[i] = Minus})
    IN  IF buf = <<>> THEN IF f.empty = {} THEN Refused ELSE Ok(<<Max(f.empty)>>)
        ELSE IF first = 0 \/ (signs # <<>> /\ ~f.signed) \/ n = -1 THEN Refused
        ELSE Ok(<<IF minus % 2 = 1 THEN -n ELSE n>>)

(***************************************************************************)
(* Strings.  A boundary that is constant, declared without a condition, is *)
(* known when the filter is built.                                         *)
(***************************************************************************)
\* string_filter_instance_build()
IsBuilt(f, length) == f.const /\ Len(f.boundary) = length
Bounded(f) == ~IsBuilt(f, 0) /\ f.there

\* memchr() and memmem(): the bytes up to the end of the first x, or all of them.
Through(x, buf) ==
    LET starts == {i \in 0 .. Len(buf) - Len(x) : SubSeq(buf, i + 1, i + Len(x)) = x}
    IN  IF starts = {} THEN Len(buf) ELSE Min(starts) + Len(x)

\* Mutant: the boundary is left to the next item.
MutStringSize(f, buf) ==
    IF Bounded(f) THEN Through(f.boundary, buf) - Len(f.boundary) ELSE Len(buf)
\* compute_item_size__string__single_char_constant_boundary() and ..._generic()
StringSize(f, buf) == IF Bounded(f) THEN Through(f.boundary, buf) ELSE Len(buf)

\* string_read_no_boundary(), ..._single_char_constant_boundary() and ..._generic()
ReadString(f, buf) ==
    IF IsBuilt(f, 0) THEN Ok(buf)
    ELSE IF ~f.there THEN Unset
    ELSE IF IsSuffix(f.boundary, buf) THEN Ok(SubSeq(buf, 1, Len(buf) - Len(f.boundary)))
    ELSE Ok(buf)

(***************************************************************************)
(* Base 64: a character is the value the table gives it, or bad; the one   *)
(* that pads is bad as well.                                               *)
(***************************************************************************)
\* The first n bytes of a quad of symbols.
Triple(quad, n) ==
    LET number == FoldLeft(LAMBDA k, s : k * 2 ^ SymbolBits + s, 0, quad)
    IN  [i \in 1 .. n |-> (number \div 2 ^ (ByteBits * (3 - i))) % (2 ^ ByteBits)]

\* The last quad has one, two or three bytes.
LastBytes(quad) ==
    IF quad[3] = Pad THEN IF quad[4] = Pad THEN 1 ELSE 0
    ELSE IF quad[4] = Pad THEN 2 ELSE 3
Symbols(quad, n) == \A i \in 1 .. n : quad[i] \in Nat

\* base64_decode(): -1 in any symbol sets bits that no valid quad has.
ReadBase64(buf) ==
    LET n       == Len(buf) \div 4
        quad(i) == SubSeq(buf, 4 * i - 3, 4 * i)
        count   == LastBytes(quad(n))
        last    == [i \in 1 .. 4 |-> IF i > count + 1 THEN 0 ELSE quad(n)[i]]
    IN  IF Len(buf) % 4 # 0 \/ Len(buf) > DecodedMax THEN Refused
        ELSE IF n = 0 THEN Ok(<<>>)
        ELSE IF \/ \E i \in 1 .. n - 1 : ~Symbols(quad(i), 4)
                \/ count = 0 \/ ~Symbols(quad(n), count + 1) THEN Refused
        ELSE Ok(FlattenSeq([i \in 1 .. n - 1 |-> Triple(quad(i), 3)]) \o Triple(last, count))

-----------------------------------------------------------------------------
(***************************************************************************)
(* An array of items.                                                      *)
(***************************************************************************)
\* compute_item_size_from_buffer(): a filter without one takes all the bytes; 0 is
\* an error for a varint.
ItemSize(f, buf) ==
    CASE f.kind = "varint" -> VarintSize(buf)
      [] f.kind = "string" -> StringSize(f, buf)
      [] OTHER             -> Len(buf)

ReadBuffer(f, buf) ==
    CASE f.kind = "integer"   -> ReadInteger(f, buf)
      [] f.kind = "varint"    -> ReadVarint(f, buf)
      [] f.kind = "formatted" -> ReadFormatted(f, buf)
      [] f.kind = "string"    -> ReadString(f, buf)
      [] f.kind = "base64"    -> ReadBase64(buf)

\* filter_instance_read_value(): the size is found again, in the item alone.
ReadValue(f, buf) == ReadBuffer(f, SubSeq(buf, 1, ItemSize(f, buf)))

\* The bytes of the items, and those that follow them.
Taken == FlattenSeq([i \in DOMAIN items |-> items[i].bytes])
Left  == SubSeq(bytes, Len(Taken) + 1, Len(bytes))

Init ==
    /\ \E in \in Inputs : filter = in.filter /\ bytes = in.bytes
    /\ items = <<>>
    /\ st = "reading"

\* The next item, of the size that is found in what is left of the array, which has no
\* item where less than a byte is left (array.c:690).  A tracker moves on by the size
\* alone, past an item the value of which is refused.  Without bytes there is no array:
\* the filter is read alone.
ReadItem ==
    LET size == ItemSize(filter, Left)
        item == SubSeq(Left, 1, size)
        read == ReadValue(filter, item)
    IN  /\ st = "reading" /\ (items = <<>> \/ Left # <<>>)
        /\ IF filter.kind = "varint" /\ size = 0
           THEN st' = "error" /\ UNCHANGED items
           ELSE items' = Append(items, [bytes |-> item, read |-> read]) /\ UNCHANGED st
        /\ UNCHANGED <<filter, bytes>>

\* tracker_goto_next_item__array_slack()
NoMoreItems ==
    /\ st = "reading" /\ items # <<>> /\ Left = <<>>
    /\ st' = "end"
    /\ UNCHANGED <<filter, bytes, items>>

Next == ReadItem \/ NoMoreItems

Spec == Init /\ [][Next]_vars

-----------------------------------------------------------------------------
(***************************************************************************)
(* Properties: the values told by another way than they are computed.      *)
(***************************************************************************)
Greatest == 2 ^ (Width - 1) - 1
Sum(Term(_), S) == FoldSet(LAMBDA i, n : n + Term(i), 0, S)

IntegerRight(f, buf, r) ==
    r.st = "ok" =>
      /\ \A i \in DOMAIN buf :
            LET place == IF f.endian \in {"big", "none"} THEN Len(buf) - i ELSE i - 1
            IN  (r.v[1] \div 2 ^ (ByteBits * place)) % (2 ^ ByteBits) = buf[i]
      /\ Len(buf) * ByteBits < Width =>
            r.v[1] \in IF f.signed
                       THEN -(2 ^ (Len(buf) * ByteBits - 1)) .. 2 ^ (Len(buf) * ByteBits - 1) - 1
                       ELSE 0 .. 2 ^ (Len(buf) * ByteBits) - 1

VarintRight(f, buf, r) ==
    LET place(i) == IF f.endian = "big" THEN Len(buf) - i ELSE i - 1
        number == Sum(LAMBDA i : (buf[i] % (2 ^ GroupBits)) * 2 ^ (GroupBits * place(i)), DOMAIN buf)
    IN  f.endian # "bad" /\ number <= Greatest => r = Ok(<<number>>)

Digits(buf) == SelectSeq(buf, LAMBDA c : c \in Nat)
Written(f, digits) == Sum(LAMBDA i : digits[i] * f.base ^ (Len(digits) - i), DOMAIN digits)
FormattedRight(f, buf, r) ==
    LET digits == Digits(buf)
        number == Written(f, digits)
    IN  /\ r.st = "ok" /\ buf # <<>> => digits # <<>> /\ Bad \notin ToSet(buf)
                                        /\ \A d \in ToSet(digits) : d < f.base
        /\ r.st = "refused" /\ digits = buf /\ buf # <<>> /\ number <= Greatest
              => \E d \in ToSet(digits) : d >= f.base
        /\ r.st = "ok" /\ buf # <<>> /\ number <= Greatest => r.v[1] \in {number, -number}
        /\ r.st = "ok" /\ r.v[1] < 0 => Minus \in ToSet(buf) \/ r.v[1] \in f.empty \/ number > Greatest

\* The value is the item but the boundary that ends it, and holds no other; it is never
\* refused.  Where a conditional boundary is absent it has no type: StringsHaveTheirType.
StringRight(f, buf, r) ==
    IsBuilt(f, 0) \/ f.there =>
        /\ r.st = "ok"
        /\ r.v = buf \/ r.v \o f.boundary = buf
        /\ Bounded(f) => \A i \in 0 .. Len(r.v) - Len(f.boundary) :
                            SubSeq(r.v, i + 1, i + Len(f.boundary)) # f.boundary

\* The bits of what is decoded are the first of the bits of the symbols, and all but
\* less than those of a byte.
BitAt(s, wide, k) == (s[(k \div wide) + 1] \div 2 ^ (wide - 1 - (k % wide))) % 2
Base64Right(buf, r) ==
    LET symbols == SelectSeq(buf, LAMBDA c : c \in Nat) IN
    /\ r.st = "ok" => /\ Len(r.v) = (Len(symbols) * SymbolBits) \div ByteBits
                      /\ \A k \in 0 .. Len(r.v) * ByteBits - 1 :
                            BitAt(r.v, ByteBits, k) = BitAt(symbols, SymbolBits, k)
    /\ r.st = "refused" <=>
          \/ Len(buf) % 4 # 0 \/ Len(buf) > DecodedMax
          \/ \E i \in DOMAIN buf : buf[i] \notin Nat
                /\ (buf[i] # Pad \/ i < Len(buf) - 1 \/ buf[Len(buf)] # Pad)

\* The value of an item is what its bytes stand for, and it is refused where they stand
\* for nothing.  Left to the two properties that follow, which are false: a number that
\* does not fit, and a string the boundary of which is absent.
ValuesAreRight ==
    \A i \in DOMAIN items :
        LET buf == items[i].bytes
            r   == items[i].read
        IN  CASE filter.kind = "integer"   -> IntegerRight(filter, buf, r)
              [] filter.kind = "varint"    -> VarintRight(filter, buf, r)
              [] filter.kind = "formatted" -> FormattedRight(filter, buf, r)
              [] filter.kind = "string"    -> StringRight(filter, buf, r)
              [] filter.kind = "base64"    -> Base64Right(buf, r)

\* "overflows a 64-bit signed integer value" (formatted_integer.c:214): a number that is
\* written with more than the greatest value is refused.  It is not where the product
\* wraps around to no less than what was read before its last digit.
OverflowIsRefused ==
    \A i \in DOMAIN items :
        filter.kind = "formatted" /\ Written(filter, Digits(items[i].bytes)) > Greatest
            => items[i].read.st = "refused"

\* What is read with success has one of the types that the readers of values know: the
\* default of expr_value_to_hashable() is assert(0) (expr.c:3061).  A string the
\* conditional boundary of which is absent has none (string.c:189).
StringsHaveTheirType == \A i \in DOMAIN items : items[i].read.st # "unset"

\* The items are all the bytes, in their order; none is empty, or the array would
\* have items without end; and an item that is read alone has the size it had in the
\* array, though the bytes that followed it told where it ends no more.
ItemsAreSplit ==
    /\ st = "end" => Taken = bytes
    /\ \A i \in DOMAIN items :
          /\ bytes # <<>> => items[i].bytes # <<>>
          /\ ItemSize(filter, items[i].bytes) = Len(items[i].bytes)
          /\ filter.kind = "string" /\ Bounded(filter) /\ i < Len(items)
                => IsSuffix(filter.boundary, items[i].bytes)
=============================================================================
