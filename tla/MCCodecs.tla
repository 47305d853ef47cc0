------------------------------ MODULE MCCodecs ------------------------------
(* Bytes of four bits, groups and symbols of three, integers of eight, and 8 symbols
   of base 64 at most. *)
EXTENDS Codecs

MCBad == -1
MCPlus == -2
MCMinus == -3
MCPad == -4

Fed(filters, buffers) == [filter : filters, bytes : buffers]

Endians == {"none", "big", "little", "native", "bad"}
Integers1 ==
    Fed([kind : {"integer"}, signed : BOOLEAN, endian : Endians], SeqOf({0, 1, 7, 8, 15}, 3))
Varints ==
    Fed([kind : {"varint"}, endian : Endians], SeqOf({0, 1, 7, 8, 9, 15}, 4))
Formatted ==
    Fed([kind : {"formatted"}, signed : BOOLEAN, base : {2, 10, 16}, empty : {{}, {5}}],
        SeqOf({-3, -2, -1, 0, 1, 2, 5, 9, 12}, 3) \cup SeqOf({-3, 0, 1, 2, 3, 7}, 4))
Strings ==
    Fed([kind : {"string"}, const : {TRUE}, there : {TRUE},
         boundary : {<<>>, <<1>>, <<1, 2>>, <<1, 1>>}], SeqOf({0, 1, 2}, 5))
    \cup
    Fed([kind : {"string"}, const : {FALSE}, there : BOOLEAN,
         boundary : {<<1>>, <<1, 2>>, <<1, 1>>, <<1, 2, 1>>}], SeqOf({0, 1, 2}, 5))
Base64 ==
    LET quads(S) == [1 .. 4 -> S] IN
    Fed([kind : {"base64"}],
        SeqOf({0, 5, 7, -1, -4}, 5)
        \cup {a \o b : a \in quads({3, 5, -4}), b \in quads({2, 7, -1, -4})}
        \cup [1 .. 12 -> {5, 7}])

MCInputs == Integers1 \cup Varints \cup Formatted \cup Strings \cup Base64
=============================================================================
