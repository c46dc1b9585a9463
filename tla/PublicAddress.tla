----------------------------- MODULE PublicAddress -----------------------------
(***************************************************************************)
(* Which addresses public-fetch.ts connects to: isPublicAddress over the   *)
(* address tables, an address as its sequence of bytes.  A text that is no *)
(* address is not public, and its reading is left out.                     *)
(***************************************************************************)
EXTENDS Naturals, Sequences

Zeros(n) == [i \in 1..n |-> 0]
Padded(bytes, n) == bytes \o Zeros(n - Len(bytes))

Block(bytes, prefix) == [base |-> bytes, prefix |-> prefix]
Block4(bytes, prefix) == Block(Padded(bytes, 4), prefix)
Block6(bytes, prefix) == Block(Padded(bytes, 16), prefix)

V4NotPublic ==
    {Block4(<<0>>, 8), Block4(<<10>>, 8), Block4(<<100, 64>>, 10), Block4(<<127>>, 8), Block4(<<169, 254>>, 16),
     Block4(<<172, 16>>, 12), Block4(<<192, 0, 0>>, 24), Block4(<<192, 0, 2>>, 24), Block4(<<192, 88, 99>>, 24),
     Block4(<<192, 168>>, 16), Block4(<<198, 18>>, 15), Block4(<<198, 51, 100>>, 24), Block4(<<203, 0, 113>>, 24),
     Block4(<<224>>, 4), Block4(<<240>>, 4)}

V6GlobalUnicast == Block6(<<32>>, 3)
V6NotPublic ==
    {Block6(<<32, 1>>, 23), Block6(<<32, 1, 13, 184>>, 32), Block6(<<32, 2>>, 16), Block6(<<63, 255>>, 20)}
V6CarriesV4 == {Block6(Zeros(10) \o <<255, 255>>, 96), Block6(<<0, 100, 255, 155>>, 96)}

Bit(bytes, i) == (bytes[i \div 8 + 1] \div 2 ^ (7 - (i % 8))) % 2

(* Mutant of Within: only the whole bytes of a prefix are compared. *)
WithinBytes(bytes, block) == \A i \in 0..(8 * (block.prefix \div 8) - 1) : Bit(bytes, i) = Bit(block.base, i)

(* The address has the block's prefix. *)
Within(bytes, block) == \A i \in 0..(block.prefix - 1) : Bit(bytes, i) = Bit(block.base, i)

IsPublic4(bytes) == \A block \in V4NotPublic : ~Within(bytes, block)

(* Mutant of IsPublic6: an address that carries another is judged itself. *)
IsPublic6Itself(bytes) == Within(bytes, V6GlobalUnicast) /\ \A block \in V6NotPublic : ~Within(bytes, block)

IsPublic6(bytes) ==
    IF \E block \in V6CarriesV4 : Within(bytes, block) THEN IsPublic4(SubSeq(bytes, 13, 16))
    ELSE Within(bytes, V6GlobalUnicast) /\ \A block \in V6NotPublic : ~Within(bytes, block)

IsPublicAddress(bytes) == IF Len(bytes) = 4 THEN IsPublic4(bytes) ELSE IsPublic6(bytes)

------------------------------------------------------------------------------
(* a comes no later than b, the first byte first. *)
NoLater(a, b) ==
    \/ a = b
    \/ \E i \in DOMAIN a : a[i] < b[i] /\ \A k \in 1..(i - 1) : a[k] = b[k]

From(first, last) == <<first, last>>

(* The addresses of the special-purpose registries, from the first to the   *)
(* last of each range.                                                      *)
Special4 ==
    {From(<<0, 0, 0, 0>>, <<0, 255, 255, 255>>), From(<<10, 0, 0, 0>>, <<10, 255, 255, 255>>),
     From(<<100, 64, 0, 0>>, <<100, 127, 255, 255>>), From(<<127, 0, 0, 0>>, <<127, 255, 255, 255>>),
     From(<<169, 254, 0, 0>>, <<169, 254, 255, 255>>), From(<<172, 16, 0, 0>>, <<172, 31, 255, 255>>),
     From(<<192, 0, 0, 0>>, <<192, 0, 0, 255>>), From(<<192, 0, 2, 0>>, <<192, 0, 2, 255>>),
     From(<<192, 88, 99, 0>>, <<192, 88, 99, 255>>), From(<<192, 168, 0, 0>>, <<192, 168, 255, 255>>),
     From(<<198, 18, 0, 0>>, <<198, 19, 255, 255>>), From(<<198, 51, 100, 0>>, <<198, 51, 100, 255>>),
     From(<<203, 0, 113, 0>>, <<203, 0, 113, 255>>), From(<<224, 0, 0, 0>>, <<255, 255, 255, 255>>)}

InRange(a, range) == NoLater(range[1], a) /\ NoLater(a, range[2])

Carries(a) == Len(a) = 16 /\ SubSeq(a, 1, 12) \in {Zeros(10) \o <<255, 255>>, <<0, 100, 255, 155>> \o Zeros(8)}

(* An IPv4 address of the registries, as such or carried in IPv6.           *)
Reserved(a) == \E range \in Special4 : InRange(IF Carries(a) THEN SubSeq(a, 13, 16) ELSE a, range)
================================================================================
