-------------------------------- MODULE MCFetch --------------------------------
(***************************************************************************)
(* Fetch over the addresses PublicAddress judges: the first and the last    *)
(* address of every block and their neighbours outside it, as such and      *)
(* carried; a bound of two digits, and declared lengths at it, over it by   *)
(* value and by length, and with leading zeros.                             *)
(***************************************************************************)
EXTENDS Fetch

MCDeclared == {<<0>>, <<9>>, <<1, 0>>, <<1, 1>>, <<1, 0, 0>>, <<0, 0, 1, 0>>, <<0, 1, 1>>, <<0, 0, 0>>}
MCSizes == {0, 5, 6}

(* The last address of a block. *)
LastOf(block) ==
    [i \in DOMAIN block.base |->
        LET kept == IF block.prefix >= 8 * i THEN 8 ELSE IF block.prefix <= 8 * (i - 1) THEN 0 ELSE block.prefix % 8
        IN  block.base[i] + (IF kept = 8 THEN 0 ELSE 2 ^ (8 - kept) - 1)]

After(a) ==
    IF \A i \in DOMAIN a : a[i] = 255 THEN a
    ELSE LET k == CHOOSE i \in DOMAIN a : a[i] # 255 /\ \A j \in (i + 1)..Len(a) : a[j] = 255
         IN  [i \in DOMAIN a |-> IF i < k THEN a[i] ELSE IF i = k THEN a[i] + 1 ELSE 0]

Before(a) ==
    IF \A i \in DOMAIN a : a[i] = 0 THEN a
    ELSE LET k == CHOOSE i \in DOMAIN a : a[i] # 0 /\ \A j \in (i + 1)..Len(a) : a[j] = 0
         IN  [i \in DOMAIN a |-> IF i < k THEN a[i] ELSE IF i = k THEN a[i] - 1 ELSE 255]

Edges(block) == {block.base, Before(block.base), LastOf(block), After(LastOf(block))}

Edges4 == UNION {Edges(block) : block \in V4NotPublic}
Edges6 == UNION {Edges(block) : block \in V6NotPublic \cup {V6GlobalUnicast} \cup V6CarriesV4}
Carried == {<<0, 0, 0, 0, 0, 0, 0, 0, 0, 0, 255, 255>> \o a : a \in Edges4}
           \cup {<<0, 100, 255, 155, 0, 0, 0, 0, 0, 0, 0, 0>> \o a : a \in Edges4}

MCSamples == Edges4 \cup Edges6 \cup Carried
(* A constant given in a cfg is evaluated at every use; these, once. *)
PublicSamples == {a \in MCSamples : IsPublicAddress(a)}
PrivateSamples == MCSamples \ PublicSamples
MCPublic == PublicSamples
MCPrivate == PrivateSamples
MCNamed == {<<9, 255, 255, 255>>, <<10, 0, 0, 0>>, <<11, 0, 0, 0>>}
================================================================================
