------------------------------ MODULE FetchProofs ------------------------------
(***************************************************************************)
(* Proofs about Fetch, for every set of addresses, every bound, every      *)
(* declared length and every size of a body's chunks.                      *)
(***************************************************************************)
EXTENDS Fetch, Integers, SequenceTheorems, WellFoundedInduction, TLAPS

(* What is left to try was checked.                                         *)
GivenPublic == \A i \in DOMAIN given : given[i] \in Public

(* What each await of the fetch knows of the body.                          *)
Stages ==
    /\ pc \in {"idle", "lookup", "connect", "waiting"} => held = 0 /\ sent = 0
    /\ pc = "reading" => /\ answer.status = 200 /\ answer.identity
                         /\ held = sent /\ held <= MAX_ATR_BYTES

(* What the lookup found of a name, when no address of it is private.       *)
LEMMA FoundPublic ==
    ASSUME NEW found \in UNION {[1..n -> Named] : n \in 0..2},
           ~(\E i \in DOMAIN found : found[i] \in Private)
    PROVE  /\ found \in Seq(Addresses)
           /\ \A i \in DOMAIN found : found[i] \in Public
<1>1. PICK n \in 0..2 : found \in [1..n -> Named]
  OBVIOUS
<1>2. DOMAIN found = 1..n /\ \A i \in 1..n : found[i] \in Public
  BY <1>1, FetchAssumption DEF Addresses
<1>3. n \in Nat /\ found \in [1..n -> Addresses]
  BY <1>1, FetchAssumption
<1>4. found \in Seq(Addresses)
  BY <1>3
<1> QED
  BY <1>2, <1>4

LEMMA TypeStarts == Init => TypeOK
<1> SUFFICES ASSUME Init PROVE TypeOK
  OBVIOUS
<1>1. given \in Seq(Addresses)
  BY DEF Init
<1> QED
  BY <1>1 DEF Init, TypeOK

LEMMA TypeSteps == TypeOK /\ [Next]_vars => TypeOK'
<1> SUFFICES ASSUME TypeOK, [Next]_vars
             PROVE  TypeOK'
  OBVIOUS
<1> USE FetchAssumption
<1>1. CASE Start
  <2>1. PICK scheme \in Schemes, h \in Addresses \cup {Name} :
            /\ host' = h
            /\ IF scheme # "https" \/ h \in Private
               THEN End("atr-unfetchable") /\ UNCHANGED given
               ELSE /\ pc' = IF h = Name THEN "lookup" ELSE "connect"
                    /\ given' = IF h = Name THEN <<>> ELSE <<h>>
                    /\ UNCHANGED result
    BY <1>1 DEF Start
  <2>2. given' = given \/ given' = <<>> \/ (h \in Addresses /\ given' = <<h>>)
    BY <2>1
  <2>3. CASE given' = given
    BY <1>1, <2>1, <2>3 DEF Start, End, TypeOK
  <2>4. CASE given' = <<>>
    BY <1>1, <2>1, <2>4 DEF Start, End, TypeOK
  <2>5. CASE h \in Addresses /\ given' = <<h>>
    BY <1>1, <2>1, <2>5 DEF Start, End, TypeOK
  <2> QED
    BY <2>2, <2>3, <2>4, <2>5
<1>2. CASE Lookup
  <2>1. PICK found \in UNION {[1..n -> Named] : n \in 0..2} :
            IF found = <<>> \/ \E i \in DOMAIN found : found[i] \in Private
            THEN End("atr-unfetchable") /\ UNCHANGED given
            ELSE /\ pc' = "connect"
                 /\ given' \in {found, <<found[1]>>}
                 /\ UNCHANGED result
    BY <1>2 DEF Lookup
  <2>2. CASE found = <<>> \/ \E i \in DOMAIN found : found[i] \in Private
    BY <1>2, <2>1, <2>2 DEF Lookup, End, TypeOK
  <2>3. CASE ~(found = <<>> \/ \E i \in DOMAIN found : found[i] \in Private)
    <3>1. found \in Seq(Addresses)
      BY <2>3, FoundPublic
    <3>2. found[1] \in Addresses
      BY <3>1, <2>3
    <3>3. given' \in Seq(Addresses)
      BY <2>1, <2>3, <3>1, <3>2
    <3> QED
      BY <1>2, <2>1, <2>3, <3>3 DEF Lookup, TypeOK
  <2> QED
    BY <2>2, <2>3
<1>3. CASE Connect
  <2>1. Head(given) \in Addresses /\ Tail(given) \in Seq(Addresses)
    BY <1>3 DEF Connect, TypeOK
  <2> QED
    BY <1>3, <2>1 DEF Connect, TypeOK
<1>4. CASE NoneConnects
  BY <1>4 DEF NoneConnects, End, TypeOK
<1>5. CASE Headers
  BY <1>5 DEF Headers, End, TypeOK
<1>6. CASE Chunk
  <2>1. PICK size \in Sizes : sent' = sent + size
    BY <1>6 DEF Chunk
  <2>2. sent' \in Nat
    <3>1. size \in Nat
      BY FetchAssumption
    <3> QED
      BY <2>1, <3>1 DEF TypeOK
  <2> QED
    BY <1>6, <2>2 DEF Chunk, End, TypeOK
<1>7. CASE Consumed
  BY <1>7 DEF Consumed, End, TypeOK
<1>8. CASE BodyEnds
  BY <1>8 DEF BodyEnds, End, TypeOK
<1>9. CASE Fails
  BY <1>9 DEF Fails, End, TypeOK
<1>10. CASE DeadlinePasses
  BY <1>10 DEF DeadlinePasses, End, TypeOK
<1>11. CASE UNCHANGED vars
  BY <1>11 DEF vars, TypeOK
<1> QED
  BY <1>1, <1>2, <1>3, <1>4, <1>5, <1>6, <1>7, <1>8, <1>9, <1>10, <1>11 DEF Next

(* The fetch's state keeps its types.                                       *)
THEOREM TypeCorrect == Spec => []TypeOK
  BY TypeStarts, TypeSteps, PTL DEF Spec

LEMMA PublicSteps == TypeOK /\ GivenPublic /\ ConnectsPublic /\ [Next]_vars => (GivenPublic /\ ConnectsPublic)'
<1> SUFFICES ASSUME TypeOK, GivenPublic, ConnectsPublic, [Next]_vars
             PROVE  GivenPublic' /\ ConnectsPublic'
  OBVIOUS
<1> USE FetchAssumption
<1>1. CASE Start
  <2>1. PICK scheme \in Schemes, h \in Addresses \cup {Name} :
            /\ host' = h
            /\ IF scheme # "https" \/ h \in Private
               THEN End("atr-unfetchable") /\ UNCHANGED given
               ELSE /\ pc' = IF h = Name THEN "lookup" ELSE "connect"
                    /\ given' = IF h = Name THEN <<>> ELSE <<h>>
                    /\ UNCHANGED result
    BY <1>1 DEF Start
  <2>2. given' = given \/ given' = <<>> \/ (h \in Public /\ given' = <<h>>)
    BY <2>1 DEF Addresses
  <2> QED
    BY <1>1, <2>2 DEF Start, GivenPublic, ConnectsPublic
<1>2. CASE Lookup
  <2>1. PICK found \in UNION {[1..n -> Named] : n \in 0..2} :
            IF found = <<>> \/ \E i \in DOMAIN found : found[i] \in Private
            THEN End("atr-unfetchable") /\ UNCHANGED given
            ELSE /\ pc' = "connect"
                 /\ given' \in {found, <<found[1]>>}
                 /\ UNCHANGED result
    BY <1>2 DEF Lookup
  <2>2. CASE found = <<>> \/ \E i \in DOMAIN found : found[i] \in Private
    BY <1>2, <2>1, <2>2 DEF Lookup, GivenPublic, ConnectsPublic
  <2>3. CASE ~(found = <<>> \/ \E i \in DOMAIN found : found[i] \in Private)
    <3>1. found \in Seq(Addresses) /\ \A i \in DOMAIN found : found[i] \in Public
      BY <2>3, FoundPublic
    <3>2. 1 \in DOMAIN found
      BY <3>1, <2>3
    <3>3. \A i \in DOMAIN given' : given'[i] \in Public
      BY <2>1, <2>3, <3>1, <3>2
    <3> QED
      BY <1>2, <3>3 DEF Lookup, GivenPublic, ConnectsPublic
  <2> QED
    BY <2>2, <2>3
<1>3. CASE Connect
  <2>1. given \in Seq(Addresses) /\ given # <<>>
    BY <1>3 DEF Connect, TypeOK
  <2>2. Head(given) \in Public
    BY <2>1 DEF GivenPublic
  <2>3. \A i \in DOMAIN Tail(given) : Tail(given)[i] \in Public
    BY <2>1 DEF GivenPublic
  <2> QED
    BY <1>3, <2>2, <2>3 DEF Connect, GivenPublic, ConnectsPublic
<1>4. CASE UNCHANGED <<given, peers>>
  BY <1>4 DEF GivenPublic, ConnectsPublic
<1>5. NoneConnects \/ Headers \/ Chunk \/ Consumed \/ BodyEnds \/ Fails \/ DeadlinePasses \/ UNCHANGED vars
        => UNCHANGED <<given, peers>>
  BY DEF NoneConnects, Headers, Chunk, Consumed, BodyEnds, Fails, DeadlinePasses, vars
<1> QED
  BY <1>1, <1>2, <1>3, <1>4, <1>5 DEF Next

(* Every address a connection is tried at is public: the addresses given to *)
(* the connection are those publicLookup checked, whatever the name         *)
(* resolves to when it is asked again (public-fetch.ts).                    *)
THEOREM PublicOnly == Spec => []ConnectsPublic
<1>1. Init => TypeOK /\ GivenPublic /\ ConnectsPublic
  <2>1. Init => TypeOK
    BY TypeStarts
  <2>2. Init => GivenPublic /\ ConnectsPublic
    BY DEF Init, GivenPublic, ConnectsPublic
  <2> QED
    BY <2>1, <2>2
<1>2. TypeOK /\ GivenPublic /\ ConnectsPublic /\ [Next]_vars => (TypeOK /\ GivenPublic /\ ConnectsPublic)'
  BY TypeSteps, PublicSteps
<1> QED
  BY <1>1, <1>2, PTL DEF Spec

------------------------------------------------------------------------------
(* The digits of a declared length. *)

(* A set of naturals that holds one has a least.                            *)
LEMMA LeastNumber ==
    ASSUME NEW T \in SUBSET Nat, T # {}
    PROVE  \E x \in T : \A y \in T : x <= y
<1>1. PICK x \in T : \A y \in T : ~ (<<y, x>> \in OpToRel(<, Nat))
  BY WFMin, NatLessThanWellFounded
<1>2. \A y \in T : ~ (y < x)
  BY <1>1 DEF OpToRel
<1>3. \A y \in T : y \in Nat
  OBVIOUS
<1>4. \A y \in T : x <= y
  BY <1>2, <1>3
<1> QED
  BY <1>4

(* What holds of 0, and of a number when of the one before, holds of all.   *)
LEMMA Upto ==
    ASSUME NEW k \in Nat, NEW T, 0 \in T, \A n \in 1..k : n - 1 \in T => n \in T
    PROVE  \A n \in 0..k : n \in T
<1> DEFINE others == {n \in 0..k : n \notin T}
<1> SUFFICES ASSUME others # {}
             PROVE  FALSE
  OBVIOUS
<1>1. PICK n \in others : \A m \in others : n <= m
  <2>1. others \in SUBSET Nat
    OBVIOUS
  <2> HIDE DEF others
  <2> QED
    BY <2>1, LeastNumber
<1>2. n \in 1..k /\ n - 1 \in 0..k /\ n - 1 \notin others
  BY <1>1
<1> QED
  BY <1>2

(* value is the function Value evaluates over the first k digits.           *)
IsValue(value, digits, k) ==
    value = [i \in 0..k |-> IF i = 0 THEN 0 ELSE 10 * value[i - 1] + digits[i]]

(* One more digit can be read.                                              *)
LEMMA LongerValue ==
    ASSUME NEW f, NEW s, NEW k \in Nat, IsValue(f, s, k)
    PROVE  \E g : IsValue(g, s, k + 1)
<1> DEFINE last == 10 * f[k] + s[k + 1]
           g == [n \in 0..(k + 1) |-> IF n = k + 1 THEN last ELSE f[n]]
<1>1. \A n \in 0..k : f[n] = IF n = 0 THEN 0 ELSE 10 * f[n - 1] + s[n]
  BY DEF IsValue
<1>2. \A n \in 0..(k + 1) : g[n] = IF n = 0 THEN 0 ELSE 10 * g[n - 1] + s[n]
  <2> SUFFICES ASSUME NEW n \in 0..(k + 1)
               PROVE  g[n] = IF n = 0 THEN 0 ELSE 10 * g[n - 1] + s[n]
    OBVIOUS
  <2>1. CASE n = k + 1
    <3>1. n # 0 /\ n - 1 = k /\ n - 1 \in 0..(k + 1) /\ n - 1 # k + 1
      BY <2>1
    <3>2. g[n] = last /\ g[n - 1] = f[k]
      BY <2>1, <3>1
    <3> QED
      BY <2>1, <3>1, <3>2
  <2>2. CASE n # k + 1
    <3>1. n \in 0..k /\ g[n] = f[n]
      BY <2>2
    <3>2. n # 0 => n - 1 \in 0..(k + 1) /\ n - 1 # k + 1
      BY <2>2
    <3>3. n # 0 => g[n - 1] = f[n - 1]
      BY <3>2
    <3> QED
      BY <1>1, <3>1, <3>3
  <2> QED
    BY <2>1, <2>2
<1>3. g = [n \in 0..(k + 1) |-> g[n]]
  OBVIOUS
<1> HIDE DEF g
<1>4. IsValue(g, s, k + 1)
  BY <1>2, <1>3 DEF IsValue
<1> QED
  BY <1>4

(* Any number of digits can be read one after another.                      *)
LEMMA ValueExists ==
    ASSUME NEW s, NEW k \in Nat
    PROVE  \E f : IsValue(f, s, k)
<1> DEFINE lengths == {m \in Nat : \E f : IsValue(f, s, m)}
<1>1. 0 \in lengths
  <2> DEFINE f == [n \in 0..0 |-> 0]
  <2>1. IsValue(f, s, 0)
    BY DEF IsValue
  <2> QED
    BY <2>1
<1>2. \A m \in 1..k : m - 1 \in lengths => m \in lengths
  <2> SUFFICES ASSUME NEW m \in 1..k, m - 1 \in lengths
               PROVE  m \in lengths
    OBVIOUS
  <2>1. PICK f : IsValue(f, s, m - 1)
    OBVIOUS
  <2>2. m - 1 \in Nat /\ (m - 1) + 1 = m /\ m \in Nat
    OBVIOUS
  <2>3. \E g : IsValue(g, s, (m - 1) + 1)
    BY <2>1, <2>2, LongerValue
  <2> QED
    BY <2>2, <2>3
<1> HIDE DEF lengths
<1>3. k \in lengths
  BY <1>1, <1>2, Upto
<1> QED
  BY <1>3 DEF lengths

(* The values of the digits' beginnings.                                    *)
ValueUpto(s) == CHOOSE f : IsValue(f, s, Len(s))

(* Value reads the digits one after another.                                *)
LEMMA ValueSteps ==
    ASSUME NEW s \in Seq(Nat)
    PROVE  /\ Value(s) = ValueUpto(s)[Len(s)]
           /\ ValueUpto(s)[0] = 0
           /\ \A n \in 1..Len(s) : ValueUpto(s)[n] = 10 * ValueUpto(s)[n - 1] + s[n]
           /\ \A n \in 0..Len(s) : ValueUpto(s)[n] \in Nat
<1>1. IsValue(ValueUpto(s), s, Len(s))
  <2>1. Len(s) \in Nat
    OBVIOUS
  <2> QED
    BY <2>1, ValueExists DEF ValueUpto
<1>2. Value(s) = ValueUpto(s)[Len(s)]
  BY DEF Value, ValueUpto, IsValue
<1>3. ValueUpto(s)[0] = 0 /\ \A n \in 1..Len(s) : ValueUpto(s)[n] = 10 * ValueUpto(s)[n - 1] + s[n]
  BY <1>1 DEF IsValue
<1>4. \A n \in 0..Len(s) : ValueUpto(s)[n] \in Nat
  <2> DEFINE values == {n \in 0..Len(s) : ValueUpto(s)[n] \in Nat}
  <2>1. 0 \in values
    BY <1>3
  <2>2. ASSUME NEW n \in 1..Len(s), n - 1 \in values
        PROVE  n \in values
    <3>1. ValueUpto(s)[n - 1] \in Nat /\ s[n] \in Nat
      BY <2>2
    <3> QED
      BY <1>3, <3>1
  <2>3. Len(s) \in Nat
    OBVIOUS
  <2> HIDE DEF values
  <2>4. \A n \in 0..Len(s) : n \in values
    BY <2>1, <2>2, <2>3, Upto
  <2> QED
    BY <2>4 DEF values
<1> QED
  BY <1>2, <1>3, <1>4

(* One step of reading grows with the digit and with what was read.         *)
LEMMA DigitGrows == \A a, b, x, y \in Nat : a <= b /\ x <= y => 10 * a + x <= 10 * b + y
  OBVIOUS

(* Digits each at least another's read as at least as much.                 *)
LEMMA ValueGrows ==
    ASSUME NEW s \in Seq(Nat), NEW t \in Seq(Nat), NEW k \in Nat, k <= Len(s), k <= Len(t),
           \A i \in 1..k : t[i] <= s[i]
    PROVE  ValueUpto(t)[k] <= ValueUpto(s)[k]
<1> DEFINE grown == {n \in 0..k : ValueUpto(t)[n] <= ValueUpto(s)[n]}
<1>1. 0 \in grown
  BY ValueSteps
<1>2. ASSUME NEW n \in 1..k, n - 1 \in grown
      PROVE  n \in grown
  <2>1. n \in 1..Len(s) /\ n \in 1..Len(t) /\ n - 1 \in 0..Len(s) /\ n - 1 \in 0..Len(t)
    OBVIOUS
  <2>2. s[n] \in Nat /\ t[n] \in Nat /\ t[n] <= s[n]
    BY <2>1
  <2>3. ValueUpto(s)[n] = 10 * ValueUpto(s)[n - 1] + s[n] /\ ValueUpto(s)[n - 1] \in Nat
    BY <2>1, ValueSteps
  <2>4. ValueUpto(t)[n] = 10 * ValueUpto(t)[n - 1] + t[n] /\ ValueUpto(t)[n - 1] \in Nat
    BY <2>1, ValueSteps
  <2>5. ValueUpto(t)[n - 1] <= ValueUpto(s)[n - 1]
    BY <1>2
  <2>6. ValueUpto(t)[n] <= ValueUpto(s)[n]
    BY <2>2, <2>3, <2>4, <2>5, DigitGrows
  <2> QED
    BY <2>6
<1> HIDE DEF grown
<1>3. \A n \in 0..k : n \in grown
  BY <1>1, <1>2, Upto
<1> QED
  BY <1>3 DEF grown

(* Zeros before the digits are worth nothing.                               *)
LEMMA ZerosBefore ==
    ASSUME NEW s \in Seq(Nat), NEW t \in Seq(Nat), NEW k \in Nat, Len(s) = k + Len(t),
           \A i \in 1..k : s[i] = 0,
           \A i \in 1..Len(t) : s[k + i] = t[i]
    PROVE  Value(s) = Value(t)
<1>1. ValueUpto(s)[k] = 0
  <2> DEFINE none == {n \in 0..k : ValueUpto(s)[n] = 0}
  <2>1. 0 \in none
    BY ValueSteps
  <2>2. ASSUME NEW n \in 1..k, n - 1 \in none
        PROVE  n \in none
    <3>1. n \in 1..Len(s) /\ s[n] = 0 /\ ValueUpto(s)[n - 1] = 0
      BY <2>2
    <3>2. ValueUpto(s)[n] = 10 * ValueUpto(s)[n - 1] + s[n]
      BY <3>1, ValueSteps
    <3> QED
      BY <3>1, <3>2
  <2> HIDE DEF none
  <2>3. \A n \in 0..k : n \in none
    BY <2>1, <2>2, Upto
  <2> QED
    BY <2>3 DEF none
<1>2. ValueUpto(s)[k + Len(t)] = ValueUpto(t)[Len(t)]
  <2> DEFINE same == {n \in 0..Len(t) : ValueUpto(s)[k + n] = ValueUpto(t)[n]}
  <2>1. 0 \in same
    BY <1>1, ValueSteps
  <2>2. ASSUME NEW n \in 1..Len(t), n - 1 \in same
        PROVE  n \in same
    <3>1. k + n \in 1..Len(s) /\ (k + n) - 1 = k + (n - 1) /\ s[k + n] = t[n]
      OBVIOUS
    <3>2. ValueUpto(s)[k + n] = 10 * ValueUpto(s)[(k + n) - 1] + s[k + n]
      BY <3>1, ValueSteps
    <3>3. ValueUpto(t)[n] = 10 * ValueUpto(t)[n - 1] + t[n]
      BY ValueSteps
    <3>4. ValueUpto(s)[k + (n - 1)] = ValueUpto(t)[n - 1]
      BY <2>2
    <3>5. ValueUpto(s)[k + n] = ValueUpto(t)[n]
      BY <3>1, <3>2, <3>3, <3>4
    <3> QED
      BY <3>5
  <2>3. Len(t) \in Nat
    OBVIOUS
  <2> HIDE DEF same
  <2>4. \A n \in 0..Len(t) : n \in same
    BY <2>1, <2>2, <2>3, Upto
  <2> QED
    BY <2>4 DEF same
<1>3. Value(s) = ValueUpto(s)[Len(s)] /\ Value(t) = ValueUpto(t)[Len(t)]
  BY ValueSteps
<1> QED
  BY <1>2, <1>3

(* A one and d zeros.                                                       *)
LEMMA TenIs ==
    ASSUME NEW d \in Nat
    PROVE  /\ Ten(d) \in Seq(Nat) /\ Len(Ten(d)) = d + 1
           /\ Ten(d)[1] = 1 /\ \A i \in 2..(d + 1) : Ten(d)[i] = 0
<1> DEFINE z == Zeros(d)
<1>1. z \in [1..d -> Nat] /\ \A i \in 1..d : z[i] = 0
  BY DEF Zeros
<1>2. z \in Seq(Nat) /\ Len(z) = d
  BY <1>1
<1> HIDE DEF z
<1>3. <<1>> \in Seq(Nat) /\ Len(<<1>>) = 1 /\ <<1>>[1] = 1
  OBVIOUS
<1>4. /\ <<1>> \o z \in Seq(Nat) /\ Len(<<1>> \o z) = 1 + d
      /\ \A i \in 1..(1 + d) : (<<1>> \o z)[i] = IF i <= 1 THEN <<1>>[i] ELSE z[i - 1]
  BY <1>2, <1>3, ConcatProperties
<1>5. (<<1>> \o z)[1] = 1
  BY <1>3, <1>4
<1>6. \A i \in 2..(d + 1) : (<<1>> \o z)[i] = 0
  <2> SUFFICES ASSUME NEW i \in 2..(d + 1) PROVE (<<1>> \o z)[i] = 0
    OBVIOUS
  <2>1. i \in 1..(1 + d) /\ ~(i <= 1) /\ i - 1 \in 1..d
    OBVIOUS
  <2> QED
    BY <1>1, <1>4, <2>1
<1>7. Ten(d) = <<1>> \o z
  BY DEF Ten, z
<1> QED
  BY <1>4, <1>5, <1>6, <1>7

(* The powers of ten.                                                       *)
LEMMA TenGrows ==
    ASSUME NEW d \in Nat
    PROVE  Value(Ten(d)) \in Nat /\ Value(Ten(d + 1)) = 10 * Value(Ten(d))
<1> DEFINE s == Ten(d)
           t == Ten(d + 1)
<1>1. s \in Seq(Nat) /\ Len(s) = d + 1 /\ s[1] = 1 /\ \A i \in 2..(d + 1) : s[i] = 0
  BY TenIs
<1>2. t \in Seq(Nat) /\ Len(t) = (d + 1) + 1 /\ t[1] = 1 /\ \A i \in 2..((d + 1) + 1) : t[i] = 0
  <2>1. d + 1 \in Nat
    OBVIOUS
  <2> QED
    BY <2>1, TenIs
<1> HIDE DEF s, t
<1>3. \A i \in 1..(d + 1) : s[i] <= t[i] /\ t[i] <= s[i]
  <2> SUFFICES ASSUME NEW i \in 1..(d + 1) PROVE s[i] <= t[i] /\ t[i] <= s[i]
    OBVIOUS
  <2>1. i = 1 \/ (i \in 2..(d + 1) /\ i \in 2..((d + 1) + 1))
    OBVIOUS
  <2> QED
    BY <1>1, <1>2, <2>1
<1>4. ValueUpto(s)[d + 1] \in Nat /\ ValueUpto(t)[d + 1] \in Nat
  <2>1. d + 1 \in 0..Len(s) /\ d + 1 \in 0..Len(t)
    BY <1>1, <1>2
  <2> QED
    BY <1>1, <1>2, <2>1, ValueSteps
<1>5. ValueUpto(s)[d + 1] = ValueUpto(t)[d + 1]
  <2>1. d + 1 \in Nat /\ d + 1 <= Len(s) /\ d + 1 <= Len(t)
    BY <1>1, <1>2
  <2>2. ValueUpto(s)[d + 1] <= ValueUpto(t)[d + 1]
    BY <1>1, <1>2, <1>3, <2>1, ValueGrows
  <2>3. ValueUpto(t)[d + 1] <= ValueUpto(s)[d + 1]
    BY <1>1, <1>2, <1>3, <2>1, ValueGrows
  <2> QED
    BY <1>4, <2>2, <2>3
<1>6. ValueUpto(t)[(d + 1) + 1] = 10 * ValueUpto(t)[((d + 1) + 1) - 1] + t[(d + 1) + 1]
  <2>1. (d + 1) + 1 \in 1..Len(t)
    BY <1>2
  <2> QED
    BY <1>2, <2>1, ValueSteps
<1>7. t[(d + 1) + 1] = 0 /\ ((d + 1) + 1) - 1 = d + 1
  BY <1>2
<1>8. Value(s) = ValueUpto(s)[d + 1] /\ Value(t) = ValueUpto(t)[(d + 1) + 1]
  BY <1>1, <1>2, ValueSteps
<1> QED
  BY <1>4, <1>5, <1>6, <1>7, <1>8 DEF s, t

(* A power of ten is more than its exponent.                                *)
LEMMA TenOver ==
    ASSUME NEW d \in Nat
    PROVE  Value(Ten(d)) > d
<1> DEFINE over == {n \in Nat : Value(Ten(n)) > n}
<1>1. 0 \in over
  <2>1. Ten(0) \in Seq(Nat) /\ Len(Ten(0)) = 1 /\ Ten(0)[1] = 1
    <3> DEFINE n == 0
    <3>1. n \in Nat /\ n + 1 = 1
      OBVIOUS
    <3> HIDE DEF n
    <3>2. Ten(n) \in Seq(Nat) /\ Len(Ten(n)) = n + 1 /\ Ten(n)[1] = 1
      BY <3>1, TenIs
    <3> QED
      BY <3>1, <3>2 DEF n
  <2>2. Value(Ten(0)) = ValueUpto(Ten(0))[1] /\ ValueUpto(Ten(0))[0] = 0
    BY <2>1, ValueSteps
  <2>3. ValueUpto(Ten(0))[1] = 10 * ValueUpto(Ten(0))[1 - 1] + Ten(0)[1]
    BY <2>1, ValueSteps
  <2> QED
    BY <2>1, <2>2, <2>3
<1>2. ASSUME NEW n \in 1..d, n - 1 \in over
      PROVE  n \in over
  <2>1. n - 1 \in Nat /\ (n - 1) + 1 = n /\ Value(Ten(n - 1)) > n - 1
    BY <1>2
  <2>2. Value(Ten(n - 1)) \in Nat /\ Value(Ten((n - 1) + 1)) = 10 * Value(Ten(n - 1))
    BY <2>1, TenGrows
  <2> QED
    BY <2>1, <2>2
<1> HIDE DEF over
<1>3. d \in over
  BY <1>1, <1>2, Upto
<1> QED
  BY <1>3 DEF over

(* More zeros make a power of ten no less.                                  *)
LEMMA TenOrder ==
    ASSUME NEW d \in Nat, NEW e \in Nat, d <= e
    PROVE  Value(Ten(d)) <= Value(Ten(e))
<1> DEFINE later == {n \in Nat : Value(Ten(d)) <= Value(Ten(d + n))}
<1>1. 0 \in later
  <2>1. Value(Ten(d)) \in Nat /\ d + 0 = d
    BY TenGrows
  <2> QED
    BY <2>1
<1>2. ASSUME NEW n \in 1..(e - d), n - 1 \in later
      PROVE  n \in later
  <2>1. d + (n - 1) \in Nat /\ (d + (n - 1)) + 1 = d + n /\ n \in Nat
    OBVIOUS
  <2>2. Value(Ten(d + (n - 1))) \in Nat /\ Value(Ten((d + (n - 1)) + 1)) = 10 * Value(Ten(d + (n - 1)))
    BY <2>1, TenGrows
  <2>3. Value(Ten(d)) \in Nat /\ Value(Ten(d)) <= Value(Ten(d + (n - 1)))
    BY <1>2, TenGrows
  <2> QED
    BY <2>1, <2>2, <2>3
<1>3. e - d \in Nat /\ d + (e - d) = e
  OBVIOUS
<1> HIDE DEF later
<1>4. e - d \in later
  BY <1>1, <1>2, <1>3, Upto
<1> QED
  BY <1>3, <1>4 DEF later

(* A number has a length in decimal, and is below the power of ten of it.   *)
LEMMA LengthIs ==
    ASSUME NEW n \in Nat
    PROVE  DecimalLength(n) \in Nat /\ DecimalLength(n) >= 1 /\ n < Value(Ten(DecimalLength(n)))
<1> DEFINE enough == {d \in 1..(n + 1) : n < Value(Ten(d))}
<1>1. n + 1 \in enough
  <2>1. n + 1 \in Nat
    OBVIOUS
  <2>2. Value(Ten(n + 1)) > n + 1 /\ Value(Ten(n + 1)) \in Nat
    BY <2>1, TenOver, TenGrows
  <2> QED
    BY <2>1, <2>2
<1>2. PICK d \in enough : \A e \in enough : d <= e
  <2>1. enough \in SUBSET Nat /\ enough # {}
    BY <1>1
  <2> HIDE DEF enough
  <2> QED
    BY <2>1, LeastNumber
<1>3. d = 1 \/ n >= Value(Ten(d - 1))
  <2> SUFFICES ASSUME d # 1
               PROVE  n >= Value(Ten(d - 1))
    OBVIOUS
  <2>1. d - 1 \in 1..(n + 1) /\ d - 1 \in Nat /\ ~(d <= d - 1)
    OBVIOUS
  <2>2. d - 1 \notin enough
    BY <1>2, <2>1
  <2>3. Value(Ten(d - 1)) \in Nat
    BY <2>1, TenGrows
  <2> QED
    BY <2>1, <2>2, <2>3
<1>4. \E c \in 1..(n + 1) : n < Value(Ten(c)) /\ (c = 1 \/ n >= Value(Ten(c - 1)))
  BY <1>2, <1>3
<1>5. DecimalLength(n) \in 1..(n + 1) /\ n < Value(Ten(DecimalLength(n)))
  BY <1>4 DEF DecimalLength
<1> QED
  BY <1>5

(* The significant digits: leading zeros are dropped, and a zero kept.      *)
LEMMA SignificantIs ==
    ASSUME NEW s \in Seq(0..9)
    PROVE  /\ Significant(s) \in Seq(Nat)
           /\ Value(Significant(s)) = Value(s)
           /\ Len(Significant(s)) = 1 \/ (Len(Significant(s)) >= 1 /\ Significant(s)[1] >= 1)
<1> DEFINE nonzero == {i \in DOMAIN s : s[i] # 0}
<1>0. s \in Seq(Nat) /\ DOMAIN s = 1..Len(s) /\ Len(s) \in Nat /\ \A i \in 1..Len(s) : s[i] \in Nat
  OBVIOUS
<1>1. CASE nonzero = {}
  <2>1. Significant(s) = <<0>>
    BY <1>1 DEF Significant
  <2>2. <<0>> \in Seq(Nat) /\ Len(<<0>>) = 1 /\ <<0>>[1] = 0 /\ << >> \in Seq(Nat) /\ Len(<< >>) = 0
    OBVIOUS
  <2>3. \A i \in 1..Len(s) : s[i] = 0
    BY <1>0, <1>1
  <2>4. Value(s) = Value(<< >>)
    <3> DEFINE t == << >>
    <3>1. t \in Seq(Nat) /\ Len(s) = Len(s) + Len(t) /\ \A i \in 1..Len(t) : s[Len(s) + i] = t[i]
      BY <1>0
    <3> HIDE DEF t
    <3>2. Value(s) = Value(t)
      BY <1>0, <2>3, <3>1, ZerosBefore
    <3> QED
      BY <3>2 DEF t
  <2>5. Value(<<0>>) = Value(<< >>)
    <3> DEFINE t == << >>
               z == <<0>>
    <3>1. t \in Seq(Nat) /\ Len(t) = 0 /\ z \in Seq(Nat) /\ Len(z) = 1 /\ z[1] = 0
      OBVIOUS
    <3> HIDE DEF t, z
    <3>2. /\ 1 \in Nat /\ Len(z) = 1 + Len(t) /\ \A i \in 1..1 : z[i] = 0
          /\ \A i \in 1..Len(t) : z[1 + i] = t[i]
      BY <3>1
    <3>3. Value(z) = Value(t)
      BY <3>1, <3>2, ZerosBefore, Zenon
    <3> QED
      BY <3>3 DEF t, z
  <2> QED
    BY <2>1, <2>2, <2>4, <2>5
<1>2. CASE nonzero # {}
  <2> DEFINE first == CHOOSE i \in nonzero : \A k \in nonzero : i <= k
             t == SubSeq(s, first, Len(s))
  <2>1. \E i \in nonzero : \A k \in nonzero : i <= k
    <3>1. nonzero \in SUBSET Nat
      OBVIOUS
    <3> HIDE DEF nonzero
    <3> QED
      BY <1>2, <3>1, LeastNumber
  <2>2. first \in nonzero /\ \A k \in nonzero : first <= k
    <3> HIDE DEF nonzero
    <3> QED
      BY <2>1
  <2>3. Significant(s) = t
    BY <1>2 DEF Significant
  <2> HIDE DEF first
  <2>4. first \in 1..Len(s) /\ s[first] # 0 /\ \A i \in 1..(first - 1) : s[i] = 0
    <3>1. \A i \in 1..(first - 1) : i \notin nonzero
      BY <2>2
    <3> QED
      BY <1>0, <2>2, <3>1
  <2>5. /\ t \in Seq(Nat) /\ Len(t) = Len(s) - first + 1
        /\ \A i \in 1..(Len(s) - first + 1) : t[i] = s[first + i - 1]
    <3>1. /\ SubSeq(s, first, Len(s)) \in Seq(Nat)
          /\ Len(SubSeq(s, first, Len(s))) = IF first <= Len(s) THEN Len(s) - first + 1 ELSE 0
          /\ \A i \in 1..(Len(s) - first + 1) : SubSeq(s, first, Len(s))[i] = s[first + i - 1]
      BY <1>0, <2>4, SubSeqProperties
    <3> QED
      BY <2>4, <3>1
  <2> HIDE DEF t
  <2>6. t[1] = s[first] /\ s[first] \in Nat /\ Len(t) >= 1
    BY <1>0, <2>4, <2>5
  <2>7. Value(s) = Value(t)
    <3> DEFINE k == first - 1
    <3>1. k \in Nat /\ Len(s) = k + Len(t) /\ \A i \in 1..k : s[i] = 0
      BY <1>0, <2>4, <2>5
    <3>2. \A i \in 1..Len(t) : s[k + i] = t[i]
      <4> SUFFICES ASSUME NEW i \in 1..Len(t) PROVE s[k + i] = t[i]
        OBVIOUS
      <4>1. i \in 1..(Len(s) - first + 1) /\ k + i = first + i - 1
        BY <1>0, <2>4, <2>5
      <4> QED
        BY <2>5, <4>1
    <3> HIDE DEF k
    <3> QED
      BY <1>0, <2>5, <3>1, <3>2, ZerosBefore
  <2> QED
    BY <2>3, <2>4, <2>5, <2>6, <2>7
<1> QED
  BY <1>1, <1>2

(* A declared length is over the bound exactly when its value is: comparing *)
(* the lengths first, leading zeros aside, decides nothing else             *)
(* (_declared_over).                                                        *)
THEOREM DeclaredIsRead ==
    ASSUME NEW declared \in Declared \cup {Absent}
    PROVE  DeclaredOver(declared) <=> declared # Absent /\ Value(declared) > MAX_ATR_BYTES
<1>1. CASE declared = Absent
  BY <1>1 DEF DeclaredOver
<1>2. CASE declared # Absent
  <2> DEFINE s == Significant(declared)
             d == DecimalLength(MAX_ATR_BYTES)
  <2>1. declared \in Seq(0..9) /\ MAX_ATR_BYTES \in Nat
    BY <1>2, FetchAssumption
  <2>2. /\ s \in Seq(Nat) /\ Value(s) = Value(declared)
        /\ Len(s) = 1 \/ (Len(s) >= 1 /\ s[1] >= 1)
    BY <2>1, SignificantIs
  <2>3. d \in Nat /\ d >= 1 /\ MAX_ATR_BYTES < Value(Ten(d))
    BY <2>1, LengthIs
  <2>4. DeclaredOver(declared) <=> Len(s) > d \/ Value(s) > MAX_ATR_BYTES
    BY <1>2 DEF DeclaredOver
  <2> HIDE DEF s, d
  <2>5. ASSUME Len(s) > d
        PROVE  Value(s) > MAX_ATR_BYTES
    <3> DEFINE e == Len(s) - 1
    <3>1. e \in Nat /\ d <= e /\ Len(s) = e + 1 /\ s[1] >= 1
      <4>1. Len(s) \in Nat
        BY <2>2
      <4> QED
        BY <2>2, <2>3, <2>5, <4>1
    <3> HIDE DEF e
    <3>2. Ten(e) \in Seq(Nat) /\ Len(Ten(e)) = e + 1 /\ Ten(e)[1] = 1 /\ \A i \in 2..(e + 1) : Ten(e)[i] = 0
      BY <3>1, TenIs
    <3>3. \A i \in 1..(e + 1) : Ten(e)[i] <= s[i]
      <4> SUFFICES ASSUME NEW i \in 1..(e + 1) PROVE Ten(e)[i] <= s[i]
        OBVIOUS
      <4>1. s[i] \in Nat
        BY <2>2, <3>1
      <4>2. i = 1 \/ i \in 2..(e + 1)
        BY <3>1
      <4> QED
        BY <3>1, <3>2, <4>1, <4>2
    <3>4. ValueUpto(Ten(e))[e + 1] <= ValueUpto(s)[e + 1]
      <4>1. e + 1 \in Nat /\ e + 1 <= Len(s) /\ e + 1 <= Len(Ten(e))
        BY <3>1, <3>2
      <4> QED
        BY <2>2, <3>2, <3>3, <4>1, ValueGrows
    <3>5. /\ Value(s) = ValueUpto(s)[e + 1] /\ Value(Ten(e)) = ValueUpto(Ten(e))[e + 1]
          /\ ValueUpto(s)[e + 1] \in Nat
      <4>1. e + 1 \in 0..Len(s)
        BY <3>1
      <4> QED
        BY <2>2, <3>1, <3>2, <4>1, ValueSteps
    <3>6. Value(Ten(d)) <= Value(Ten(e)) /\ Value(Ten(d)) \in Nat /\ Value(Ten(e)) \in Nat
      BY <2>3, <3>1, TenOrder, TenGrows
    <3> QED
      BY <2>1, <2>3, <3>4, <3>5, <3>6
  <2> QED
    BY <1>2, <2>2, <2>4, <2>5
<1> QED
  BY <1>1, <1>2

------------------------------------------------------------------------------
(* What the gate holds and returns. *)

LEMMA WholeSteps ==
    TypeOK /\ Stages /\ ReturnsWhole /\ [Next]_vars => (Stages /\ ReturnsWhole)'
<1> SUFFICES ASSUME TypeOK, Stages, ReturnsWhole, [Next]_vars
             PROVE  Stages' /\ ReturnsWhole'
  OBVIOUS
<1> USE FetchAssumption
<1>1. CASE Start
  BY <1>1 DEF Start, End, Stages, ReturnsWhole
<1>2. CASE Lookup
  BY <1>2 DEF Lookup, End, Stages, ReturnsWhole
<1>3. CASE Connect
  BY <1>3 DEF Connect, Stages, ReturnsWhole, TypeOK
<1>4. CASE NoneConnects
  BY <1>4 DEF NoneConnects, End, Stages, ReturnsWhole
<1>5. CASE Headers
  <2>1. PICK a \in Answers :
            /\ answer' = a
            /\ IF a.status # 200 \/ ~a.identity THEN End("atr-unfetchable")
               ELSE IF DeclaredOver(a.declared) THEN End("atr-too-large")
               ELSE pc' = "reading" /\ UNCHANGED result
    BY <1>5 DEF Headers
  <2>2. held' = held /\ sent' = sent /\ held = 0 /\ sent = 0
    BY <1>5 DEF Headers, Stages
  <2>3. DeclaredOver(a.declared) => a.declared # Absent /\ a.declared \in Declared
    BY DEF DeclaredOver, Answers
  <2>4. DeclaredOver(a.declared) => Value(a.declared) > MAX_ATR_BYTES
    BY <2>3, DeclaredIsRead
  <2>5. result = "none"
    BY <1>5 DEF Headers, TypeOK
  <2>6. Stages'
    BY <2>1, <2>2 DEF End, Stages
  <2>7. \E size \in Sizes \cup {1} : held' <= MAX_ATR_BYTES + size
    BY <2>2
  <2> QED
    BY <2>1, <2>3, <2>4, <2>5, <2>6, <2>7 DEF End, ReturnsWhole
<1>6. CASE Chunk
  <2>1. PICK size \in Sizes : sent' = sent + size
    BY <1>6 DEF Chunk
  <2>2. size \in Nat /\ sent \in Nat /\ held \in Nat /\ MAX_ATR_BYTES \in Nat
    BY DEF TypeOK
  <2>3. sent <= MAX_ATR_BYTES /\ held' = sent'
    BY <1>6 DEF Chunk, Stages
  <2>4. held' <= MAX_ATR_BYTES + size
    BY <2>1, <2>2, <2>3
  <2>5. result = "none" /\ result' \in {"none", "atr-too-large"}
    BY <1>6 DEF Chunk, End, TypeOK
  <2>6. result' = "atr-too-large" => sent' > MAX_ATR_BYTES
    BY <1>6, <2>1, <2>2, <2>3, <2>5 DEF Chunk, End, Fits
  <2>7. Stages'
    BY <1>6, <2>2, <2>3 DEF Chunk, End, Fits, Stages
  <2> QED
    BY <2>4, <2>5, <2>6, <2>7 DEF ReturnsWhole
<1>7. CASE Consumed
  BY <1>7 DEF Consumed, End, Fits, Stages, ReturnsWhole, TypeOK
<1>8. CASE BodyEnds
  BY <1>8 DEF BodyEnds, End, Stages, ReturnsWhole, TypeOK
<1>9. CASE Fails
  BY <1>9 DEF Fails, End, Stages, ReturnsWhole
<1>10. CASE DeadlinePasses
  BY <1>10 DEF DeadlinePasses, End, Stages, ReturnsWhole
<1>11. CASE UNCHANGED vars
  BY <1>11 DEF vars, Stages, ReturnsWhole
<1> QED
  BY <1>1, <1>2, <1>3, <1>4, <1>5, <1>6, <1>7, <1>8, <1>9, <1>10, <1>11 DEF Next

(* The gate holds at most one chunk past the bound, and the bytes it        *)
(* returns are a whole body within it (_fetch).                             *)
THEOREM WholeAndBounded == Spec => []ReturnsWhole
<1>1. Init => TypeOK /\ Stages /\ ReturnsWhole
  <2>1. Init => TypeOK
    BY TypeStarts
  <2>2. Init => Stages /\ ReturnsWhole
    BY FetchAssumption DEF Init, Stages, ReturnsWhole
  <2> QED
    BY <2>1, <2>2
<1>2. TypeOK /\ Stages /\ ReturnsWhole /\ [Next]_vars => (TypeOK /\ Stages /\ ReturnsWhole)'
  BY TypeSteps, WholeSteps
<1> QED
  BY <1>1, <1>2, PTL DEF Spec

------------------------------------------------------------------------------
(* The address tables. *)

(* The bytes of an address.                                                 *)
Byte == 0..255

(* Bit k of a byte, the highest first.                                      *)
BitOf(x, k) == (x \div 2 ^ (7 - k)) % 2

(* A bit of an address is a bit of one of its bytes.                        *)
LEMMA BitIs == \A bytes : \A j \in Nat : \A k \in 0..7 : Bit(bytes, 8 * j + k) = BitOf(bytes[j + 1], k)
<1> TAKE bytes
<1> TAKE j \in Nat
<1> TAKE k \in 0..7
<1>1. (8 * j + k) \div 8 = j /\ (8 * j + k) % 8 = k
  OBVIOUS
<1> QED
  BY <1>1 DEF Bit, BitOf

(* A byte's bits are the remainders of halving it.                          *)
LEMMA Halves == \A x \in Byte :
    /\ BitOf(x, 0) = x \div 128
    /\ BitOf(x, 1) = (x \div 64) % 2
    /\ BitOf(x, 2) = (x \div 32) % 2
    /\ BitOf(x, 3) = (x \div 16) % 2
    /\ BitOf(x, 4) = (x \div 8) % 2
    /\ BitOf(x, 5) = (x \div 4) % 2
    /\ BitOf(x, 6) = (x \div 2) % 2
    /\ BitOf(x, 7) = x % 2
  BY DEF BitOf, Byte

(* A byte shifted right once more.                                          *)
LEMMA Shifted ==
    ASSUME NEW x \in Byte
    PROVE  /\ x \in Nat /\ x \div 2 \in Nat /\ x \div 4 \in Nat /\ x \div 8 \in Nat
           /\ x \div 16 \in Nat /\ x \div 32 \in Nat /\ x \div 64 \in Nat
           /\ (x \div 2) \div 2 = x \div 4
           /\ (x \div 4) \div 2 = x \div 8
           /\ (x \div 8) \div 2 = x \div 16
           /\ (x \div 16) \div 2 = x \div 32
           /\ (x \div 32) \div 2 = x \div 64
           /\ (x \div 64) \div 2 = x \div 128
<1>1. /\ x \in Nat /\ x \div 2 \in Nat /\ x \div 4 \in Nat /\ x \div 8 \in Nat
      /\ x \div 16 \in Nat /\ x \div 32 \in Nat /\ x \div 64 \in Nat
  BY DEF Byte
<1>2. (x \div 2) \div 2 = x \div 4
  BY DEF Byte
<1>3. (x \div 4) \div 2 = x \div 8
  BY DEF Byte
<1>4. (x \div 8) \div 2 = x \div 16
  BY DEF Byte
<1>5. (x \div 16) \div 2 = x \div 32
  BY DEF Byte
<1>6. (x \div 32) \div 2 = x \div 64
  BY DEF Byte
<1>7. (x \div 64) \div 2 = x \div 128
  BY DEF Byte
<1> QED
  BY <1>1, <1>2, <1>3, <1>4, <1>5, <1>6, <1>7

(* Two numbers are the same when their halves and their last bits are.      *)
LEMMA Halving == \A s, t \in Nat : s = t <=> s \div 2 = t \div 2 /\ s % 2 = t % 2
  OBVIOUS

(* The first bits of two bytes are the same when what they shift down to is. *)
LEMMA TopBits ==
    ASSUME NEW x \in Byte, NEW y \in Byte
    PROVE  /\ (\A k \in 0..0 : BitOf(x, k) = BitOf(y, k)) <=> x \div 128 = y \div 128
           /\ (\A k \in 0..1 : BitOf(x, k) = BitOf(y, k)) <=> x \div 64 = y \div 64
           /\ (\A k \in 0..2 : BitOf(x, k) = BitOf(y, k)) <=> x \div 32 = y \div 32
           /\ (\A k \in 0..3 : BitOf(x, k) = BitOf(y, k)) <=> x \div 16 = y \div 16
           /\ (\A k \in 0..4 : BitOf(x, k) = BitOf(y, k)) <=> x \div 8 = y \div 8
           /\ (\A k \in 0..5 : BitOf(x, k) = BitOf(y, k)) <=> x \div 4 = y \div 4
           /\ (\A k \in 0..6 : BitOf(x, k) = BitOf(y, k)) <=> x \div 2 = y \div 2
           /\ (\A k \in 0..7 : BitOf(x, k) = BitOf(y, k)) <=> x = y
<1>1. /\ BitOf(x, 0) = x \div 128 /\ BitOf(y, 0) = y \div 128
      /\ BitOf(x, 1) = (x \div 64) % 2 /\ BitOf(y, 1) = (y \div 64) % 2
      /\ BitOf(x, 2) = (x \div 32) % 2 /\ BitOf(y, 2) = (y \div 32) % 2
      /\ BitOf(x, 3) = (x \div 16) % 2 /\ BitOf(y, 3) = (y \div 16) % 2
      /\ BitOf(x, 4) = (x \div 8) % 2 /\ BitOf(y, 4) = (y \div 8) % 2
      /\ BitOf(x, 5) = (x \div 4) % 2 /\ BitOf(y, 5) = (y \div 4) % 2
      /\ BitOf(x, 6) = (x \div 2) % 2 /\ BitOf(y, 6) = (y \div 2) % 2
      /\ BitOf(x, 7) = x % 2 /\ BitOf(y, 7) = y % 2
  BY Halves
<1>2. (\A k \in 0..0 : BitOf(x, k) = BitOf(y, k)) <=> x \div 128 = y \div 128
  BY <1>1
<1>3. (\A k \in 0..1 : BitOf(x, k) = BitOf(y, k)) <=> x \div 64 = y \div 64
  <2>1. (\A k \in 0..1 : BitOf(x, k) = BitOf(y, k)) <=>
        (\A k \in 0..0 : BitOf(x, k) = BitOf(y, k)) /\ BitOf(x, 1) = BitOf(y, 1)
    OBVIOUS
  <2>2. x \div 64 = y \div 64 <=> x \div 128 = y \div 128 /\ (x \div 64) % 2 = (y \div 64) % 2
    BY Halving, Shifted
  <2> QED
    BY <1>1, <1>2, <2>1, <2>2
<1>4. (\A k \in 0..2 : BitOf(x, k) = BitOf(y, k)) <=> x \div 32 = y \div 32
  <2>1. (\A k \in 0..2 : BitOf(x, k) = BitOf(y, k)) <=>
        (\A k \in 0..1 : BitOf(x, k) = BitOf(y, k)) /\ BitOf(x, 2) = BitOf(y, 2)
    OBVIOUS
  <2>2. x \div 32 = y \div 32 <=> x \div 64 = y \div 64 /\ (x \div 32) % 2 = (y \div 32) % 2
    BY Halving, Shifted
  <2> QED
    BY <1>1, <1>3, <2>1, <2>2
<1>5. (\A k \in 0..3 : BitOf(x, k) = BitOf(y, k)) <=> x \div 16 = y \div 16
  <2>1. (\A k \in 0..3 : BitOf(x, k) = BitOf(y, k)) <=>
        (\A k \in 0..2 : BitOf(x, k) = BitOf(y, k)) /\ BitOf(x, 3) = BitOf(y, 3)
    OBVIOUS
  <2>2. x \div 16 = y \div 16 <=> x \div 32 = y \div 32 /\ (x \div 16) % 2 = (y \div 16) % 2
    BY Halving, Shifted
  <2> QED
    BY <1>1, <1>4, <2>1, <2>2
<1>6. (\A k \in 0..4 : BitOf(x, k) = BitOf(y, k)) <=> x \div 8 = y \div 8
  <2>1. (\A k \in 0..4 : BitOf(x, k) = BitOf(y, k)) <=>
        (\A k \in 0..3 : BitOf(x, k) = BitOf(y, k)) /\ BitOf(x, 4) = BitOf(y, 4)
    OBVIOUS
  <2>2. x \div 8 = y \div 8 <=> x \div 16 = y \div 16 /\ (x \div 8) % 2 = (y \div 8) % 2
    BY Halving, Shifted
  <2> QED
    BY <1>1, <1>5, <2>1, <2>2
<1>7. (\A k \in 0..5 : BitOf(x, k) = BitOf(y, k)) <=> x \div 4 = y \div 4
  <2>1. (\A k \in 0..5 : BitOf(x, k) = BitOf(y, k)) <=>
        (\A k \in 0..4 : BitOf(x, k) = BitOf(y, k)) /\ BitOf(x, 5) = BitOf(y, 5)
    OBVIOUS
  <2>2. x \div 4 = y \div 4 <=> x \div 8 = y \div 8 /\ (x \div 4) % 2 = (y \div 4) % 2
    BY Halving, Shifted
  <2> QED
    BY <1>1, <1>6, <2>1, <2>2
<1>8. (\A k \in 0..6 : BitOf(x, k) = BitOf(y, k)) <=> x \div 2 = y \div 2
  <2>1. (\A k \in 0..6 : BitOf(x, k) = BitOf(y, k)) <=>
        (\A k \in 0..5 : BitOf(x, k) = BitOf(y, k)) /\ BitOf(x, 6) = BitOf(y, 6)
    OBVIOUS
  <2>2. x \div 2 = y \div 2 <=> x \div 4 = y \div 4 /\ (x \div 2) % 2 = (y \div 2) % 2
    BY Halving, Shifted
  <2> QED
    BY <1>1, <1>7, <2>1, <2>2
<1>9. (\A k \in 0..7 : BitOf(x, k) = BitOf(y, k)) <=> x = y
  <2>1. (\A k \in 0..7 : BitOf(x, k) = BitOf(y, k)) <=>
        (\A k \in 0..6 : BitOf(x, k) = BitOf(y, k)) /\ BitOf(x, 7) = BitOf(y, 7)
    OBVIOUS
  <2>2. x = y <=> x \div 2 = y \div 2 /\ x % 2 = y % 2
    BY Halving, Shifted
  <2> QED
    BY <1>1, <1>8, <2>1, <2>2
<1> QED
  BY <1>2, <1>3, <1>4, <1>5, <1>6, <1>7, <1>8, <1>9

BitsPrefixed(bytes, base, p) ==
    /\ \A m \in 1..(p \div 8) : \A k \in 0..7 : BitOf(bytes[m], k) = BitOf(base[m], k)
    /\ \A k \in 0..((p % 8) - 1) : BitOf(bytes[(p \div 8) + 1], k) = BitOf(base[(p \div 8) + 1], k)

(* A prefix is its whole bytes and the first bits of the one after them.    *)
LEMMA PrefixIs ==
    ASSUME NEW bytes, NEW base, NEW p \in Nat
    PROVE  Within(bytes, Block(base, p)) <=> BitsPrefixed(bytes, base, p)
<1> DEFINE j == p \div 8
           r == p % 8
<1>0. j \in Nat /\ r \in 0..7 /\ p = 8 * j + r
  OBVIOUS
<1> HIDE DEF j, r
<1> DEFINE bits == \A i \in 0..(8 * j + r - 1) : Bit(bytes, i) = Bit(base, i)
           whole == \A m \in 1..j : \A k \in 0..7 : BitOf(bytes[m], k) = BitOf(base[m], k)
           rest == \A k \in 0..(r - 1) : BitOf(bytes[j + 1], k) = BitOf(base[j + 1], k)
<1>1. Within(bytes, Block(base, p)) <=> bits
  BY <1>0 DEF Within, Block
<1>2. ASSUME bits PROVE whole /\ rest
  <2>1. ASSUME NEW m \in 1..j, NEW k \in 0..7 PROVE BitOf(bytes[m], k) = BitOf(base[m], k)
    <3>1. m - 1 \in Nat /\ 8 * (m - 1) + k \in 0..(8 * j + r - 1) /\ (m - 1) + 1 = m
      BY <1>0
    <3>2. Bit(bytes, 8 * (m - 1) + k) = Bit(base, 8 * (m - 1) + k)
      BY <1>2, <3>1
    <3>3. \A x : Bit(x, 8 * (m - 1) + k) = BitOf(x[(m - 1) + 1], k)
      BY <3>1, BitIs
    <3> QED
      BY <3>1, <3>2, <3>3
  <2>2. ASSUME NEW k \in 0..(r - 1) PROVE BitOf(bytes[j + 1], k) = BitOf(base[j + 1], k)
    <3>1. k \in 0..7 /\ 8 * j + k \in 0..(8 * j + r - 1)
      BY <1>0
    <3>2. Bit(bytes, 8 * j + k) = Bit(base, 8 * j + k)
      BY <1>2, <3>1
    <3> QED
      BY <3>1, <3>2, BitIs, <1>0
  <2> QED
    BY <2>1, <2>2
<1>3. ASSUME whole, rest PROVE bits
  <2> SUFFICES ASSUME NEW i \in 0..(8 * j + r - 1) PROVE Bit(bytes, i) = Bit(base, i)
    OBVIOUS
  <2> DEFINE m == i \div 8
             k == i % 8
  <2>1. m \in Nat /\ k \in 0..7 /\ i = 8 * m + k
    BY <1>0
  <2>2. (m + 1 \in 1..j) \/ (m = j /\ k \in 0..(r - 1))
    BY <2>1, <1>0
  <2>3. Bit(bytes, i) = BitOf(bytes[m + 1], k) /\ Bit(base, i) = BitOf(base[m + 1], k)
    BY <2>1, BitIs
  <2> HIDE DEF m, k
  <2>4. BitOf(bytes[m + 1], k) = BitOf(base[m + 1], k)
    BY <2>1, <2>2, <1>3
  <2> QED
    BY <2>3, <2>4
<1> QED
  BY <1>1, <1>2, <1>3 DEF j, r, BitsPrefixed

(* An address has a block's prefix when its whole bytes are the block's and *)
(* so are the first bits of the one after them.                             *)
LEMMA WithinIs ==
    ASSUME NEW n \in Nat, NEW a \in [1..n -> Byte], NEW b \in [1..n -> Byte], NEW p \in 0..(8 * n)
    PROVE  Within(a, Block(b, p)) <=>
           /\ \A m \in 1..(p \div 8) : a[m] = b[m]
           /\ \A k \in 0..((p % 8) - 1) : BitOf(a[(p \div 8) + 1], k) = BitOf(b[(p \div 8) + 1], k)
<1> DEFINE j == p \div 8
           r == p % 8
<1>1. j \in 0..n
  <2>1. p \in Nat /\ p <= 8 * n
    OBVIOUS
  <2>2. p \div 8 \in Nat /\ p % 8 \in 0..7 /\ p = 8 * (p \div 8) + (p % 8)
    BY <2>1
  <2>3. \A q, e \in Nat : 8 * q + e <= 8 * n => q <= n
    OBVIOUS
  <2> QED
    BY <2>1, <2>2, <2>3
<1>2. Within(a, Block(b, p)) <=>
      /\ \A m \in 1..j : \A k \in 0..7 : BitOf(a[m], k) = BitOf(b[m], k)
      /\ \A k \in 0..(r - 1) : BitOf(a[j + 1], k) = BitOf(b[j + 1], k)
  <2>1. p \in Nat
    OBVIOUS
  <2>2. Within(a, Block(b, p)) <=> BitsPrefixed(a, b, p)
    BY <2>1, PrefixIs
  <2> QED
    BY <2>2 DEF BitsPrefixed
<1> HIDE DEF j, r
<1>3. \A m \in 1..j : a[m] \in Byte /\ b[m] \in Byte
  BY <1>1
<1>4. \A m \in 1..j : (\A k \in 0..7 : BitOf(a[m], k) = BitOf(b[m], k)) <=> a[m] = b[m]
  BY <1>3, TopBits
<1>5. (\A m \in 1..j : \A k \in 0..7 : BitOf(a[m], k) = BitOf(b[m], k)) <=> \A m \in 1..j : a[m] = b[m]
  BY <1>4
<1> QED
  BY <1>2, <1>5 DEF j, r

(* The padding.                                                             *)
LEMMA ZerosIs == ASSUME NEW n \in Nat
                 PROVE  Zeros(n) \in Seq(Byte) /\ Len(Zeros(n)) = n /\ \A i \in 1..n : Zeros(n)[i] = 0
<1>1. Zeros(n) \in [1..n -> Byte] /\ \A i \in 1..n : Zeros(n)[i] = 0
  BY DEF Zeros, Byte
<1> QED
  BY <1>1

(* A padded sequence is itself and then zeros.                              *)
LEMMA PaddedIs ==
    ASSUME NEW n \in Nat, NEW s \in Seq(Byte), Len(s) <= n
    PROVE  /\ Padded(s, n) \in [1..n -> Byte]
           /\ \A i \in 1..n : Padded(s, n)[i] = IF i <= Len(s) THEN s[i] ELSE 0
<1> DEFINE m == n - Len(s)
           z == Zeros(m)
<1>1. m \in Nat
  OBVIOUS
<1> HIDE DEF m
<1>3. z \in Seq(Byte) /\ Len(z) = m /\ \A i \in 1..m : z[i] = 0
  BY <1>1, ZerosIs
<1> HIDE DEF z
<1>4. s \o z \in Seq(Byte) /\ Len(s \o z) = Len(s) + Len(z)
      /\ \A i \in 1..(Len(s) + Len(z)) : (s \o z)[i] = IF i <= Len(s) THEN s[i] ELSE z[i - Len(s)]
  BY <1>3, ConcatProperties
<1>5. Len(s) + Len(z) = n /\ Len(s) \in Nat
  BY <1>3 DEF m
<1>6. s \o z \in [1..n -> Byte]
  BY <1>4, <1>5, LenProperties
<1>7. \A i \in 1..n : (s \o z)[i] = IF i <= Len(s) THEN s[i] ELSE 0
  <2> SUFFICES ASSUME NEW i \in 1..n PROVE (s \o z)[i] = IF i <= Len(s) THEN s[i] ELSE 0
    OBVIOUS
  <2>1. (s \o z)[i] = IF i <= Len(s) THEN s[i] ELSE z[i - Len(s)]
    BY <1>4, <1>5
  <2>2. i > Len(s) => i - Len(s) \in 1..m
    BY <1>5 DEF m
  <2> QED
    BY <2>1, <2>2, <1>3, <1>5
<1> QED
  BY <1>6, <1>7 DEF Padded, z, m

(* The two, of an IPv4 address.                                             *)
(* An IPv4 block's base begins with the bytes it is written with.           *)
LEMMA Base4 ==
    ASSUME NEW s \in Seq(Byte), Len(s) <= 4
    PROVE  /\ Padded(s, 4) \in [1..4 -> Byte]
           /\ \A i \in 1..Len(s) : Padded(s, 4)[i] = s[i]
<1> DEFINE n == 4
<1>1. n \in Nat /\ Len(s) <= n
  OBVIOUS
<1>2. \A i \in 1..Len(s) : i \in 1..n /\ i <= Len(s)
  OBVIOUS
<1> HIDE DEF n
<1>3. /\ Padded(s, n) \in [1..n -> Byte]
      /\ \A i \in 1..n : Padded(s, n)[i] = IF i <= Len(s) THEN s[i] ELSE 0
  BY <1>1, PaddedIs
<1>4. \A i \in 1..Len(s) : Padded(s, n)[i] = s[i]
  BY <1>2, <1>3
<1> QED
  BY <1>3, <1>4 DEF n

(* An IPv4 address has a block's prefix when its whole bytes are the        *)
(* block's and so are the first bits of the one after them.                 *)
LEMMA Within4 ==
    ASSUME NEW a \in [1..4 -> Byte], NEW b \in [1..4 -> Byte], NEW p \in 0..32
    PROVE  Within(a, Block(b, p)) <=>
           /\ \A m \in 1..(p \div 8) : a[m] = b[m]
           /\ \A k \in 0..((p % 8) - 1) : BitOf(a[(p \div 8) + 1], k) = BitOf(b[(p \div 8) + 1], k)
<1> DEFINE n == 4
<1>1. n \in Nat /\ p \in 0..(8 * n)
  OBVIOUS
<1>2. a \in [1..n -> Byte] /\ b \in [1..n -> Byte]
  OBVIOUS
<1> HIDE DEF n
<1> QED
  BY <1>1, <1>2, WithinIs

(* The block's bytes, when those it is written with are all of its prefix   *)
(* or the last of them is cut by it.                                        *)
LEMMA Written4 ==
    ASSUME NEW a \in [1..4 -> Byte], NEW s \in Seq(Byte), NEW p \in 0..32, Len(s) <= 4,
           8 * Len(s) >= p
    PROVE  Within(a, Block4(s, p)) <=>
           /\ \A m \in 1..(p \div 8) : a[m] = s[m]
           /\ \A k \in 0..((p % 8) - 1) : BitOf(a[(p \div 8) + 1], k) = BitOf(s[(p \div 8) + 1], k)
<1> DEFINE b == Padded(s, 4)
           j == p \div 8
           r == p % 8
<1>1. b \in [1..4 -> Byte] /\ \A i \in 1..Len(s) : b[i] = s[i]
  BY Base4, Zenon
<1>2. Block4(s, p) = Block(b, p)
  BY DEF Block4
<1> HIDE DEF b
<1>3. Within(a, Block(b, p)) <=>
      (\A m \in 1..j : a[m] = b[m]) /\ \A k \in 0..(r - 1) : BitOf(a[j + 1], k) = BitOf(b[j + 1], k)
  BY <1>1, Within4
<1>4. j \in Nat /\ r \in 0..7 /\ j <= Len(s) /\ (r > 0 => j + 1 <= Len(s))
  OBVIOUS
<1> HIDE DEF j, r
<1>5. \A m \in 1..j : b[m] = s[m]
  BY <1>1, <1>4
<1>6. \A k \in 0..(r - 1) : b[j + 1] = s[j + 1]
  BY <1>1, <1>4
<1> QED
  BY <1>2, <1>3, <1>5, <1>6 DEF j, r

(* The IPv4 blocks of each length, by the bytes they fix.                   *)
ReadsBlocks(a) ==
    /\ \A x \in Byte : Within(a, Block4(<<x>>, 4)) <=> a[1] \div 16 = x \div 16
    /\ \A x \in Byte : Within(a, Block4(<<x>>, 8)) <=> a[1] = x
    /\ \A x, y \in Byte : Within(a, Block4(<<x, y>>, 10)) <=> a[1] = x /\ a[2] \div 64 = y \div 64
    /\ \A x, y \in Byte : Within(a, Block4(<<x, y>>, 12)) <=> a[1] = x /\ a[2] \div 16 = y \div 16
    /\ \A x, y \in Byte : Within(a, Block4(<<x, y>>, 15)) <=> a[1] = x /\ a[2] \div 2 = y \div 2
    /\ \A x, y \in Byte : Within(a, Block4(<<x, y>>, 16)) <=> a[1] = x /\ a[2] = y
    /\ \A x, y, z \in Byte : Within(a, Block4(<<x, y, z>>, 24)) <=> a[1] = x /\ a[2] = y /\ a[3] = z

LEMMA Lengths4 == ASSUME NEW a \in [1..4 -> Byte] PROVE ReadsBlocks(a)
<1>1. a[1] \in Byte /\ a[2] \in Byte
  OBVIOUS
<1>2. ASSUME NEW x \in Byte
      PROVE  Within(a, Block4(<<x>>, 4)) <=> a[1] \div 16 = x \div 16
  <2> DEFINE s == <<x>>
  <2>1. s \in Seq(Byte) /\ Len(s) = 1 /\ s[1] = x
    OBVIOUS
  <2> HIDE DEF s
  <2>2. 4 \in 0..32 /\ Len(s) <= 4 /\ 8 * Len(s) >= 4
    BY <2>1
  <2>3. Within(a, Block4(s, 4)) <=>
        /\ \A m \in 1..(4 \div 8) : a[m] = s[m]
        /\ \A k \in 0..((4 % 8) - 1) : BitOf(a[(4 \div 8) + 1], k) = BitOf(s[(4 \div 8) + 1], k)
    BY <2>1, <2>2, Written4, Zenon
  <2>4. (\A k \in 0..3 : BitOf(a[1], k) = BitOf(x, k)) <=> a[1] \div 16 = x \div 16
    BY <1>1, TopBits
  <2> QED
    BY <2>1, <2>3, <2>4 DEF s
<1>3. ASSUME NEW x \in Byte
      PROVE  Within(a, Block4(<<x>>, 8)) <=> a[1] = x
  <2> DEFINE s == <<x>>
  <2>1. s \in Seq(Byte) /\ Len(s) = 1 /\ s[1] = x
    OBVIOUS
  <2> HIDE DEF s
  <2>2. 8 \in 0..32 /\ Len(s) <= 4 /\ 8 * Len(s) >= 8
    BY <2>1
  <2>3. Within(a, Block4(s, 8)) <=>
        /\ \A m \in 1..(8 \div 8) : a[m] = s[m]
        /\ \A k \in 0..((8 % 8) - 1) : BitOf(a[(8 \div 8) + 1], k) = BitOf(s[(8 \div 8) + 1], k)
    BY <2>1, <2>2, Written4, Zenon
  <2> QED
    BY <2>1, <2>3 DEF s
<1>4. ASSUME NEW x \in Byte, NEW y \in Byte
      PROVE  Within(a, Block4(<<x, y>>, 10)) <=> a[1] = x /\ a[2] \div 64 = y \div 64
  <2> DEFINE s == <<x, y>>
  <2>1. s \in Seq(Byte) /\ Len(s) = 2 /\ s[1] = x /\ s[2] = y
    OBVIOUS
  <2> HIDE DEF s
  <2>2. 10 \in 0..32 /\ Len(s) <= 4 /\ 8 * Len(s) >= 10
    BY <2>1
  <2>3. Within(a, Block4(s, 10)) <=>
        /\ \A m \in 1..(10 \div 8) : a[m] = s[m]
        /\ \A k \in 0..((10 % 8) - 1) : BitOf(a[(10 \div 8) + 1], k) = BitOf(s[(10 \div 8) + 1], k)
    BY <2>1, <2>2, Written4, Zenon
  <2>4. (\A k \in 0..1 : BitOf(a[2], k) = BitOf(y, k)) <=> a[2] \div 64 = y \div 64
    BY <1>1, TopBits
  <2> QED
    BY <2>1, <2>3, <2>4 DEF s
<1>5. ASSUME NEW x \in Byte, NEW y \in Byte
      PROVE  Within(a, Block4(<<x, y>>, 12)) <=> a[1] = x /\ a[2] \div 16 = y \div 16
  <2> DEFINE s == <<x, y>>
  <2>1. s \in Seq(Byte) /\ Len(s) = 2 /\ s[1] = x /\ s[2] = y
    OBVIOUS
  <2> HIDE DEF s
  <2>2. 12 \in 0..32 /\ Len(s) <= 4 /\ 8 * Len(s) >= 12
    BY <2>1
  <2>3. Within(a, Block4(s, 12)) <=>
        /\ \A m \in 1..(12 \div 8) : a[m] = s[m]
        /\ \A k \in 0..((12 % 8) - 1) : BitOf(a[(12 \div 8) + 1], k) = BitOf(s[(12 \div 8) + 1], k)
    BY <2>1, <2>2, Written4, Zenon
  <2>4. (\A k \in 0..3 : BitOf(a[2], k) = BitOf(y, k)) <=> a[2] \div 16 = y \div 16
    BY <1>1, TopBits
  <2> QED
    BY <2>1, <2>3, <2>4 DEF s
<1>6. ASSUME NEW x \in Byte, NEW y \in Byte
      PROVE  Within(a, Block4(<<x, y>>, 15)) <=> a[1] = x /\ a[2] \div 2 = y \div 2
  <2> DEFINE s == <<x, y>>
  <2>1. s \in Seq(Byte) /\ Len(s) = 2 /\ s[1] = x /\ s[2] = y
    OBVIOUS
  <2> HIDE DEF s
  <2>2. 15 \in 0..32 /\ Len(s) <= 4 /\ 8 * Len(s) >= 15
    BY <2>1
  <2>3. Within(a, Block4(s, 15)) <=>
        /\ \A m \in 1..(15 \div 8) : a[m] = s[m]
        /\ \A k \in 0..((15 % 8) - 1) : BitOf(a[(15 \div 8) + 1], k) = BitOf(s[(15 \div 8) + 1], k)
    BY <2>1, <2>2, Written4, Zenon
  <2>4. (\A k \in 0..6 : BitOf(a[2], k) = BitOf(y, k)) <=> a[2] \div 2 = y \div 2
    BY <1>1, TopBits
  <2> QED
    BY <2>1, <2>3, <2>4 DEF s
<1>7. ASSUME NEW x \in Byte, NEW y \in Byte
      PROVE  Within(a, Block4(<<x, y>>, 16)) <=> a[1] = x /\ a[2] = y
  <2> DEFINE s == <<x, y>>
  <2>1. s \in Seq(Byte) /\ Len(s) = 2 /\ s[1] = x /\ s[2] = y
    OBVIOUS
  <2> HIDE DEF s
  <2>2. 16 \in 0..32 /\ Len(s) <= 4 /\ 8 * Len(s) >= 16
    BY <2>1
  <2>3. Within(a, Block4(s, 16)) <=>
        /\ \A m \in 1..(16 \div 8) : a[m] = s[m]
        /\ \A k \in 0..((16 % 8) - 1) : BitOf(a[(16 \div 8) + 1], k) = BitOf(s[(16 \div 8) + 1], k)
    BY <2>1, <2>2, Written4, Zenon
  <2> QED
    BY <2>1, <2>3 DEF s
<1>8. ASSUME NEW x \in Byte, NEW y \in Byte, NEW z \in Byte
      PROVE  Within(a, Block4(<<x, y, z>>, 24)) <=> a[1] = x /\ a[2] = y /\ a[3] = z
  <2> DEFINE s == <<x, y, z>>
  <2>1. s \in Seq(Byte) /\ Len(s) = 3 /\ s[1] = x /\ s[2] = y /\ s[3] = z
    OBVIOUS
  <2> HIDE DEF s
  <2>2. 24 \in 0..32 /\ Len(s) <= 4 /\ 8 * Len(s) >= 24
    BY <2>1
  <2>3. Within(a, Block4(s, 24)) <=>
        /\ \A m \in 1..(24 \div 8) : a[m] = s[m]
        /\ \A k \in 0..((24 % 8) - 1) : BitOf(a[(24 \div 8) + 1], k) = BitOf(s[(24 \div 8) + 1], k)
    BY <2>1, <2>2, Written4, Zenon
  <2> QED
    BY <2>1, <2>3 DEF s
<1> QED
  BY <1>2, <1>3, <1>4, <1>5, <1>6, <1>7, <1>8 DEF ReadsBlocks

(* The first byte that differs decides.                                     *)
LEMMA Order4 ==
    ASSUME NEW a \in [1..4 -> Byte], NEW b \in [1..4 -> Byte]
    PROVE  NoLater(a, b) <=>
           \/ a[1] < b[1]
           \/ a[1] = b[1] /\ a[2] < b[2]
           \/ a[1] = b[1] /\ a[2] = b[2] /\ a[3] < b[3]
           \/ a[1] = b[1] /\ a[2] = b[2] /\ a[3] = b[3] /\ a[4] <= b[4]
<1>1. a = b <=> a[1] = b[1] /\ a[2] = b[2] /\ a[3] = b[3] /\ a[4] = b[4]
  <2>1. a = b <=> \A i \in 1..4 : a[i] = b[i]
    OBVIOUS
  <2> QED
    BY <2>1
<1>2. DOMAIN a = 1..4 /\ \A i \in 1..4 : a[i] \in Int /\ b[i] \in Int
  BY DEF Byte
<1>3. (\E i \in DOMAIN a : a[i] < b[i] /\ \A k \in 1..(i - 1) : a[k] = b[k]) <=>
      \/ a[1] < b[1]
      \/ a[1] = b[1] /\ a[2] < b[2]
      \/ a[1] = b[1] /\ a[2] = b[2] /\ a[3] < b[3]
      \/ a[1] = b[1] /\ a[2] = b[2] /\ a[3] = b[3] /\ a[4] < b[4]
  <2> DEFINE first(i) == a[i] < b[i] /\ \A k \in 1..(i - 1) : a[k] = b[k]
  <2>1. (\E i \in DOMAIN a : first(i)) <=> first(1) \/ first(2) \/ first(3) \/ first(4)
    BY <1>2
  <2>2. first(1) <=> a[1] < b[1]
    OBVIOUS
  <2>3. first(2) <=> a[1] = b[1] /\ a[2] < b[2]
    OBVIOUS
  <2>4. first(3) <=> a[1] = b[1] /\ a[2] = b[2] /\ a[3] < b[3]
    OBVIOUS
  <2>5. first(4) <=> a[1] = b[1] /\ a[2] = b[2] /\ a[3] = b[3] /\ a[4] < b[4]
    OBVIOUS
  <2> QED
    BY <2>1, <2>2, <2>3, <2>4, <2>5
<1> QED
  BY <1>1, <1>2, <1>3 DEF NoLater

(* The IPv4 ranges, by the bytes they fix.                                  *)
ReadsRanges(a) ==
    /\ \A x, y \in Byte : InRange(a, From(<<x, 0, 0, 0>>, <<y, 255, 255, 255>>)) <=> a[1] >= x /\ a[1] <= y
    /\ \A x, y, z \in Byte :
          InRange(a, From(<<x, y, 0, 0>>, <<x, z, 255, 255>>)) <=> a[1] = x /\ a[2] >= y /\ a[2] <= z
    /\ \A x, y, z \in Byte :
          InRange(a, From(<<x, y, z, 0>>, <<x, y, z, 255>>)) <=> a[1] = x /\ a[2] = y /\ a[3] = z

LEMMA Spans4 == ASSUME NEW a \in [1..4 -> Byte] PROVE ReadsRanges(a)
<1>1. ASSUME NEW x \in Byte, NEW y \in Byte
      PROVE  InRange(a, From(<<x, 0, 0, 0>>, <<y, 255, 255, 255>>)) <=> a[1] >= x /\ a[1] <= y
  <2>0. (\A i \in 1..4 : a[i] \in 0..255) /\ x \in 0..255 /\ y \in 0..255
    BY DEF Byte
  <2> DEFINE first == <<x, 0, 0, 0>>
             last == <<y, 255, 255, 255>>
  <2>1. first \in [1..4 -> Byte] /\ last \in [1..4 -> Byte]
    BY DEF Byte
  <2>2. /\ first[1] = x /\ first[2] = 0 /\ first[3] = 0 /\ first[4] = 0
        /\ last[1] = y /\ last[2] = 255 /\ last[3] = 255 /\ last[4] = 255
    OBVIOUS
  <2>3. InRange(a, From(first, last)) <=> NoLater(first, a) /\ NoLater(a, last)
    BY DEF InRange, From
  <2> HIDE DEF first, last
  <2>4. InRange(a, From(first, last)) <=> a[1] >= x /\ a[1] <= y
    BY <2>0, <2>1, <2>2, <2>3, Order4
  <2> QED
    BY <2>4 DEF first, last
<1>2. ASSUME NEW x \in Byte, NEW y \in Byte, NEW z \in Byte
      PROVE  InRange(a, From(<<x, y, 0, 0>>, <<x, z, 255, 255>>)) <=> a[1] = x /\ a[2] >= y /\ a[2] <= z
  <2>0. (\A i \in 1..4 : a[i] \in 0..255) /\ x \in 0..255 /\ y \in 0..255 /\ z \in 0..255
    BY DEF Byte
  <2> DEFINE first == <<x, y, 0, 0>>
             last == <<x, z, 255, 255>>
  <2>1. first \in [1..4 -> Byte] /\ last \in [1..4 -> Byte]
    BY DEF Byte
  <2>2. /\ first[1] = x /\ first[2] = y /\ first[3] = 0 /\ first[4] = 0
        /\ last[1] = x /\ last[2] = z /\ last[3] = 255 /\ last[4] = 255
    OBVIOUS
  <2>3. InRange(a, From(first, last)) <=> NoLater(first, a) /\ NoLater(a, last)
    BY DEF InRange, From
  <2> HIDE DEF first, last
  <2>4. InRange(a, From(first, last)) <=> a[1] = x /\ a[2] >= y /\ a[2] <= z
    BY <2>0, <2>1, <2>2, <2>3, Order4
  <2> QED
    BY <2>4 DEF first, last
<1>3. ASSUME NEW x \in Byte, NEW y \in Byte, NEW z \in Byte
      PROVE  InRange(a, From(<<x, y, z, 0>>, <<x, y, z, 255>>)) <=> a[1] = x /\ a[2] = y /\ a[3] = z
  <2>0. (\A i \in 1..4 : a[i] \in 0..255) /\ x \in 0..255 /\ y \in 0..255 /\ z \in 0..255
    BY DEF Byte
  <2> DEFINE first == <<x, y, z, 0>>
             last == <<x, y, z, 255>>
  <2>1. first \in [1..4 -> Byte] /\ last \in [1..4 -> Byte]
    BY DEF Byte
  <2>2. /\ first[1] = x /\ first[2] = y /\ first[3] = z /\ first[4] = 0
        /\ last[1] = x /\ last[2] = y /\ last[3] = z /\ last[4] = 255
    OBVIOUS
  <2>3. InRange(a, From(first, last)) <=> NoLater(first, a) /\ NoLater(a, last)
    BY DEF InRange, From
  <2> HIDE DEF first, last
  <2>4. InRange(a, From(first, last)) <=> a[1] = x /\ a[2] = y /\ a[3] = z
    BY <2>0, <2>1, <2>2, <2>3, Order4
  <2> QED
    BY <2>4 DEF first, last
<1> QED
  BY <1>1, <1>2, <1>3 DEF ReadsRanges

(* IPv4: the blocks are the ranges.                                         *)
LEMMA Judged4 ==
    ASSUME NEW a \in [1..4 -> Byte]
    PROVE  IsPublic4(a) <=> ~\E range \in Special4 : InRange(a, range)
<1>1. IsPublic4(a) <=> ~(\/ Within(a, Block4(<<0>>, 8))
                         \/ Within(a, Block4(<<10>>, 8))
                         \/ Within(a, Block4(<<100, 64>>, 10))
                         \/ Within(a, Block4(<<127>>, 8))
                         \/ Within(a, Block4(<<169, 254>>, 16))
                         \/ Within(a, Block4(<<172, 16>>, 12))
                         \/ Within(a, Block4(<<192, 0, 0>>, 24))
                         \/ Within(a, Block4(<<192, 0, 2>>, 24))
                         \/ Within(a, Block4(<<192, 88, 99>>, 24))
                         \/ Within(a, Block4(<<192, 168>>, 16))
                         \/ Within(a, Block4(<<198, 18>>, 15))
                         \/ Within(a, Block4(<<198, 51, 100>>, 24))
                         \/ Within(a, Block4(<<203, 0, 113>>, 24))
                         \/ Within(a, Block4(<<224>>, 4))
                         \/ Within(a, Block4(<<240>>, 4)))
  BY DEF IsPublic4, V4NotPublic
<1>2. (\E range \in Special4 : InRange(a, range)) <=>
      \/ InRange(a, From(<<0, 0, 0, 0>>, <<0, 255, 255, 255>>))
      \/ InRange(a, From(<<10, 0, 0, 0>>, <<10, 255, 255, 255>>))
      \/ InRange(a, From(<<100, 64, 0, 0>>, <<100, 127, 255, 255>>))
      \/ InRange(a, From(<<127, 0, 0, 0>>, <<127, 255, 255, 255>>))
      \/ InRange(a, From(<<169, 254, 0, 0>>, <<169, 254, 255, 255>>))
      \/ InRange(a, From(<<172, 16, 0, 0>>, <<172, 31, 255, 255>>))
      \/ InRange(a, From(<<192, 0, 0, 0>>, <<192, 0, 0, 255>>))
      \/ InRange(a, From(<<192, 0, 2, 0>>, <<192, 0, 2, 255>>))
      \/ InRange(a, From(<<192, 88, 99, 0>>, <<192, 88, 99, 255>>))
      \/ InRange(a, From(<<192, 168, 0, 0>>, <<192, 168, 255, 255>>))
      \/ InRange(a, From(<<198, 18, 0, 0>>, <<198, 19, 255, 255>>))
      \/ InRange(a, From(<<198, 51, 100, 0>>, <<198, 51, 100, 255>>))
      \/ InRange(a, From(<<203, 0, 113, 0>>, <<203, 0, 113, 255>>))
      \/ InRange(a, From(<<224, 0, 0, 0>>, <<255, 255, 255, 255>>))
  BY DEF Special4
<1>3. \A i \in 1..4 : a[i] \in 0..255
  BY DEF Byte
<1>4. ReadsBlocks(a) /\ ReadsRanges(a)
  BY Lengths4, Spans4
<1>5. IsPublic4(a) <=> ~(\/ a[1] = 0
                         \/ a[1] = 10
                         \/ a[1] = 100 /\ a[2] \div 64 = 1
                         \/ a[1] = 127
                         \/ a[1] = 169 /\ a[2] = 254
                         \/ a[1] = 172 /\ a[2] \div 16 = 1
                         \/ a[1] = 192 /\ a[2] = 0 /\ a[3] = 0
                         \/ a[1] = 192 /\ a[2] = 0 /\ a[3] = 2
                         \/ a[1] = 192 /\ a[2] = 88 /\ a[3] = 99
                         \/ a[1] = 192 /\ a[2] = 168
                         \/ a[1] = 198 /\ a[2] \div 2 = 9
                         \/ a[1] = 198 /\ a[2] = 51 /\ a[3] = 100
                         \/ a[1] = 203 /\ a[2] = 0 /\ a[3] = 113
                         \/ a[1] \div 16 = 14
                         \/ a[1] \div 16 = 15)
  <2>0. /\ 0 \in Byte /\ 2 \in Byte /\ 10 \in Byte /\ 16 \in Byte /\ 18 \in Byte /\ 51 \in Byte /\ 64 \in Byte
        /\ 88 \in Byte /\ 99 \in Byte /\ 100 \in Byte /\ 113 \in Byte /\ 127 \in Byte /\ 168 \in Byte /\ 169 \in Byte
        /\ 172 \in Byte /\ 192 \in Byte /\ 198 \in Byte /\ 203 \in Byte /\ 224 \in Byte /\ 240 \in Byte /\ 254 \in Byte
    BY DEF Byte
  <2>1. Within(a, Block4(<<0>>, 8)) <=> a[1] = 0
    BY <1>4, <2>0 DEF ReadsBlocks
  <2>2. Within(a, Block4(<<10>>, 8)) <=> a[1] = 10
    BY <1>4, <2>0 DEF ReadsBlocks
  <2>3. Within(a, Block4(<<100, 64>>, 10)) <=> a[1] = 100 /\ a[2] \div 64 = 64 \div 64
    BY <1>4, <2>0 DEF ReadsBlocks
  <2>4. Within(a, Block4(<<127>>, 8)) <=> a[1] = 127
    BY <1>4, <2>0 DEF ReadsBlocks
  <2>5. Within(a, Block4(<<169, 254>>, 16)) <=> a[1] = 169 /\ a[2] = 254
    BY <1>4, <2>0 DEF ReadsBlocks
  <2>6. Within(a, Block4(<<172, 16>>, 12)) <=> a[1] = 172 /\ a[2] \div 16 = 16 \div 16
    BY <1>4, <2>0 DEF ReadsBlocks
  <2>7. Within(a, Block4(<<192, 0, 0>>, 24)) <=> a[1] = 192 /\ a[2] = 0 /\ a[3] = 0
    BY <1>4, <2>0 DEF ReadsBlocks
  <2>8. Within(a, Block4(<<192, 0, 2>>, 24)) <=> a[1] = 192 /\ a[2] = 0 /\ a[3] = 2
    BY <1>4, <2>0 DEF ReadsBlocks
  <2>9. Within(a, Block4(<<192, 88, 99>>, 24)) <=> a[1] = 192 /\ a[2] = 88 /\ a[3] = 99
    BY <1>4, <2>0 DEF ReadsBlocks
  <2>10. Within(a, Block4(<<192, 168>>, 16)) <=> a[1] = 192 /\ a[2] = 168
    BY <1>4, <2>0 DEF ReadsBlocks
  <2>11. Within(a, Block4(<<198, 18>>, 15)) <=> a[1] = 198 /\ a[2] \div 2 = 18 \div 2
    BY <1>4, <2>0 DEF ReadsBlocks
  <2>12. Within(a, Block4(<<198, 51, 100>>, 24)) <=> a[1] = 198 /\ a[2] = 51 /\ a[3] = 100
    BY <1>4, <2>0 DEF ReadsBlocks
  <2>13. Within(a, Block4(<<203, 0, 113>>, 24)) <=> a[1] = 203 /\ a[2] = 0 /\ a[3] = 113
    BY <1>4, <2>0 DEF ReadsBlocks
  <2>14. Within(a, Block4(<<224>>, 4)) <=> a[1] \div 16 = 224 \div 16
    BY <1>4, <2>0 DEF ReadsBlocks
  <2>15. Within(a, Block4(<<240>>, 4)) <=> a[1] \div 16 = 240 \div 16
    BY <1>4, <2>0 DEF ReadsBlocks
  <2> QED
    BY <1>1, <1>3, <2>1, <2>2, <2>3, <2>4, <2>5, <2>6, <2>7, <2>8, <2>9, <2>10, <2>11, <2>12, <2>13, <2>14, <2>15
<1>6. (\E range \in Special4 : InRange(a, range)) <=>
      \/ a[1] = 0
      \/ a[1] = 10
      \/ a[1] = 100 /\ a[2] >= 64 /\ a[2] <= 127
      \/ a[1] = 127
      \/ a[1] = 169 /\ a[2] = 254
      \/ a[1] = 172 /\ a[2] >= 16 /\ a[2] <= 31
      \/ a[1] = 192 /\ a[2] = 0 /\ a[3] = 0
      \/ a[1] = 192 /\ a[2] = 0 /\ a[3] = 2
      \/ a[1] = 192 /\ a[2] = 88 /\ a[3] = 99
      \/ a[1] = 192 /\ a[2] = 168
      \/ a[1] = 198 /\ a[2] >= 18 /\ a[2] <= 19
      \/ a[1] = 198 /\ a[2] = 51 /\ a[3] = 100
      \/ a[1] = 203 /\ a[2] = 0 /\ a[3] = 113
      \/ a[1] >= 224
  <2>0. /\ 0 \in Byte /\ 2 \in Byte /\ 10 \in Byte /\ 16 \in Byte /\ 18 \in Byte /\ 19 \in Byte /\ 31 \in Byte
        /\ 51 \in Byte /\ 64 \in Byte /\ 88 \in Byte /\ 99 \in Byte /\ 100 \in Byte /\ 113 \in Byte /\ 127 \in Byte
        /\ 168 \in Byte /\ 169 \in Byte /\ 172 \in Byte /\ 192 \in Byte /\ 198 \in Byte /\ 203 \in Byte /\ 224 \in Byte
        /\ 254 \in Byte /\ 255 \in Byte
    BY DEF Byte
  <2>1. InRange(a, From(<<0, 0, 0, 0>>, <<0, 255, 255, 255>>)) <=> a[1] >= 0 /\ a[1] <= 0
    BY <1>4, <2>0 DEF ReadsRanges
  <2>2. InRange(a, From(<<10, 0, 0, 0>>, <<10, 255, 255, 255>>)) <=> a[1] >= 10 /\ a[1] <= 10
    BY <1>4, <2>0 DEF ReadsRanges
  <2>3. InRange(a, From(<<100, 64, 0, 0>>, <<100, 127, 255, 255>>)) <=> a[1] = 100 /\ a[2] >= 64 /\ a[2] <= 127
    BY <1>4, <2>0 DEF ReadsRanges
  <2>4. InRange(a, From(<<127, 0, 0, 0>>, <<127, 255, 255, 255>>)) <=> a[1] >= 127 /\ a[1] <= 127
    BY <1>4, <2>0 DEF ReadsRanges
  <2>5. InRange(a, From(<<169, 254, 0, 0>>, <<169, 254, 255, 255>>)) <=> a[1] = 169 /\ a[2] >= 254 /\ a[2] <= 254
    BY <1>4, <2>0 DEF ReadsRanges
  <2>6. InRange(a, From(<<172, 16, 0, 0>>, <<172, 31, 255, 255>>)) <=> a[1] = 172 /\ a[2] >= 16 /\ a[2] <= 31
    BY <1>4, <2>0 DEF ReadsRanges
  <2>7. InRange(a, From(<<192, 0, 0, 0>>, <<192, 0, 0, 255>>)) <=> a[1] = 192 /\ a[2] = 0 /\ a[3] = 0
    BY <1>4, <2>0 DEF ReadsRanges
  <2>8. InRange(a, From(<<192, 0, 2, 0>>, <<192, 0, 2, 255>>)) <=> a[1] = 192 /\ a[2] = 0 /\ a[3] = 2
    BY <1>4, <2>0 DEF ReadsRanges
  <2>9. InRange(a, From(<<192, 88, 99, 0>>, <<192, 88, 99, 255>>)) <=> a[1] = 192 /\ a[2] = 88 /\ a[3] = 99
    BY <1>4, <2>0 DEF ReadsRanges
  <2>10. InRange(a, From(<<192, 168, 0, 0>>, <<192, 168, 255, 255>>)) <=> a[1] = 192 /\ a[2] >= 168 /\ a[2] <= 168
    BY <1>4, <2>0 DEF ReadsRanges
  <2>11. InRange(a, From(<<198, 18, 0, 0>>, <<198, 19, 255, 255>>)) <=> a[1] = 198 /\ a[2] >= 18 /\ a[2] <= 19
    BY <1>4, <2>0 DEF ReadsRanges
  <2>12. InRange(a, From(<<198, 51, 100, 0>>, <<198, 51, 100, 255>>)) <=> a[1] = 198 /\ a[2] = 51 /\ a[3] = 100
    BY <1>4, <2>0 DEF ReadsRanges
  <2>13. InRange(a, From(<<203, 0, 113, 0>>, <<203, 0, 113, 255>>)) <=> a[1] = 203 /\ a[2] = 0 /\ a[3] = 113
    BY <1>4, <2>0 DEF ReadsRanges
  <2>14. InRange(a, From(<<224, 0, 0, 0>>, <<255, 255, 255, 255>>)) <=> a[1] >= 224 /\ a[1] <= 255
    BY <1>4, <2>0 DEF ReadsRanges
  <2> QED
    BY <1>2, <1>3, <2>1, <2>2, <2>3, <2>4, <2>5, <2>6, <2>7, <2>8, <2>9, <2>10, <2>11, <2>12, <2>13, <2>14
<1>7. /\ a[2] \div 64 = 1 <=> a[2] >= 64 /\ a[2] <= 127
      /\ a[2] \div 16 = 1 <=> a[2] >= 16 /\ a[2] <= 31
      /\ a[2] \div 2 = 9 <=> a[2] >= 18 /\ a[2] <= 19
      /\ a[1] \div 16 = 14 <=> a[1] >= 224 /\ a[1] <= 239
      /\ a[1] \div 16 = 15 <=> a[1] >= 240
  BY <1>3
<1> QED
  BY <1>3, <1>5, <1>6, <1>7

(* A block that fixes the first twelve bytes of an IPv6 address.            *)
LEMMA Within16 ==
    ASSUME NEW a \in [1..16 -> Byte], NEW b \in [1..16 -> Byte]
    PROVE  Within(a, Block(b, 96)) <=> \A m \in 1..12 : a[m] = b[m]
<1> DEFINE n == 16
           p == 96
<1>1. n \in Nat /\ p \in 0..(8 * n) /\ p \div 8 = 12 /\ p % 8 = 0
  OBVIOUS
<1>2. a \in [1..n -> Byte] /\ b \in [1..n -> Byte]
  OBVIOUS
<1> HIDE DEF n, p
<1>3. Within(a, Block(b, p)) <=>
      /\ \A m \in 1..(p \div 8) : a[m] = b[m]
      /\ \A k \in 0..((p % 8) - 1) : BitOf(a[(p \div 8) + 1], k) = BitOf(b[(p \div 8) + 1], k)
  BY <1>1, <1>2, WithinIs
<1>4. Within(a, Block(b, p)) <=> \A m \in 1..12 : a[m] = b[m]
  BY <1>1, <1>3
<1> QED
  BY <1>4 DEF p

(* Two sequences of bytes are the same when each byte is.                   *)
LEMMA SameBytes == ASSUME NEW I, NEW c \in [I -> Byte], NEW d \in [I -> Byte] PROVE d = c <=> \A i \in I : d[i] = c[i]
  OBVIOUS

(* A prefix of twelve bytes, padded, is the block's base.                   *)
LEMMA Carrier ==
    ASSUME NEW a \in [1..16 -> Byte], NEW s \in Seq(Byte), Len(s) <= 12
    PROVE  Within(a, Block6(s, 96)) <=> SubSeq(a, 1, 12) = Padded(s, 12)
<1> DEFINE n == 16
           m == 12
           b == Padded(s, n)
           c == Padded(s, m)
           d == SubSeq(a, 1, m)
<1>1. n \in Nat /\ m \in Nat /\ Len(s) <= n /\ Len(s) <= m /\ m <= n /\ n = 16 /\ m = 12
  OBVIOUS
<1> HIDE DEF n, m
<1>2. b \in [1..n -> Byte] /\ \A i \in 1..n : b[i] = IF i <= Len(s) THEN s[i] ELSE 0
  BY <1>1, PaddedIs
<1>3. c \in [1..m -> Byte] /\ \A i \in 1..m : c[i] = IF i <= Len(s) THEN s[i] ELSE 0
  BY <1>1, PaddedIs
<1>4. \A i \in 1..m : a[i] \in Byte
  BY <1>1
<1>5. d \in Seq(Byte) /\ Len(d) = m /\ \A i \in 1..m : d[i] = a[i]
  <2>1. 1 \in Int /\ m \in Int
    BY <1>1
  <2>2. /\ d \in Seq(Byte)
        /\ Len(d) = IF 1 <= m THEN m - 1 + 1 ELSE 0
        /\ \A i \in 1..(m - 1 + 1) : d[i] = a[1 + i - 1]
    BY <2>1, <1>4, SubSeqProperties
  <2> QED
    BY <2>2, <1>1
<1> HIDE DEF b, c, d
<1>6. d \in [1..m -> Byte]
  BY <1>5, LenProperties
<1>7. d = c <=> \A i \in 1..m : d[i] = c[i]
  <2>1. c \in [1..m -> Byte]
    BY <1>3
  <2> QED
    BY <2>1, <1>6, SameBytes, Zenon
<1>8. \A i \in 1..m : b[i] = c[i]
  <2> SUFFICES ASSUME NEW i \in 1..m PROVE b[i] = c[i]
    OBVIOUS
  <2>1. i \in 1..n
    BY <1>1
  <2>2. c[i] = IF i <= Len(s) THEN s[i] ELSE 0
    BY <1>3
  <2>3. b[i] = IF i <= Len(s) THEN s[i] ELSE 0
    BY <1>2, <2>1
  <2> QED
    BY <2>2, <2>3
<1>9. d = c <=> \A i \in 1..m : a[i] = b[i]
  BY <1>5, <1>7, <1>8
<1>10. Block6(s, 96) = Block(b, 96)
  BY DEF Block6, b, n
<1>11. Within(a, Block(b, 96)) <=> \A i \in 1..12 : a[i] = b[i]
  BY <1>1, <1>2, Within16
<1> QED
  BY <1>1, <1>9, <1>10, <1>11 DEF c, d, m

(* The two blocks that carry IPv4 are the addresses Carries names.          *)
LEMMA CarriesIs ==
    ASSUME NEW a \in [1..16 -> Byte]
    PROVE  (\E block \in V6CarriesV4 : Within(a, block)) <=> Carries(a)
<1> DEFINE mapped == Zeros(10) \o <<255, 255>>
           nat64 == <<0, 100, 255, 155>>
<1>1. Len(a) = 16
  OBVIOUS
<1>2. mapped \in Seq(Byte) /\ Len(mapped) = 12 /\ Padded(mapped, 12) = mapped
  <2> DEFINE z == Zeros(10)
             t == <<255, 255>>
  <2>2. z \in Seq(Byte) /\ Len(z) = 10
    BY ZerosIs
  <2>3. t \in Seq(Byte) /\ Len(t) = 2
    BY DEF Byte
  <2> HIDE DEF z, t
  <2>1. z \o t \in Seq(Byte) /\ Len(z \o t) = Len(z) + Len(t)
    BY <2>2, <2>3, ConcatProperties
  <2>4. z \o t \in Seq(Byte) /\ Len(z \o t) = 12
    BY <2>1, <2>2, <2>3
  <2>5. mapped = z \o t
    BY DEF z, t
  <2>6. Zeros(0) = << >>
    BY DEF Zeros
  <2> HIDE DEF mapped
  <2>7. mapped \in Seq(Byte) /\ Len(mapped) = 12
    BY <2>4, <2>5
  <2>8. mapped \o << >> = mapped
    BY <2>7, ConcatEmptySeq
  <2>9. Zeros(12 - Len(mapped)) = << >>
    BY <2>6, <2>7
  <2> QED
    BY <2>7, <2>8, <2>9 DEF Padded
<1>3. nat64 \in Seq(Byte) /\ Len(nat64) = 4 /\ Padded(nat64, 12) = nat64 \o Zeros(8)
  BY DEF Byte, Padded
<1>4. (\E block \in V6CarriesV4 : Within(a, block)) <=> Within(a, Block6(mapped, 96)) \/ Within(a, Block6(nat64, 96))
  BY DEF V6CarriesV4
<1>5. Carries(a) <=> SubSeq(a, 1, 12) = mapped \/ SubSeq(a, 1, 12) = nat64 \o Zeros(8)
  BY <1>1 DEF Carries
<1> HIDE DEF mapped, nat64
<1>6. Len(mapped) <= 12 /\ Len(nat64) <= 12
  BY <1>2, <1>3
<1>7. Within(a, Block6(mapped, 96)) <=> SubSeq(a, 1, 12) = Padded(mapped, 12)
  BY <1>2, <1>6, Carrier, Zenon
<1>8. Within(a, Block6(nat64, 96)) <=> SubSeq(a, 1, 12) = Padded(nat64, 12)
  BY <1>3, <1>6, Carrier, Zenon
<1> QED
  BY <1>2, <1>3, <1>4, <1>5, <1>7, <1>8

(* An IPv4 address carried in IPv6 is judged as itself.                     *)
LEMMA JudgedCarried ==
    ASSUME NEW a \in [1..16 -> Byte], Carries(a)
    PROVE  IsPublicAddress(a) <=> ~Reserved(a)
<1> DEFINE d == SubSeq(a, 13, 16)
<1>1. Len(a) = 16
  OBVIOUS
<1>2. d \in [1..4 -> Byte]
  <2>1. \A i \in 13..16 : a[i] \in Byte
    OBVIOUS
  <2>2. d \in Seq(Byte) /\ Len(d) = IF 13 <= 16 THEN 16 - 13 + 1 ELSE 0
    BY <2>1, SubSeqProperties
  <2>3. d \in [1..Len(d) -> Byte]
    BY <2>2, LenProperties
  <2> QED
    BY <2>2, <2>3
<1>3. IsPublicAddress(a) <=> IsPublic4(d)
  BY <1>1, CarriesIs DEF IsPublicAddress, IsPublic6
<1>4. Reserved(a) <=> \E range \in Special4 : InRange(d, range)
  BY DEF Reserved
<1> HIDE DEF d
<1> QED
  BY <1>2, <1>3, <1>4, Judged4

(* For every IPv4 address, as such or carried in IPv6, the bits of the      *)
(* table's blocks say what the registries' first and last addresses say     *)
(* (isPublicAddress).                                                       *)
THEOREM Judged ==
    ASSUME NEW a, a \in [1..4 -> Byte] \/ (a \in [1..16 -> Byte] /\ Carries(a))
    PROVE  IsPublicAddress(a) <=> ~Reserved(a)
<1>1. CASE a \in [1..4 -> Byte]
  <2>1. Len(a) = 4
    BY <1>1
  <2>2. IsPublicAddress(a) <=> IsPublic4(a)
    BY <2>1 DEF IsPublicAddress
  <2>3. Reserved(a) <=> \E range \in Special4 : InRange(a, range)
    BY <2>1 DEF Reserved, Carries
  <2> QED
    BY <1>1, <2>2, <2>3, Judged4
<1>2. CASE a \in [1..16 -> Byte] /\ Carries(a)
  BY <1>2, JudgedCarried
<1> QED
  BY <1>1, <1>2

(* An IPv4 host a link names is refused exactly when it is inside the       *)
(* registries' ranges, for every set of addresses, judged as                *)
(* isPublicAddress judges them.                                             *)
THEOREM RangesHold == Spec => []RangesRefused
<1>1. TypeOK => RangesRefused
  <2> SUFFICES ASSUME TypeOK, host # Name, Len(host) = 4 \/ Carries(host)
               PROVE  host \in Public <=> ~Reserved(host)
    BY DEF RangesRefused
  <2>1. host \in Addresses
    BY DEF TypeOK
  <2>2. host \in [1..4 -> Byte] \/ host \in [1..16 -> Byte]
    BY <2>1, JudgedAssumption DEF Byte
  <2>3. host \in [1..4 -> Byte] \/ (host \in [1..16 -> Byte] /\ Carries(host))
    <3>1. host \in [1..16 -> Byte] => Len(host) = 16
      OBVIOUS
    <3> QED
      BY <2>2, <3>1
  <2>4. host \in Public <=> IsPublicAddress(host)
    BY <2>1, JudgedAssumption DEF Addresses
  <2> QED
    BY <2>3, <2>4, Judged
<1> QED
  BY <1>1, TypeCorrect, PTL
================================================================================
