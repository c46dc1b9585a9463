----------------------------- MODULE PaymentsProofs -----------------------------
(***************************************************************************)
(* Of every pairing modelled: the filter serves what build takes, and       *)
(* broadcaster refuses as bound does.  Each is a fact of a rail's           *)
(* functions alone (Filters and Tells of PaymentProofs), for every option,  *)
(* choice and payment; the stages of a payment carry it to the whole        *)
(* specification.                                                           *)
(***************************************************************************)
EXTENDS Payments, X402, Integers, TLAPS

(***************************************************************************)
(* The answers in their order: what First gives is the first that is not    *)
(* "ok".                                                                    *)
(***************************************************************************)
Clear(s, n) == \A j \in 1..(n - 1) : s[j] = "ok"

LEMMA ClearFirst == \A s : Clear(s, 1)
  BY DEF Clear

LEMMA ClearNext == ASSUME NEW s, NEW n \in Nat, Clear(s, n), s[n] = "ok" PROVE Clear(s, n + 1)
  BY DEF Clear

LEMMA FirstIs ==
    ASSUME NEW s, NEW m \in Nat, DOMAIN s = 1..m, NEW n \in 1..m, Clear(s, n), s[n] # "ok" \/ n = m
    PROVE  First(s) = s[n]
<1> DEFINE given == {i \in DOMAIN s : s[i] # "ok"}
<1>1. First(s) = IF given = {} THEN "ok" ELSE s[CHOOSE i \in given : \A j \in given : i <= j]
  BY DEF First
<1>2. CASE s[n] = "ok"
  <2>1. given = {}
    BY <1>2 DEF Clear
  <2> QED
    BY <1>1, <1>2, <2>1
<1>3. CASE s[n] # "ok"
  <2>1. n \in given /\ \A i \in given : i \in Nat /\ n <= i
    BY <1>3 DEF Clear
  <2> HIDE DEF given
  <2>2. \A i \in given : (\A j \in given : i <= j) => i = n
    BY <2>1
  <2>3. (CHOOSE i \in given : \A j \in given : i <= j) = n
    BY <2>1, <2>2
  <2> QED
    BY <1>1, <2>1, <2>3
<1> QED
  BY <1>2, <1>3

Follows(s, n, m) ==
    Clear(s, n) => IF s[n] = "ok" /\ n # m THEN Clear(s, n + 1) ELSE First(s) = s[n]

LEMMA FirstFollows ==
    ASSUME NEW s, NEW m \in Nat, DOMAIN s = 1..m
    PROVE  Clear(s, 1) /\ \A n \in 1..m : Follows(s, n, m)
  BY ClearFirst, ClearNext, FirstIs DEF Follows

LEMMA First2 == \A a1, a2 :
    First(<<a1, a2>>) =
              IF a1 # "ok" THEN a1 ELSE a2
<1> TAKE a1, a2
<1> DEFINE s == <<a1, a2>>
<1>1. DOMAIN s = 1..2 /\ s[1] = a1 /\ s[2] = a2
  OBVIOUS
<1> HIDE DEF s
<1>2. Clear(s, 1) /\ \A n \in 1..2 : Follows(s, n, 2)
  BY <1>1, FirstFollows
<1> QED
  BY <1>1, <1>2 DEF s, Follows

LEMMA First3 == \A a1, a2, a3 :
    First(<<a1, a2, a3>>) =
              IF a1 # "ok" THEN a1 ELSE IF a2 # "ok" THEN a2 ELSE a3
<1> TAKE a1, a2, a3
<1> DEFINE s == <<a1, a2, a3>>
<1>1. DOMAIN s = 1..3 /\ s[1] = a1 /\ s[2] = a2 /\ s[3] = a3
  OBVIOUS
<1> HIDE DEF s
<1>2. Clear(s, 1) /\ \A n \in 1..3 : Follows(s, n, 3)
  BY <1>1, FirstFollows
<1> QED
  BY <1>1, <1>2 DEF s, Follows

LEMMA First4 == \A a1, a2, a3, a4 :
    First(<<a1, a2, a3, a4>>) =
              IF a1 # "ok" THEN a1 ELSE IF a2 # "ok" THEN a2 ELSE
              IF a3 # "ok" THEN a3 ELSE a4
<1> TAKE a1, a2, a3, a4
<1> DEFINE s == <<a1, a2, a3, a4>>
<1>1. DOMAIN s = 1..4 /\ s[1] = a1 /\ s[2] = a2 /\ s[3] = a3 /\ s[4] = a4
  OBVIOUS
<1> HIDE DEF s
<1>2. Clear(s, 1) /\ \A n \in 1..4 : Follows(s, n, 4)
  BY <1>1, FirstFollows
<1> QED
  BY <1>1, <1>2 DEF s, Follows

LEMMA First5 == \A a1, a2, a3, a4, a5 :
    First(<<a1, a2, a3, a4, a5>>) =
              IF a1 # "ok" THEN a1 ELSE IF a2 # "ok" THEN a2 ELSE
              IF a3 # "ok" THEN a3 ELSE IF a4 # "ok" THEN a4 ELSE a5
<1> TAKE a1, a2, a3, a4, a5
<1> DEFINE s == <<a1, a2, a3, a4, a5>>
<1>1. DOMAIN s = 1..5 /\ s[1] = a1 /\ s[2] = a2 /\ s[3] = a3 /\ s[4] = a4 /\ s[5] = a5
  OBVIOUS
<1> HIDE DEF s
<1>2. Clear(s, 1) /\ \A n \in 1..5 : Follows(s, n, 5)
  BY <1>1, FirstFollows
<1> QED
  BY <1>1, <1>2 DEF s, Follows

LEMMA First6 == \A a1, a2, a3, a4, a5, a6 :
    First(<<a1, a2, a3, a4, a5, a6>>) =
              IF a1 # "ok" THEN a1 ELSE IF a2 # "ok" THEN a2 ELSE
              IF a3 # "ok" THEN a3 ELSE IF a4 # "ok" THEN a4 ELSE
              IF a5 # "ok" THEN a5 ELSE a6
<1> TAKE a1, a2, a3, a4, a5, a6
<1> DEFINE s == <<a1, a2, a3, a4, a5, a6>>
<1>1. DOMAIN s = 1..6 /\ s[1] = a1 /\ s[2] = a2 /\ s[3] = a3 /\ s[4] = a4 /\ s[5] = a5 /\ s[6] = a6
  OBVIOUS
<1> HIDE DEF s
<1>2. Clear(s, 1) /\ \A n \in 1..6 : Follows(s, n, 6)
  BY <1>1, FirstFollows
<1>3. Follows(s, 1, 6) /\ Follows(s, 2, 6) /\ Follows(s, 3, 6) /\ Follows(s, 4, 6) /\ Follows(s, 5, 6)
        /\ Follows(s, 6, 6)
  BY <1>2
<1> QED
  BY <1>1, <1>2, <1>3 DEF s, Follows

LEMMA First7 == \A a1, a2, a3, a4, a5, a6, a7 :
    First(<<a1, a2, a3, a4, a5, a6, a7>>) =
              IF a1 # "ok" THEN a1 ELSE IF a2 # "ok" THEN a2 ELSE
              IF a3 # "ok" THEN a3 ELSE IF a4 # "ok" THEN a4 ELSE
              IF a5 # "ok" THEN a5 ELSE IF a6 # "ok" THEN a6 ELSE a7
<1> TAKE a1, a2, a3, a4, a5, a6, a7
<1> DEFINE s == <<a1, a2, a3, a4, a5, a6, a7>>
<1>1. DOMAIN s = 1..7 /\ s[1] = a1 /\ s[2] = a2 /\ s[3] = a3 /\ s[4] = a4 /\ s[5] = a5 /\ s[6] = a6 /\ s[7] = a7
  OBVIOUS
<1> HIDE DEF s
<1>2. Clear(s, 1) /\ \A n \in 1..7 : Follows(s, n, 7)
  BY <1>1, FirstFollows
<1>3. Follows(s, 1, 7) /\ Follows(s, 2, 7) /\ Follows(s, 3, 7) /\ Follows(s, 4, 7) /\ Follows(s, 5, 7)
        /\ Follows(s, 6, 7) /\ Follows(s, 7, 7)
  BY <1>2
<1> QED
  BY <1>1, <1>2, <1>3 DEF s, Follows

LEMMA First8 == \A a1, a2, a3, a4, a5, a6, a7, a8 :
    First(<<a1, a2, a3, a4, a5, a6, a7, a8>>) =
              IF a1 # "ok" THEN a1 ELSE IF a2 # "ok" THEN a2 ELSE
              IF a3 # "ok" THEN a3 ELSE IF a4 # "ok" THEN a4 ELSE
              IF a5 # "ok" THEN a5 ELSE IF a6 # "ok" THEN a6 ELSE
              IF a7 # "ok" THEN a7 ELSE a8
<1> TAKE a1, a2, a3, a4, a5, a6, a7, a8
<1> DEFINE s == <<a1, a2, a3, a4, a5, a6, a7, a8>>
<1>1. DOMAIN s = 1..8 /\ s[1] = a1 /\ s[2] = a2 /\ s[3] = a3 /\ s[4] = a4 /\ s[5] = a5 /\ s[6] = a6 /\ s[7] = a7
        /\ s[8] = a8
  OBVIOUS
<1> HIDE DEF s
<1>2. Clear(s, 1) /\ \A n \in 1..8 : Follows(s, n, 8)
  BY <1>1, FirstFollows
<1>3. Follows(s, 1, 8) /\ Follows(s, 2, 8) /\ Follows(s, 3, 8) /\ Follows(s, 4, 8) /\ Follows(s, 5, 8)
        /\ Follows(s, 6, 8) /\ Follows(s, 7, 8) /\ Follows(s, 8, 8)
  BY <1>2
<1> QED
  BY <1>1, <1>2, <1>3 DEF s, Follows

LEMMA First9 == \A a1, a2, a3, a4, a5, a6, a7, a8, a9 :
    First(<<a1, a2, a3, a4, a5, a6, a7, a8, a9>>) =
              IF a1 # "ok" THEN a1 ELSE IF a2 # "ok" THEN a2 ELSE
              IF a3 # "ok" THEN a3 ELSE IF a4 # "ok" THEN a4 ELSE
              IF a5 # "ok" THEN a5 ELSE IF a6 # "ok" THEN a6 ELSE
              IF a7 # "ok" THEN a7 ELSE IF a8 # "ok" THEN a8 ELSE a9
<1> TAKE a1, a2, a3, a4, a5, a6, a7, a8, a9
<1> DEFINE s == <<a1, a2, a3, a4, a5, a6, a7, a8, a9>>
<1>1. DOMAIN s = 1..9 /\ s[1] = a1 /\ s[2] = a2 /\ s[3] = a3 /\ s[4] = a4 /\ s[5] = a5 /\ s[6] = a6 /\ s[7] = a7
        /\ s[8] = a8 /\ s[9] = a9
  OBVIOUS
<1> HIDE DEF s
<1>2. Clear(s, 1) /\ \A n \in 1..9 : Follows(s, n, 9)
  BY <1>1, FirstFollows
<1>3. Follows(s, 1, 9) /\ Follows(s, 2, 9) /\ Follows(s, 3, 9) /\ Follows(s, 4, 9) /\ Follows(s, 5, 9)
        /\ Follows(s, 6, 9) /\ Follows(s, 7, 9) /\ Follows(s, 8, 9) /\ Follows(s, 9, 9)
  BY <1>2
<1> QED
  BY <1>1, <1>2, <1>3 DEF s, Follows

LEMMA First10 == \A a1, a2, a3, a4, a5, a6, a7, a8, a9, a10 :
    First(<<a1, a2, a3, a4, a5, a6, a7, a8, a9, a10>>) =
              IF a1 # "ok" THEN a1 ELSE IF a2 # "ok" THEN a2 ELSE
              IF a3 # "ok" THEN a3 ELSE IF a4 # "ok" THEN a4 ELSE
              IF a5 # "ok" THEN a5 ELSE IF a6 # "ok" THEN a6 ELSE
              IF a7 # "ok" THEN a7 ELSE IF a8 # "ok" THEN a8 ELSE
              IF a9 # "ok" THEN a9 ELSE a10
<1> TAKE a1, a2, a3, a4, a5, a6, a7, a8, a9, a10
<1> DEFINE s == <<a1, a2, a3, a4, a5, a6, a7, a8, a9, a10>>
<1>1. DOMAIN s = 1..10 /\ s[1] = a1 /\ s[2] = a2 /\ s[3] = a3 /\ s[4] = a4 /\ s[5] = a5 /\ s[6] = a6 /\ s[7] = a7
        /\ s[8] = a8 /\ s[9] = a9 /\ s[10] = a10
  OBVIOUS
<1> HIDE DEF s
<1>2. Clear(s, 1) /\ \A n \in 1..10 : Follows(s, n, 10)
  BY <1>1, FirstFollows
<1>3. Follows(s, 1, 10) /\ Follows(s, 2, 10) /\ Follows(s, 3, 10) /\ Follows(s, 4, 10) /\ Follows(s, 5, 10)
        /\ Follows(s, 6, 10) /\ Follows(s, 7, 10) /\ Follows(s, 8, 10) /\ Follows(s, 9, 10) /\ Follows(s, 10, 10)
  BY <1>2
<1> QED
  BY <1>1, <1>2, <1>3 DEF s, Follows

LEMMA First11 == \A a1, a2, a3, a4, a5, a6, a7, a8, a9, a10, a11 :
    First(<<a1, a2, a3, a4, a5, a6, a7, a8, a9, a10, a11>>) =
              IF a1 # "ok" THEN a1 ELSE IF a2 # "ok" THEN a2 ELSE
              IF a3 # "ok" THEN a3 ELSE IF a4 # "ok" THEN a4 ELSE
              IF a5 # "ok" THEN a5 ELSE IF a6 # "ok" THEN a6 ELSE
              IF a7 # "ok" THEN a7 ELSE IF a8 # "ok" THEN a8 ELSE
              IF a9 # "ok" THEN a9 ELSE IF a10 # "ok" THEN a10 ELSE a11
<1> TAKE a1, a2, a3, a4, a5, a6, a7, a8, a9, a10, a11
<1> DEFINE s == <<a1, a2, a3, a4, a5, a6, a7, a8, a9, a10, a11>>
<1>1. DOMAIN s = 1..11 /\ s[1] = a1 /\ s[2] = a2 /\ s[3] = a3 /\ s[4] = a4 /\ s[5] = a5 /\ s[6] = a6 /\ s[7] = a7
        /\ s[8] = a8 /\ s[9] = a9 /\ s[10] = a10 /\ s[11] = a11
  OBVIOUS
<1> HIDE DEF s
<1>2. Clear(s, 1) /\ \A n \in 1..11 : Follows(s, n, 11)
  BY <1>1, FirstFollows
<1>3. Follows(s, 1, 11) /\ Follows(s, 2, 11) /\ Follows(s, 3, 11) /\ Follows(s, 4, 11) /\ Follows(s, 5, 11)
        /\ Follows(s, 6, 11) /\ Follows(s, 7, 11) /\ Follows(s, 8, 11) /\ Follows(s, 9, 11) /\ Follows(s, 10, 11)
             /\ Follows(s, 11, 11)
  BY <1>2
<1> QED
  BY <1>1, <1>2, <1>3 DEF s, Follows

(***************************************************************************)
(* What the rails share: a payment changed in one member, and the gate of   *)
(* bound and broadcaster.                                                   *)
(***************************************************************************)
(* The envelope complete writes.                                            *)
Whole(h) ==
    [version |-> "2", refused |-> "absent", accepted |-> "object", payload |-> "object", context |-> h]

LEMMA PaymentWithIs == \A c, o, t :
    /\ PaymentWith(c, o, t).envelope = Whole(c.h)
    /\ PaymentWith(c, o, t).accepted = o
    /\ PaymentWith(c, o, t).payload = t
  BY DEF PaymentWith, Whole

LEMMA OneOffBy == ASSUME NEW base, NEW forms, NEW e \in OneOff(base, forms), e # base
  PROVE \E k \in DOMAIN base \cap DOMAIN forms : \E f \in forms[k] : e = [base EXCEPT ![k] = f]
<1>1. PICK m \in UNION {{k} \X forms[k] : k \in DOMAIN base \cap DOMAIN forms} : e = [base EXCEPT ![m[1]] = m[2]]
  BY DEF OneOff
<1>2. PICK k \in DOMAIN base \cap DOMAIN forms : m \in {k} \X forms[k]
  BY <1>1
<1>3. m[1] = k /\ m[2] \in forms[k]
  BY <1>2
<1> QED
  BY <1>1, <1>2, <1>3

LEMMA OneChangedIn ==
    ASSUME NEW c, NEW o, NEW t, NEW options, NEW payloads, NEW signed,
           NEW changed \in Variants(PaymentWith(c, o, t), options, payloads, signed)
    PROVE  \/ (changed[1].accepted = o /\ changed[1].payload = t
                /\ changed[1].envelope \in OneOff(Whole(c.h), EnvelopeForms))
           \/ (changed[1].envelope = Whole(c.h) /\ changed[1].payload = t /\ changed[1].accepted \in OneOff(o, options))
           \/ (changed[1].envelope = Whole(c.h) /\ changed[1].accepted = o
                /\ changed[1].payload \in OneOff(t, payloads))
<1> DEFINE paid == PaymentWith(c, o, t)
<1>1. paid = [envelope |-> Whole(c.h), accepted |-> o, payload |-> t]
  BY DEF PaymentWith, Whole
<1> HIDE DEF paid
<1>2. CASE \E e \in OneOff(paid.envelope, EnvelopeForms) : changed = <<[paid EXCEPT !.envelope = e], TRUE>>
  BY <1>1, <1>2
<1>3. CASE \E u \in OneOff(paid.accepted, options) : changed = <<[paid EXCEPT !.accepted = u], TRUE>>
  BY <1>1, <1>3
<1>4. CASE \E u \in OneOff(paid.payload, payloads) :
              changed = <<[paid EXCEPT !.payload = u], \A m \in signed \cap DOMAIN u : u[m] = paid.payload[m]>>
  BY <1>1, <1>4
<1> QED
  BY <1>2, <1>3, <1>4 DEF Variants, paid

LEMMA OneChanged ==
    ASSUME NEW c, NEW o, NEW t, NEW options, NEW payloads, NEW signed,
           NEW changed \in Variants(PaymentWith(c, o, t), options, payloads, signed)
    PROVE  changed[1].envelope = Whole(c.h) \/ changed[1].accepted = o
  BY OneChangedIn

LEMMA OneOffWhole == ASSUME NEW h, NEW e \in OneOff(Whole(h), EnvelopeForms), e.payload # "object"
   PROVE e.context = h /\ e.accepted = "object" /\ e.version = "2"
<1>1. CASE e = Whole(h)
  BY <1>1 DEF Whole
<1> DEFINE w == Whole(h)
<1>0. DOMAIN w = {"version", "refused", "accepted", "payload", "context"} /\ w.payload = "object" /\ w.context = h
        /\ w.accepted = "object" /\ w.version = "2"
  BY DEF Whole
<1> HIDE DEF w
<1>2. ASSUME e # w PROVE \E k \in DOMAIN w, f \in {"1", "present", "malformed", "absent", "http", "H2"} :
               e = [w EXCEPT ![k] = f]
  BY <1>2 DEF OneOff, EnvelopeForms, w
<1>3. CASE e # w
  BY <1>0, <1>2, <1>3
<1> QED
  BY <1>1, <1>3 DEF w

LEMMA ShapeIs == \A x : Shape(x, ShapeCodes) =
    IF x.envelope.version # "2" THEN "x402/not-v2" ELSE IF x.envelope.accepted # "object" THEN "x402/payload-malformed"
    ELSE IF x.envelope.payload # "object" THEN "x402/payload-malformed" ELSE "ok"
  BY First4 DEF Shape, ShapeCodes, When

LEMMA ShapeWhole == \A paid, codes, h : paid.envelope = Whole(h) => Shape(paid, codes) = "ok"
  BY First4 DEF Shape, Whole, When

LEMMA ToldWhole == \A paid, a, codes, h : paid.envelope = Whole(h) => Broadcaster(paid, a, codes) = a
  BY ShapeWhole, First2 DEF Broadcaster

(* bound's gate refuses as broadcaster's does, over an option it serves.    *)
LEMMA PresentedShape == \A paid : PresentedWith(paid, "ok") = Shape(paid, ShapeCodes)
  BY First2, First3, First4 DEF PresentedWith, AcceptedBy, Refused, Shape, ShapeCodes, When

(***************************************************************************)
(* The MPP charges.                                                         *)
(***************************************************************************)
ChargesP == INSTANCE PaymentProofs WITH
    Pairings <- Charges!Pairings, PublicProof <- Charges!PublicProof, Options <- Charges!Options,
    HonestOptions <- Charges!HonestOptions, Choices <- Charges!Choices, HonestChoices <- Charges!HonestChoices,
    Answers <- Charges!Answers, HonestAnswer <- Charges!HonestAnswer, Altered <- Charges!Altered,
    Served <- Charges!Served, BuildOnly <- Charges!BuildOnly, Built <- Charges!Built, Completed <- Charges!Completed,
    Paid <- Charges!Paid, Bound <- Charges!Bound, Told <- Charges!Told

Clears(s, n) == \A j \in 1..(n - 1) : ~s[j][1]

LEMMA FaultNone == ASSUME NEW s, NEW m \in Nat, DOMAIN s = 1..m, NEW names, \A i \in 1..m : ~s[i][1]
                   PROVE  Charges!Ch!FirstFault(s, names) = Charges!Ch!Offers(names)
  BY DEF Charges!Ch!FirstFault

LEMMA FaultIs == ASSUME NEW s, NEW m \in Nat, DOMAIN s = 1..m, NEW names, NEW n \in 1..m, Clears(s, n), s[n][1]
                 PROVE  Charges!Ch!FirstFault(s, names) = Charges!Ch!No(s[n][2])
<1> DEFINE found == {i \in DOMAIN s : s[i][1]}
<1>1. n \in found /\ \A i \in found : i \in Nat /\ n <= i
  BY DEF Clears
<1>2. found # {} => Charges!Ch!FirstFault(s, names)
                         = Charges!Ch!No(s[CHOOSE x \in found : \A y \in found : x <= y][2])
  BY DEF Charges!Ch!FirstFault, Charges!Ch!Min
<1> HIDE DEF found
<1>3. \A i \in found : (\A j \in found : i <= j) => i = n
  BY <1>1
<1>4. (CHOOSE i \in found : \A j \in found : i <= j) = n
  BY <1>1, <1>3
<1> QED
  BY <1>1, <1>2, <1>4

LEMMA FaultNames == \A s, names : Charges!Ch!FirstFault(s, names).names \subseteq names
  BY DEF Charges!Ch!FirstFault, Charges!Ch!No, Charges!Ch!Offers

LEMMA FaultShape == \A s, names : \E code, n : Charges!Ch!FirstFault(s, names) = [code |-> code, names |-> n]
  BY DEF Charges!Ch!FirstFault, Charges!Ch!No, Charges!Ch!Offers

LEMMA Codes1 == \A names, a1 :
    Charges!Ch!FirstFault(<<a1>>, names).code =
        IF a1[1] THEN a1[2] ELSE "none"
<1> TAKE names, a1
<1> DEFINE s == <<a1>>
<1>1. DOMAIN s = 1..1 /\ s[1] = a1
  OBVIOUS
<1> HIDE DEF s
<1>2. \A i \in 1..1 : Clears(s, i) /\ s[i][1] => Charges!Ch!FirstFault(s, names) = Charges!Ch!No(s[i][2])
  BY <1>1, FaultIs
<1>3. (\A i \in 1..1 : ~s[i][1]) => Charges!Ch!FirstFault(s, names) = Charges!Ch!Offers(names)
  BY <1>1, FaultNone
<1>4. \A i \in 1..1 : i = 1
  OBVIOUS
<1>5. Charges!Ch!Offers(names).code = "none" /\ \A code : Charges!Ch!No(code).code = code
  BY DEF Charges!Ch!Offers, Charges!Ch!No
<1> QED
  BY <1>1, <1>2, <1>3, <1>4, <1>5 DEF Clears, s

LEMMA Codes2 == \A names, a1, a2 :
    Charges!Ch!FirstFault(<<a1, a2>>, names).code =
        IF a1[1] THEN a1[2] ELSE IF a2[1] THEN a2[2] ELSE "none"
<1> TAKE names, a1, a2
<1> DEFINE s == <<a1, a2>>
<1>1. DOMAIN s = 1..2 /\ s[1] = a1 /\ s[2] = a2
  OBVIOUS
<1> HIDE DEF s
<1>2. \A i \in 1..2 : Clears(s, i) /\ s[i][1] => Charges!Ch!FirstFault(s, names) = Charges!Ch!No(s[i][2])
  BY <1>1, FaultIs
<1>3. (\A i \in 1..2 : ~s[i][1]) => Charges!Ch!FirstFault(s, names) = Charges!Ch!Offers(names)
  BY <1>1, FaultNone
<1>4. \A i \in 1..2 : i = 1 \/ i = 2
  OBVIOUS
<1>5. Charges!Ch!Offers(names).code = "none" /\ \A code : Charges!Ch!No(code).code = code
  BY DEF Charges!Ch!Offers, Charges!Ch!No
<1> QED
  BY <1>1, <1>2, <1>3, <1>4, <1>5 DEF Clears, s

LEMMA Codes3 == \A names, a1, a2, a3 :
    Charges!Ch!FirstFault(<<a1, a2, a3>>, names).code =
        IF a1[1] THEN a1[2] ELSE IF a2[1] THEN a2[2] ELSE IF a3[1] THEN a3[2] ELSE "none"
<1> TAKE names, a1, a2, a3
<1> DEFINE s == <<a1, a2, a3>>
<1>1. DOMAIN s = 1..3 /\ s[1] = a1 /\ s[2] = a2 /\ s[3] = a3
  OBVIOUS
<1> HIDE DEF s
<1>2. \A i \in 1..3 : Clears(s, i) /\ s[i][1] => Charges!Ch!FirstFault(s, names) = Charges!Ch!No(s[i][2])
  BY <1>1, FaultIs
<1>3. (\A i \in 1..3 : ~s[i][1]) => Charges!Ch!FirstFault(s, names) = Charges!Ch!Offers(names)
  BY <1>1, FaultNone
<1>4. \A i \in 1..3 : i = 1 \/ i = 2 \/ i = 3
  OBVIOUS
<1>5. Charges!Ch!Offers(names).code = "none" /\ \A code : Charges!Ch!No(code).code = code
  BY DEF Charges!Ch!Offers, Charges!Ch!No
<1> QED
  BY <1>1, <1>2, <1>3, <1>4, <1>5 DEF Clears, s

LEMMA Codes6 == \A names, a1, a2, a3, a4, a5, a6 :
    Charges!Ch!FirstFault(<<a1, a2, a3, a4, a5, a6>>, names).code =
        IF a1[1] THEN a1[2] ELSE IF a2[1] THEN a2[2] ELSE IF a3[1] THEN a3[2] ELSE
        IF a4[1] THEN a4[2] ELSE IF a5[1] THEN a5[2] ELSE IF a6[1] THEN a6[2] ELSE "none"
<1> TAKE names, a1, a2, a3, a4, a5, a6
<1> DEFINE s == <<a1, a2, a3, a4, a5, a6>>
<1>1. DOMAIN s = 1..6 /\ s[1] = a1 /\ s[2] = a2 /\ s[3] = a3 /\ s[4] = a4 /\ s[5] = a5 /\ s[6] = a6
  OBVIOUS
<1> HIDE DEF s
<1>2. \A i \in 1..6 : Clears(s, i) /\ s[i][1] => Charges!Ch!FirstFault(s, names) = Charges!Ch!No(s[i][2])
  BY <1>1, FaultIs
<1>3. (\A i \in 1..6 : ~s[i][1]) => Charges!Ch!FirstFault(s, names) = Charges!Ch!Offers(names)
  BY <1>1, FaultNone
<1>4. \A i \in 1..6 : i = 1 \/ i = 2 \/ i = 3 \/ i = 4 \/ i = 5 \/ i = 6
  OBVIOUS
<1>5. Charges!Ch!Offers(names).code = "none" /\ \A code : Charges!Ch!No(code).code = code
  BY DEF Charges!Ch!Offers, Charges!Ch!No
<1> QED
  BY <1>1, <1>2, <1>3, <1>4, <1>5 DEF Clears, s

LEMMA Codes7 == \A names, a1, a2, a3, a4, a5, a6, a7 :
    Charges!Ch!FirstFault(<<a1, a2, a3, a4, a5, a6, a7>>, names).code =
        IF a1[1] THEN a1[2] ELSE IF a2[1] THEN a2[2] ELSE IF a3[1] THEN a3[2] ELSE
        IF a4[1] THEN a4[2] ELSE IF a5[1] THEN a5[2] ELSE IF a6[1] THEN a6[2] ELSE
        IF a7[1] THEN a7[2] ELSE "none"
<1> TAKE names, a1, a2, a3, a4, a5, a6, a7
<1> DEFINE s == <<a1, a2, a3, a4, a5, a6, a7>>
<1>1. DOMAIN s = 1..7 /\ s[1] = a1 /\ s[2] = a2 /\ s[3] = a3 /\ s[4] = a4 /\ s[5] = a5 /\ s[6] = a6 /\ s[7] = a7
  OBVIOUS
<1> HIDE DEF s
<1>2. \A i \in 1..7 : Clears(s, i) /\ s[i][1] => Charges!Ch!FirstFault(s, names) = Charges!Ch!No(s[i][2])
  BY <1>1, FaultIs
<1>3. (\A i \in 1..7 : ~s[i][1]) => Charges!Ch!FirstFault(s, names) = Charges!Ch!Offers(names)
  BY <1>1, FaultNone
<1>4. \A i \in 1..7 : i = 1 \/ i = 2 \/ i = 3 \/ i = 4 \/ i = 5 \/ i = 6 \/ i = 7
  OBVIOUS
<1>5. Charges!Ch!Offers(names).code = "none" /\ \A code : Charges!Ch!No(code).code = code
  BY DEF Charges!Ch!Offers, Charges!Ch!No
<1> QED
  BY <1>1, <1>2, <1>3, <1>4, <1>5 DEF Clears, s

LEMMA Codes8 == \A names, a1, a2, a3, a4, a5, a6, a7, a8 :
    Charges!Ch!FirstFault(<<a1, a2, a3, a4, a5, a6, a7, a8>>, names).code =
        IF a1[1] THEN a1[2] ELSE IF a2[1] THEN a2[2] ELSE IF a3[1] THEN a3[2] ELSE
        IF a4[1] THEN a4[2] ELSE IF a5[1] THEN a5[2] ELSE IF a6[1] THEN a6[2] ELSE
        IF a7[1] THEN a7[2] ELSE IF a8[1] THEN a8[2] ELSE "none"
<1> TAKE names, a1, a2, a3, a4, a5, a6, a7, a8
<1> DEFINE s == <<a1, a2, a3, a4, a5, a6, a7, a8>>
<1>1. DOMAIN s = 1..8 /\ s[1] = a1 /\ s[2] = a2 /\ s[3] = a3 /\ s[4] = a4 /\ s[5] = a5 /\ s[6] = a6 /\ s[7] = a7
        /\ s[8] = a8
  OBVIOUS
<1> HIDE DEF s
<1>2. \A i \in 1..8 : Clears(s, i) /\ s[i][1] => Charges!Ch!FirstFault(s, names) = Charges!Ch!No(s[i][2])
  BY <1>1, FaultIs
<1>3. (\A i \in 1..8 : ~s[i][1]) => Charges!Ch!FirstFault(s, names) = Charges!Ch!Offers(names)
  BY <1>1, FaultNone
<1>4. \A i \in 1..8 : i = 1 \/ i = 2 \/ i = 3 \/ i = 4 \/ i = 5 \/ i = 6 \/ i = 7 \/ i = 8
  OBVIOUS
<1>5. Charges!Ch!Offers(names).code = "none" /\ \A code : Charges!Ch!No(code).code = code
  BY DEF Charges!Ch!Offers, Charges!Ch!No
<1> QED
  BY <1>1, <1>2, <1>3, <1>4, <1>5 DEF Clears, s

ChargeKeys ==
    {"mpp/charge/evm", "mpp/charge/tempo", "mpp/charge/usdc", "mpp/charge/hedera", "mpp/charge/solana",
     "mpp/charge/stellar", "mpp/charge/xrpl", "mpp/charge/stripe"}

LEMMA ChargeCodes ==
    ASSUME NEW ch, ch.key \in ChargeKeys
    PROVE  Charges!Ch!PAIRING_CHECKS(ch, TRUE).code # "ok"
<1>1. Charges!Ch!evm_charge_pairings(ch).code # "ok"
  BY Codes6 DEF Charges!Ch!evm_charge_pairings
<1>2. Charges!Ch!tempo_charge_pairings(ch).code # "ok"
  <2>1. \A names : Charges!Ch!Offers(names).code = "none"
    BY DEF Charges!Ch!Offers
  <2> QED
    BY <2>1, Codes6 DEF Charges!Ch!tempo_charge_pairings
<1>3. \A q, r, n : Charges!Ch!SolanaCharge(q, r, n).code # "ok"
  BY Codes3 DEF Charges!Ch!SolanaCharge
<1>4. Charges!Ch!usdc_charge_pairings(ch).code # "ok"
  BY <1>3, Codes1, Codes2 DEF Charges!Ch!usdc_charge_pairings
<1>5. Charges!Ch!hedera_charge_pairings(ch).code # "ok"
  BY Codes2 DEF Charges!Ch!hedera_charge_pairings
<1>6. Charges!Ch!solana_charge_pairings(ch).code # "ok"
  BY <1>3 DEF Charges!Ch!solana_charge_pairings
<1>7. Charges!Ch!stellar_charge_pairings(ch).code # "ok"
  BY Codes1 DEF Charges!Ch!stellar_charge_pairings
<1>8. Charges!Ch!xrpl_charge_pairings(ch).code # "ok"
  BY Codes3 DEF Charges!Ch!xrpl_charge_pairings, Charges!Ch!XrplNetworkFault
<1>9. \A n : Charges!Ch!StripePairings(ch, n).code # "ok"
  BY Codes1 DEF Charges!Ch!StripePairings
<1> QED
  BY <1>1, <1>2, <1>4, <1>5, <1>6, <1>7, <1>8, <1>9 DEF Charges!Ch!PAIRING_CHECKS, ChargeKeys

LEMMA ChargeBound == ASSUME NEW ch, NEW payload
    PROVE  Charges!Ch!challenge_bound(ch, payload) =
        IF ~ch.shape \/ ~ch.id.string \/ ~Charges!Ch!Within(ch.size, payload) THEN "mpp/credential-malformed"
        ELSE IF ch.realm = "unencodable" THEN "mpp/challenge-malformed"
        ELSE IF Charges!Ch!challenge_id_h(ch) = None THEN "mpp/id-not-ours"
        ELSE IF ch.opaque.form = "absent" THEN "mpp/opaque-not-this-hash"
        ELSE IF ch.opaque.form = "bad" THEN "mpp/opaque-malformed"
        ELSE IF ch.opaque.h # Charges!Ch!challenge_id_h(ch) THEN "mpp/opaque-not-this-hash"
        ELSE IF ch.request = "bad" THEN "mpp/request-malformed" ELSE "none"
<1> DEFINE a1 == <<~ch.shape \/ ~ch.id.string \/ ~Charges!Ch!Within(ch.size, payload), "mpp/credential-malformed">>
           a2 == <<ch.realm = "unencodable", "mpp/challenge-malformed">>
           a3 == <<Charges!Ch!challenge_id_h(ch) = None, "mpp/id-not-ours">>
           a4 == <<ch.opaque.form = "absent", "mpp/opaque-not-this-hash">>
           a5 == <<ch.opaque.form = "bad", "mpp/opaque-malformed">>
           a6 == <<ch.opaque.h # Charges!Ch!challenge_id_h(ch), "mpp/opaque-not-this-hash">>
           a7 == <<ch.request = "bad", "mpp/request-malformed">>
<1>1. Charges!Ch!challenge_bound(ch, payload) = Charges!Ch!FirstFault(<<a1, a2, a3, a4, a5, a6, a7>>, {}).code
  BY DEF Charges!Ch!challenge_bound
<1>2. (a1[1] <=> (~ch.shape \/ ~ch.id.string \/ ~Charges!Ch!Within(ch.size, payload)))
        /\ a1[2] = "mpp/credential-malformed"
  OBVIOUS
<1>3. (a2[1] <=> (ch.realm = "unencodable")) /\ a2[2] = "mpp/challenge-malformed"
  OBVIOUS
<1>4. (a3[1] <=> (Charges!Ch!challenge_id_h(ch) = None)) /\ a3[2] = "mpp/id-not-ours"
  OBVIOUS
<1>5. (a4[1] <=> (ch.opaque.form = "absent")) /\ a4[2] = "mpp/opaque-not-this-hash"
  OBVIOUS
<1>6. (a5[1] <=> (ch.opaque.form = "bad")) /\ a5[2] = "mpp/opaque-malformed"
  OBVIOUS
<1>7. (a6[1] <=> (ch.opaque.h # Charges!Ch!challenge_id_h(ch))) /\ a6[2] = "mpp/opaque-not-this-hash"
  OBVIOUS
<1>8. (a7[1] <=> (ch.request = "bad")) /\ a7[2] = "mpp/request-malformed"
  OBVIOUS
<1> HIDE DEF a1, a2, a3, a4, a5, a6, a7
<1> QED
  BY <1>1, <1>2, <1>3, <1>4, <1>5, <1>6, <1>7, <1>8, Codes7

LEMMA ChargeEarly == ASSUME NEW ch, NEW named, Charges!Ch!EarlyFault(ch, TRUE, named).code = "none"
    PROVE  ch.shape /\ ch.realm # "unencodable" /\ ch.request # "bad" /\ ch.opaque.form # "bad" /\ named.code = "none"
<1> DEFINE a1 == <<~ch.shape \/ ch.realm = "unencodable", "mpp/challenge-malformed">>
           a2 == <<named.code = "mpp/not-this-pairing", "mpp/not-this-pairing">>
           a3 == <<ch.expires = "bad", "mpp/expires-required">>
           a4 == <<ch.request = "bad", "mpp/request-malformed">>
           a5 == <<ch.opaque.form = "bad", "mpp/opaque-malformed">>
           a6 == <<Charges!Ch!CarrierTaken(ch, TRUE), "mpp/carrier-taken">>
           a7 == <<~Charges!Ch!Opt(ch.q, {"methodDetails"}), "mpp/request-malformed">>
           a8 == <<named.code # "none", named.code>>
<1>1. Charges!Ch!FirstFault(<<a1, a2, a3, a4, a5, a6, a7, a8>>, named.names).code = "none"
  BY DEF Charges!Ch!EarlyFault
<1>2. (a1[1] <=> (~ch.shape \/ ch.realm = "unencodable")) /\ a1[2] # "none"
  OBVIOUS
<1>3. a2[2] # "none" /\ a3[2] # "none" /\ a6[2] # "none" /\ a7[2] # "none"
  OBVIOUS
<1>4. (a4[1] <=> ch.request = "bad") /\ a4[2] # "none"
  OBVIOUS
<1>5. (a5[1] <=> ch.opaque.form = "bad") /\ a5[2] # "none"
  OBVIOUS
<1>6. (a8[1] <=> named.code # "none") /\ a8[2] = named.code
  OBVIOUS
<1> HIDE DEF a1, a2, a3, a4, a5, a6, a7, a8
<1>7. ~a1[1] /\ ~a4[1] /\ ~a5[1] /\ (a8[1] => a8[2] = "none")
  BY <1>1, <1>2, <1>3, <1>4, <1>5, Codes8
<1> QED
  BY <1>2, <1>4, <1>5, <1>6, <1>7

LEMMA ChargeEarlyOk == \A ch, named : named.code # "ok" => Charges!Ch!EarlyFault(ch, TRUE, named).code # "ok"
  BY Codes8 DEF Charges!Ch!EarlyFault

SnapshotOf(ch) == Charges!Ch!challenge_snapshot(ch)

LEMMA SnapshotMembers == \A ch :
    /\ SnapshotOf(ch).key = ch.key /\ SnapshotOf(ch).q = ch.q /\ SnapshotOf(ch).expires = ch.expires
    /\ SnapshotOf(ch).shape = ch.shape /\ SnapshotOf(ch).realm = ch.realm /\ SnapshotOf(ch).request = ch.request
    /\ SnapshotOf(ch).opaque = ch.opaque /\ SnapshotOf(ch).id = ch.id
    /\ SnapshotOf(ch).size = IF ch.size = "padded" THEN "small" ELSE ch.size
  BY DEF SnapshotOf, Charges!Ch!challenge_snapshot

LEMMA SnapshotChecks == ASSUME NEW ch, ch.key \in ChargeKeys
    PROVE  Charges!Ch!PAIRING_CHECKS(SnapshotOf(ch), TRUE) = Charges!Ch!PAIRING_CHECKS(ch, TRUE)
<1> DEFINE snap == SnapshotOf(ch)
<1>1. snap.key = ch.key /\ snap.q = ch.q /\ snap.expires = ch.expires
  BY SnapshotMembers
<1> HIDE DEF snap
<1>2. Charges!Ch!evm_charge_pairings(snap) = Charges!Ch!evm_charge_pairings(ch)
  BY <1>1 DEF Charges!Ch!evm_charge_pairings
<1>3. Charges!Ch!tempo_charge_pairings(snap) = Charges!Ch!tempo_charge_pairings(ch)
  BY <1>1 DEF Charges!Ch!tempo_charge_pairings
<1>4. Charges!Ch!usdc_charge_pairings(snap) = Charges!Ch!usdc_charge_pairings(ch)
  BY <1>1 DEF Charges!Ch!usdc_charge_pairings
<1>5. /\ Charges!Ch!hedera_charge_pairings(snap) = Charges!Ch!hedera_charge_pairings(ch)
      /\ Charges!Ch!solana_charge_pairings(snap) = Charges!Ch!solana_charge_pairings(ch)
      /\ Charges!Ch!stellar_charge_pairings(snap) = Charges!Ch!stellar_charge_pairings(ch)
      /\ Charges!Ch!xrpl_charge_pairings(snap) = Charges!Ch!xrpl_charge_pairings(ch)
  BY <1>1 DEF Charges!Ch!hedera_charge_pairings, Charges!Ch!solana_charge_pairings,
         Charges!Ch!stellar_charge_pairings,
              Charges!Ch!xrpl_charge_pairings
<1>6. \A name : Charges!Ch!StripePairings(snap, name) = Charges!Ch!StripePairings(ch, name)
  BY <1>1 DEF Charges!Ch!StripePairings
<1>7. Charges!Ch!PAIRING_CHECKS(snap, TRUE) = Charges!Ch!PAIRING_CHECKS(ch, TRUE)
  BY <1>1, <1>2, <1>3, <1>4, <1>5, <1>6 DEF Charges!Ch!PAIRING_CHECKS, ChargeKeys
<1> QED
  BY <1>7 DEF snap

LEMMA SnapshotChecked == ASSUME NEW ch, ch.key \in ChargeKeys, NEW p
    PROVE  Charges!Ch!checked_for(SnapshotOf(ch), p) = Charges!Ch!checked_for(ch, p)
<1> DEFINE snap == SnapshotOf(ch)
           named == Charges!Ch!PAIRING_CHECKS(ch, TRUE)
<1>1. /\ snap.key = ch.key /\ snap.q = ch.q /\ snap.expires = ch.expires /\ snap.shape = ch.shape
      /\ snap.realm = ch.realm /\ snap.request = ch.request /\ snap.opaque = ch.opaque
  BY SnapshotMembers
<1>2. Charges!Ch!PAIRING_CHECKS(snap, TRUE) = named
  BY SnapshotChecks
<1> HIDE DEF snap, named
<1>3. Charges!Ch!EarlyFault(snap, TRUE, named) = Charges!Ch!EarlyFault(ch, TRUE, named)
  BY <1>1 DEF Charges!Ch!EarlyFault, Charges!Ch!CarrierTaken
<1>4. \A checked : Charges!Ch!TimedOf(snap, checked) = Charges!Ch!TimedOf(ch, checked)
  BY <1>1 DEF Charges!Ch!TimedOf
<1>5. Charges!Ch!check_challenge(snap, TRUE, TRUE) = Charges!Ch!check_challenge(ch, TRUE, TRUE)
  BY <1>2, <1>3, <1>4 DEF Charges!Ch!check_challenge, named
<1>6. Charges!Ch!checked_for(snap, p) = Charges!Ch!checked_for(ch, p)
  BY <1>5 DEF Charges!Ch!checked_for
<1> QED
  BY <1>6 DEF snap

(* A check's refusal is the request's or the time's; what it names, the request does. *)
LEMMA CheckedFrom == ASSUME NEW ch
    PROVE  LET named == Charges!Ch!PAIRING_CHECKS(ch, TRUE)
               early == Charges!Ch!EarlyFault(ch, TRUE, named)
           IN  /\ Charges!Ch!check_challenge(ch, TRUE, TRUE).code \in {early.code, "mpp/expires-required"}
               /\ Charges!Ch!check_challenge(ch, TRUE, TRUE).code = "none" => early.code = "none"
               /\ Charges!Ch!check_challenge(ch, TRUE, TRUE).names \subseteq named.names
<1> DEFINE named == Charges!Ch!PAIRING_CHECKS(ch, TRUE)
           early == Charges!Ch!EarlyFault(ch, TRUE, named)
           timed == {p \in early.names : ch.expires \in {"good", "past", "far"} \/ p \notin Charges!Ch!NEEDS_EXPIRES}
<1>0. \E s : early = Charges!Ch!FirstFault(s, named.names)
  BY DEF Charges!Ch!EarlyFault
<1>1. early.names \subseteq named.names
  <2> HIDE DEF early, named
  <2> QED
    BY <1>0, FaultNames
<1>2. Charges!Ch!check_challenge(ch, TRUE, TRUE) = Charges!Ch!Timed(early, timed)
  BY DEF Charges!Ch!check_challenge, Charges!Ch!TimedOf
<1>3. timed \subseteq early.names
  OBVIOUS
<1>4. \E c, n : early = [code |-> c, names |-> n]
  <2> HIDE DEF early, named
  <2> QED
    BY <1>0, FaultShape
<1> HIDE DEF timed, named, early
<1>5. /\ Charges!Ch!Timed(early, timed).code \in {early.code, "mpp/expires-required"}
      /\ Charges!Ch!Timed(early, timed).code = "none" => early.code = "none"
      /\ Charges!Ch!Timed(early, timed).names \subseteq timed
  BY <1>4 DEF Charges!Ch!Timed, Charges!Ch!No
<1> QED
  BY <1>1, <1>2, <1>3, <1>5 DEF early, named

LEMMA CheckedNeverOk == ASSUME NEW ch, ch.key \in ChargeKeys, NEW p
    PROVE  Charges!Ch!checked_for(ch, p) # "ok"
<1>1. Charges!Ch!PAIRING_CHECKS(ch, TRUE).code # "ok"
  BY ChargeCodes
<1>2. Charges!Ch!check_challenge(ch, TRUE, TRUE).code # "ok"
  BY <1>1, CheckedFrom, ChargeEarlyOk
<1> QED
  BY <1>2 DEF Charges!Ch!checked_for, Charges!Ch!Names

LEMMA CheckedNone == ASSUME NEW ch, NEW p, Charges!Ch!checked_for(ch, p) = "none"
    PROVE  /\ ch.shape /\ ch.realm # "unencodable" /\ ch.request # "bad" /\ ch.opaque.form # "bad"
           /\ p \in Charges!Ch!PAIRING_CHECKS(ch, TRUE).names
<1>1. Charges!Ch!check_challenge(ch, TRUE, TRUE).code = "none" /\ p \in Charges!Ch!check_challenge(ch, TRUE, TRUE).names
  BY DEF Charges!Ch!checked_for, Charges!Ch!Names
<1> QED
  BY <1>1, CheckedFrom, ChargeEarly

LEMMA ReadAlone == ASSUME NEW ch
    PROVE Charges!Ch!read(<<ch>>) = Charges!Ch!Found(Charges!Ch!ReadOne(Charges!Ch!Unread, ch))
<1> DEFINE unread == Charges!Ch!Unread
           doc == <<ch>>
           Reads(f) == f = [n \in 0..Len(doc) |-> IF n = 0 THEN unread ELSE Charges!Ch!ReadOne(f[n - 1], doc[n])]
           f == CHOOSE f : Reads(f)
<1>1. Len(doc) = 1 /\ doc[1] = ch
  OBVIOUS
<1>2. Charges!Ch!read(doc) = Charges!Ch!Found(f[Len(doc)])
  <2>1. ~(Len(doc) > 32)
    BY <1>1
  <2> QED
    BY <2>1 DEF Charges!Ch!read
<1> DEFINE one(r) == Charges!Ch!ReadOne(r, ch)
           g == [n \in 0..1 |-> IF n = 0 THEN unread ELSE one(unread)]
<1>3. \A k : Reads(k) <=> k = [n \in 0..1 |-> IF n = 0 THEN unread ELSE one(k[n - 1])]
  <2>1. \A n \in 0..1 : n # 0 => n = 1
    OBVIOUS
  <2> HIDE DEF one, unread
  <2> TAKE k
  <2>2. \A n \in 0..1 :
          (IF n = 0 THEN unread ELSE Charges!Ch!ReadOne(k[n - 1], doc[n])) = (IF n = 0 THEN unread ELSE one(k[n - 1]))
    BY <1>1, <2>1 DEF one
  <2>3. [n \in 0..1 |-> IF n = 0 THEN unread ELSE Charges!Ch!ReadOne(k[n - 1], doc[n])]
        = [n \in 0..1 |-> IF n = 0 THEN unread ELSE one(k[n - 1])]
    BY <2>2
  <2> QED
    BY <1>1, <2>3
<1> HIDE DEF one, unread, doc, Reads
<1>4. g = [n \in 0..1 |-> IF n = 0 THEN unread ELSE one(g[n - 1])]
  OBVIOUS
<1>5. Reads(g)
  BY <1>3, <1>4
<1>6. Reads(f)
  BY <1>5 DEF f
<1>7. f = [n \in 0..1 |-> IF n = 0 THEN unread ELSE one(f[n - 1])]
  BY <1>3, <1>6
<1>8. f[0] = unread /\ f[1] = one(f[0])
  <2> HIDE DEF f
  <2> QED
    BY <1>7
<1> QED
  BY <1>1, <1>2, <1>8 DEF one, unread, doc

LEMMA ReadOurs == ASSUME NEW ch, Charges!Ch!read(<<ch>>).code = "none"
    PROVE  ch.shape /\ ch.opaque.form = "map" /\ ch.opaque.h # None /\ Charges!Ch!challenge_id_h(ch) = ch.opaque.h
<1> DEFINE unread == Charges!Ch!Unread
           ours == ch.shape /\ ch.opaque.form = "map" /\ ch.opaque.h # None
             /\ Charges!Ch!challenge_id_h(ch) = ch.opaque.h
<1>1. Charges!Ch!read(<<ch>>) = Charges!Ch!Found(Charges!Ch!ReadOne(unread, ch))
  BY ReadAlone
<1>2. ~ours => Charges!Ch!ReadOne(unread, ch) = unread
  BY DEF Charges!Ch!ReadOne
<1>3. unread.code = "none" /\ unread.h = None /\ Charges!Ch!Found(unread).code # "none"
  BY DEF Charges!Ch!Unread, Charges!Ch!Found
<1> QED
  BY <1>1, <1>2, <1>3

ChargeNames == {"mpp/charge/evm/authorization", "mpp/charge/evm/permit2", "mpp/charge/tempo/memo",
      "mpp/charge/tempo/push",
          "mpp/charge/hedera", "mpp/charge/solana", "mpp/charge/usdc/solana", "mpp/charge/usdc/evm",
          "mpp/charge/usdc/gateway", "mpp/charge/usdc/stacks", "mpp/charge/stellar", "mpp/charge/xrpl"}

LEMMA ChargesNames == Charges!Pairings = ChargeNames
  BY DEF Charges!Pairings, Charges!Typed, Charges!Tempos, Charges!Solanas, Charges!Usdcs, Charges!Hedera,
         Charges!Stellar,
         Charges!Xrpl, Charges!Authorization, Charges!Permit2, Charges!UsdcEvm, Charges!Memo, Charges!Push,
             Charges!Solana,
         Charges!UsdcSolana, Charges!Gateway, Charges!Stacks, ChargeNames

LEMMA ChargesKeys == \A p \in ChargeNames : Charges!Ch!KeyOf(p) \in ChargeKeys \ {"mpp/charge/stripe"}
<1> DEFINE types == Charges!Ch!EVM_CREDENTIAL_TYPES
<1>1. /\ DOMAIN types = {"permit2", "authorization", "transaction", "hash"}
      /\ types["permit2"] = "mpp/charge/evm/permit2" /\ types["authorization"] = "mpp/charge/evm/authorization"
      /\ types["transaction"] = "mpp/charge/evm/transaction" /\ types["hash"] = "mpp/charge/evm/hash"
  BY DEF Charges!Ch!EVM_CREDENTIAL_TYPES
<1> HIDE DEF types
<1>2. {types[t] : t \in DOMAIN types} =
            {"mpp/charge/evm/permit2", "mpp/charge/evm/authorization", "mpp/charge/evm/transaction",
              "mpp/charge/evm/hash"}
  BY <1>1
<1> QED
  BY <1>2 DEF Charges!Ch!KeyOf, ChargeKeys, ChargeNames, types

LEMMA ChargesOffer == ASSUME NEW p \in ChargeNames, NEW o \in Charges!Options(p)
   PROVE /\ o.key \in {Charges!Ch!KeyOf(p), "mpp/charge/stripe"}
         /\ o.size \in {"small", "edge", "padded", "large"}
<1>1. PICK h \in Charges!HonestOptions(p) : o \in Charges!OneOff(h, Charges!ChallengeForms(p, h))
  BY DEF Charges!Options
<1>2. h.key = Charges!Ch!KeyOf(p) /\ h.size = "small"
  BY DEF Charges!HonestOptions, Charges!HonestOption
<1> DEFINE forms == Charges!ChallengeForms(p, h)
<1>3. forms["key"] = {"mpp/charge/stripe"} /\ forms["size"] \subseteq {"edge", "padded", "large"}
  BY DEF Charges!ChallengeForms
<1> HIDE DEF forms
<1>4. ASSUME NEW m \in DOMAIN h, NEW f \in forms[m], o = [h EXCEPT ![m] = f]
      PROVE  o.key \in {Charges!Ch!KeyOf(p), "mpp/charge/stripe"} /\ o.size \in {"small", "edge", "padded", "large"}
  BY <1>2, <1>3, <1>4
<1>5. o \in Charges!OneOff(h, forms)
  BY <1>1 DEF forms
<1>6. o = h \/ \E m \in DOMAIN h : \E f \in forms[m] : o = [h EXCEPT ![m] = f]
  BY <1>5 DEF Charges!OneOff
<1> QED
  BY <1>2, <1>4, <1>6

LEMMA ChargesFirst == \A s : Charges!First(s) = First(s)
  BY DEF Charges!First, First

(* chosen_for is a refusal, but for a challenge the document offers.        *)
LEMMA ChargesChosen == ASSUME NEW p \in ChargeNames, NEW o \in Charges!Options(p), NEW h
   PROVE /\ Charges!Ch!chosen_for(o, h, p) # "ok"
         /\ Charges!Offered(p, o) => (Charges!Ch!chosen_for(o, h, p) = "none" <=> o.id.h = h /\ o.size # "large")
<1> DEFINE snap == SnapshotOf(o)
<1>1. /\ snap.key = o.key /\ snap.shape = o.shape /\ snap.realm = o.realm /\ snap.request = o.request
      /\ snap.opaque = o.opaque /\ snap.id = o.id
      /\ snap.size = IF o.size = "padded" THEN "small" ELSE o.size
  BY SnapshotMembers
<1>2. o.key \in ChargeKeys /\ o.size \in {"small", "edge", "padded", "large"}
  BY ChargesOffer, ChargesKeys DEF ChargeKeys
<1>3. Charges!Ch!checked_for(snap, p) = Charges!Ch!checked_for(o, p) /\ Charges!Ch!checked_for(o, p) # "ok"
  BY <1>2, SnapshotChecked, CheckedNeverOk
<1>4. Charges!Ch!chosen_for(o, h, p) =
          LET held == Charges!Ch!held_for(snap, FALSE, p)
          IN  IF held # "none" THEN held ELSE IF Charges!Ch!challenge_id_h(o) # h THEN "mpp/id-not-ours" ELSE "none"
  BY DEF Charges!Ch!chosen_for, Charges!Ch!chosen_held, Charges!Ch!Or, SnapshotOf
<1> HIDE DEF snap
<1>5. Charges!Ch!challenge_id_h(snap) = Charges!Ch!challenge_id_h(o)
  BY <1>1 DEF Charges!Ch!challenge_id_h
<1>6. Charges!Ch!Within(snap.size, FALSE) <=> o.size # "large"
  BY <1>1, <1>2 DEF Charges!Ch!Within
<1>7. Charges!Ch!held_for(snap, FALSE, p) =
          LET bound == Charges!Ch!challenge_bound(snap, FALSE)
          IN  IF bound # "none" THEN bound
              ELSE IF o.key # Charges!Ch!KeyOf(p) THEN "mpp/not-this-pairing" ELSE Charges!Ch!checked_for(o, p)
  BY <1>1, <1>3 DEF Charges!Ch!held_for, Charges!Ch!Or
<1>8. Charges!Ch!challenge_bound(snap, FALSE) # "ok"
  BY ChargeBound
<1>9. Charges!Ch!chosen_for(o, h, p) # "ok"
  BY <1>3, <1>4, <1>7, <1>8
<1>10. ASSUME Charges!Offered(p, o)
       PROVE  Charges!Ch!chosen_for(o, h, p) = "none" <=> o.id.h = h /\ o.size # "large"
  <2>1. /\ o.shape /\ o.opaque.form = "map" /\ o.opaque.h # None /\ Charges!Ch!challenge_id_h(o) = o.opaque.h
    BY <1>10, ReadOurs DEF Charges!Offered
  <2>2. Charges!Ch!checked_for(o, p) = "none"
    BY <1>10 DEF Charges!Offered
  <2>3. o.realm # "unencodable" /\ o.request # "bad" /\ p \in Charges!Ch!PAIRING_CHECKS(o, TRUE).names
    BY <2>2, CheckedNone
  <2>4. o.id.string /\ Charges!Ch!challenge_id_h(o) = o.id.h
    BY <2>1 DEF Charges!Ch!challenge_id_h
  <2>5. o.key # "mpp/charge/stripe"
    <3> SUFFICES ASSUME o.key = "mpp/charge/stripe" PROVE FALSE
      OBVIOUS
    <3>1. Charges!Ch!PAIRING_CHECKS(o, TRUE) = Charges!Ch!StripePairings(o, "mpp/charge/stripe")
      BY DEF Charges!Ch!PAIRING_CHECKS
    <3>2. Charges!Ch!PAIRING_CHECKS(o, TRUE).names \subseteq {"mpp/charge/stripe"}
      BY <3>1, FaultNames DEF Charges!Ch!StripePairings
    <3> QED
      BY <2>3, <3>2 DEF ChargeNames
  <2>6. o.key = Charges!Ch!KeyOf(p)
    BY <2>5, ChargesOffer
  <2>7. Charges!Ch!challenge_bound(snap, FALSE) = "none" <=> o.size # "large"
    BY <1>1, <1>5, <1>6, <2>1, <2>3, <2>4, ChargeBound
  <2> QED
    BY <1>4, <1>7, <2>2, <2>4, <2>6, <2>7
<1> QED
  BY <1>9, <1>10

LEMMA ChargesStellarFirst == \A s : Charges!StellarX!First(s) = First(s)
  BY DEF Charges!StellarX!First, First

LEMMA ChargesSigns == ASSUME NEW at, NEW c, NEW h, c.given = Charges!StellarX!Given(h), at.timeout = "seconds"
  PROVE /\ Charges!StellarX!SigningInput(at, c) = "ok" /\ Charges!StellarX!SigningFor(at, c) = "ok"
        /\ at.payTo = h => Charges!StellarX!SignsOption(c.given.simulated, at) = "ok"
        /\ c.given.ledger = "now" /\ c.given.payer = "payer" /\ c.given.simulated.xdr = "wire"
<1> DEFINE t == Charges!StellarX!Transfer(h)
<1>1. c.given.simulated = t /\ c.given.ledger = "now" /\ c.given.payer = "payer"
  BY DEF Charges!StellarX!Given
<1>2. t.xdr = "wire" /\ t.call = "transfer" /\ t.entries = "one" /\ t.entry = "shallow" /\ t.root = "transfer"
        /\ t.source = "payer" /\ t.to = h
   /\ t.agrees = "yes" /\ t.asset = "option" /\ t.amount = "option"
  BY DEF Charges!StellarX!Transfer
<1> HIDE DEF t
<1>3. Charges!StellarX!Bytes(t) = "ok"
  BY <1>2, ChargesStellarFirst, First2 DEF Charges!StellarX!Bytes, Charges!StellarX!When
<1>4. Charges!StellarX!Envelope(t) = "ok"
  BY <1>2, ChargesStellarFirst, First3 DEF Charges!StellarX!Envelope, Charges!StellarX!When, Charges!StellarX!Reader,
        Charges!StellarX!AuthEntry, Charges!StellarX!Invocation, Charges!StellarX!ScVal, Charges!StellarX!ScAddress,
        Charges!StellarX!Preconditions, Charges!StellarX!OtherOperation
<1>5. Charges!StellarX!Operation(t) = "ok"
  BY <1>2, <1>4, ChargesStellarFirst, First3 DEF Charges!StellarX!Operation, Charges!StellarX!When
<1>6. Charges!StellarX!Parsed(t) = "ok"
  BY <1>2, <1>5, ChargesStellarFirst, First4 DEF Charges!StellarX!Parsed, Charges!StellarX!When
<1>7. Charges!StellarX!SigningInput(at, c) = "ok"
  BY <1>1, <1>2, <1>3, ChargesStellarFirst, First3 DEF Charges!StellarX!SigningInput, Charges!StellarX!Expiration,
         Charges!StellarX!When
<1>8. Charges!StellarX!SigningFor(at, c) = "ok"
  BY <1>1, <1>2, <1>6, <1>7, ChargesStellarFirst, First3 DEF Charges!StellarX!SigningFor, Charges!StellarX!When
<1>9. at.payTo = h => Charges!StellarX!SignsOption(t, at) = "ok"
  BY <1>2, ChargesStellarFirst, First5 DEF Charges!StellarX!SignsOption, Charges!StellarX!When
<1> QED
  BY <1>1, <1>2, <1>7, <1>8, <1>9

LEMMA ChargesHonest == ASSUME NEW p, NEW c \in Charges!HonestChoices(p)
   PROVE  /\ c.choice = "object" /\ c.account = "here"
          /\ p = "mpp/charge/stellar" => c.given = Charges!StellarX!Given(c.h)
          /\ p # "mpp/charge/stellar" => c.given \in {"pull", "push", "inputs"}
<1>1. PICK h \in Hashes : c \in {Charges!ChargeChoice(h, g) : g \in Charges!HonestGiven(p, h)}
  BY DEF Charges!HonestChoices
<1>2. PICK g \in Charges!HonestGiven(p, h) : c = Charges!ChargeChoice(h, g)
  BY <1>1
<1>3. c.h = h /\ c.choice = "object" /\ c.account = "here" /\ c.given = g
  BY <1>2 DEF Charges!ChargeChoice
<1> QED
  BY <1>2, <1>3 DEF Charges!HonestGiven, Charges!Stellar, Charges!Hedera

(* What build answers over a challenge the document offers.                 *)
ChosenCode(p, o, c) == Charges!Ch!chosen_for(o, c.h, p)

LEMMA ChargesFault == \A code : Charges!Fault(code) = IF code = "none" THEN "ok" ELSE code
  BY DEF Charges!Fault, Charges!When

LEMMA ChargesBuilds ==
    ASSUME NEW p \in ChargeNames, NEW o, NEW c \in Charges!HonestChoices(p), ChosenCode(p, o, c) # "ok"
    PROVE  Charges!Built(p, o, c) = "ok" <=>
               /\ Charges!Offered(p, o) /\ ChosenCode(p, o, c) = "none"
               /\ p \in {"mpp/charge/solana", "mpp/charge/usdc/solana", "mpp/charge/stellar", "mpp/charge/xrpl"} =>
                      Charges!CarrierOf(p, o.q) = c.h
               /\ p \in {"mpp/charge/solana", "mpp/charge/usdc/solana"} => o.q.sponsor # "invoked"
<1> DEFINE chosen == Charges!ChosenFor(p, o, c)
           solana == {"mpp/charge/solana", "mpp/charge/usdc/solana"}
           met == Charges!CarrierOf(p, o.q) = c.h
<1>1. /\ c.choice = "object" /\ c.account = "here"
      /\ p = "mpp/charge/stellar" => c.given = Charges!StellarX!Given(c.h)
      /\ p # "mpp/charge/stellar" => c.given \in {"pull", "push", "inputs"}
  BY ChargesHonest
<1>2. chosen = "ok" <=> ChosenCode(p, o, c) = "none"
  BY ChargesFault DEF Charges!ChosenFor, ChosenCode
<1>3. \A code : code # "ok" => (Charges!Carries(p, o, c, code) = "ok" <=> met)
  BY DEF Charges!Carries, Charges!When
<1>4. ~Charges!InputMissing(p, c)
  <2>1. CASE p = "mpp/charge/stellar"
    <3>1. c.given.ledger = "now" /\ c.given.simulated.xdr = "wire"
      BY <1>1, <2>1 DEF Charges!StellarX!Given, Charges!StellarX!Transfer
    <3> QED
      BY <2>1, <3>1 DEF Charges!InputMissing, Charges!Stellar
  <2> QED
    BY <1>1, <2>1 DEF Charges!InputMissing, Charges!Stellar
<1> DEFINE branch ==
    CASE p = Charges!Hedera -> Charges!HederaBuilt(o, c)
      [] p \in Charges!Solanas -> Charges!SolanaBuilt(p, o, c)
      [] p = Charges!Stellar -> Charges!StellarBuilt(o, c)
      [] p = Charges!Xrpl -> Charges!XrplBuilt(o, c)
      [] OTHER -> Charges!OfferFor(p, o, c)
<1>5. Charges!Built(p, o, c) = First(<<IF Charges!Offered(p, o) THEN "ok" ELSE "mpp/no-payable-option", "ok", branch>>)
  BY <1>1, <1>4, ChargesFirst DEF Charges!Built, Charges!When
<1>6. CASE p = "mpp/charge/hedera"
  <2>1. Charges!HederaBuilt(o, c) = "ok" <=> chosen = "ok"
    BY <1>1, <1>6, ChargesFirst, First3 DEF Charges!HederaBuilt, Charges!When, Charges!Hedera
  <2>2. branch = Charges!HederaBuilt(o, c)
    BY <1>6 DEF Charges!Hedera, Charges!Solanas, Charges!Solana, Charges!UsdcSolana, Charges!Stellar, Charges!Xrpl
  <2> HIDE DEF branch, chosen, met
  <2> QED
    BY <1>2, <1>5, <1>6, <2>1, <2>2, First3
<1>7. CASE p \in solana
  <2>1. Charges!SolanaBuilt(p, o, c) = "ok" <=> chosen = "ok" /\ met /\ o.q.sponsor # "invoked"
    <3> HIDE DEF met
    <3> QED
      BY <1>1, <1>3, <1>7, ChargesFirst, First4 DEF Charges!SolanaBuilt, Charges!When
  <2>2. branch = Charges!SolanaBuilt(p, o, c)
    BY <1>7 DEF Charges!Hedera, Charges!Solanas, Charges!Solana, Charges!UsdcSolana, Charges!Stellar, Charges!Xrpl
  <2> HIDE DEF branch, chosen
  <2> QED
    BY <1>2, <1>5, <1>7, <2>1, <2>2, First3
<1>8. CASE p = "mpp/charge/stellar"
  <2> DEFINE at == [timeout |-> "seconds", payTo |-> Charges!CarrierOf(p, o.q)]
  <2>0. at.timeout = "seconds" /\ (at.payTo = c.h <=> met)
    OBVIOUS
  <2>a. Charges!StellarBuilt(o, c) =
          First(<<IF c.choice # "object" THEN "stellar/tx-malformed" ELSE "ok", chosen,
                  IF c.given.ledger = "malformed" THEN "stellar/tx-malformed" ELSE "ok",
                  IF c.given.payer = "malformed" THEN "stellar/payer-mismatch" ELSE "ok",
                  Charges!StellarX!SigningInput(at, c),
                  Charges!Carries(p, o, c, "stellar/carrier-mismatch"),
                  Charges!StellarX!SigningFor(at, c),
                  Charges!StellarX!SignsOption(c.given.simulated, at)>>)
    BY <1>8, ChargesFirst DEF Charges!StellarBuilt, Charges!When, Charges!Stellar
  <2> HIDE DEF at, met, chosen
  <2>b. /\ Charges!StellarX!SigningInput(at, c) = "ok" /\ Charges!StellarX!SigningFor(at, c) = "ok"
        /\ met => Charges!StellarX!SignsOption(c.given.simulated, at) = "ok"
        /\ c.given.ledger = "now" /\ c.given.payer = "payer"
    BY <1>1, <1>8, <2>0, ChargesSigns
  <2>1. Charges!StellarBuilt(o, c) = "ok" <=> chosen = "ok" /\ met
    BY <1>1, <1>3, <2>a, <2>b, First8
  <2>2. branch = Charges!StellarBuilt(o, c)
    BY <1>8 DEF Charges!Hedera, Charges!Solanas, Charges!Solana, Charges!UsdcSolana, Charges!Stellar, Charges!Xrpl
  <2> HIDE DEF branch
  <2> QED
    BY <1>2, <1>5, <1>8, <2>1, <2>2, First3 DEF met
<1>9. CASE p = "mpp/charge/xrpl"
  <2>1. Charges!XrplBuilt(o, c) = "ok" <=> chosen = "ok" /\ met
    <3>1. Charges!Carries(Charges!Xrpl, o, c, "xrpl/carrier-mismatch") = "ok" <=> met
      BY <1>3, <1>9 DEF Charges!Xrpl
    <3>2. Charges!ChosenFor(Charges!Xrpl, o, c) = chosen
      BY <1>9 DEF Charges!Xrpl
    <3> HIDE DEF met, chosen
    <3> QED
      BY <1>1, <1>9, <3>1, <3>2, ChargesFirst, First4 DEF Charges!XrplBuilt, Charges!When
  <2>2. branch = Charges!XrplBuilt(o, c)
    BY <1>9 DEF Charges!Hedera, Charges!Solanas, Charges!Solana, Charges!UsdcSolana, Charges!Stellar, Charges!Xrpl
  <2> HIDE DEF branch, chosen
  <2> QED
    BY <1>2, <1>5, <1>9, <2>1, <2>2, First3
<1>10. CASE p \notin solana \cup {"mpp/charge/hedera", "mpp/charge/stellar", "mpp/charge/xrpl"}
  <2>1. Charges!OfferFor(p, o, c) = "ok" <=> chosen = "ok"
    <3> HIDE DEF chosen
    <3> QED
      BY <1>1, <1>10, ChargesFirst, First3 DEF Charges!OfferFor, Charges!When, chosen
  <2>2. branch = Charges!OfferFor(p, o, c)
    BY <1>10 DEF Charges!Hedera, Charges!Solanas, Charges!Solana, Charges!UsdcSolana, Charges!Stellar, Charges!Xrpl
  <2> HIDE DEF branch, chosen
  <2> QED
    BY <1>2, <1>5, <1>10, <2>1, <2>2, First3
<1> QED
  BY <1>6, <1>7, <1>8, <1>9, <1>10

(* The filter serves what build takes.                                      *)
LEMMA ChargesFilters == ChargesP!Filters
<1> SUFFICES ASSUME NEW p \in ChargeNames, NEW o \in Charges!Options(p), NEW c \in Charges!HonestChoices(p)
             PROVE  /\ Charges!Built(p, o, c) = "ok" <=> Charges!Served(p, o) = "ok" /\ ~Charges!BuildOnly(p, o, c.h)
                    /\ Charges!Served(p, o) \notin {"ok", "none"} => Charges!Built(p, o, c) = Charges!Served(p, o)
  BY ChargesNames DEF ChargesP!Filters
<1>1. Charges!Served(p, o) = IF Charges!Offered(p, o) THEN "ok" ELSE "none"
  BY DEF Charges!Served, Charges!When
<1>2. /\ ChosenCode(p, o, c) # "ok"
      /\ Charges!Offered(p, o) => (ChosenCode(p, o, c) = "none" <=> o.id.h = c.h /\ o.size # "large")
  BY ChargesChosen DEF ChosenCode
<1>3. ~Charges!BuildOnly(p, o, c.h) <=>
          /\ o.id.h = c.h /\ o.size # "large"
          /\ p \in {"mpp/charge/solana", "mpp/charge/usdc/solana", "mpp/charge/stellar", "mpp/charge/xrpl"} =>
                 Charges!CarrierOf(p, o.q) = c.h
          /\ p \in {"mpp/charge/solana", "mpp/charge/usdc/solana"} => o.q.sponsor # "invoked"
  BY DEF Charges!BuildOnly, Charges!Solanas, Charges!Solana, Charges!UsdcSolana, Charges!Stellar, Charges!Xrpl
<1> QED
  BY <1>1, <1>2, <1>3, ChargesBuilds

LEMMA ChargesAgrees ==
    ASSUME NEW p, NEW paid,
           \/ paid.payload.type \in Charges!Takes(p, paid.challenge)
           \/ Charges!Ch!Within(paid.challenge.size, TRUE) => Charges!Ch!held_for(paid.challenge, TRUE, p) = "none"
    PROVE  ChargesP!Agrees(p, paid)
<1> DEFINE ch == paid.challenge
           held == Charges!Ch!held_for(ch, TRUE, p)
           faulty == paid.shape # "whole" \/ ~ch.shape \/ ~ch.id.string \/ ~Charges!Ch!Within(ch.size, TRUE)
           taken == paid.payload.type \in Charges!Takes(p, ch)
           type == Charges!ByType(paid.payload.type)
<1>1. Charges!Told(p, paid) = First(<<IF faulty THEN "mpp/credential-malformed" ELSE "ok",
                                      IF taken THEN "ok" ELSE "mpp/credential-type", type>>)
  BY ChargesFirst DEF Charges!Told, Charges!CredentialShape, Charges!NotTaken, Charges!When
<1>2. \E r1, r2 : Charges!Bound(p, paid) = First(<<IF paid.shape # "whole" THEN "mpp/credential-malformed" ELSE "ok",
                                      Charges!Fault(held), IF taken THEN "ok" ELSE "mpp/credential-type", r1, r2>>)
  BY ChargesFirst DEF Charges!Bound, Charges!NotTaken, Charges!When
<1>3. type \in {"payer", "payee"}
  BY DEF Charges!ByType
<1>4. Charges!Fault(held) = IF held = "none" THEN "ok" ELSE held
  BY ChargesFault
<1>5. ~ch.shape \/ ~ch.id.string \/ ~Charges!Ch!Within(ch.size, TRUE) => held = "mpp/credential-malformed"
  BY ChargeBound DEF Charges!Ch!held_for, Charges!Ch!Or
<1>6. taken \/ (Charges!Ch!Within(ch.size, TRUE) => held = "none")
  OBVIOUS
<1>0. /\ faulty => paid.shape # "whole" \/ held = "mpp/credential-malformed"
      /\ ~faulty => paid.shape = "whole" /\ Charges!Ch!Within(ch.size, TRUE)
  BY <1>5
<1> HIDE DEF held, taken, type, ch, faulty
<1>a. PICK r1, r2 : Charges!Bound(p, paid) = First(<<IF paid.shape # "whole" THEN "mpp/credential-malformed" ELSE "ok",
                                      Charges!Fault(held), IF taken THEN "ok" ELSE "mpp/credential-type", r1, r2>>)
  BY <1>2
<1>b. Charges!Bound(p, paid) = IF paid.shape # "whole" THEN "mpp/credential-malformed"
                               ELSE IF held # "none" /\ held # "ok" THEN held
                               ELSE IF ~taken THEN "mpp/credential-type" ELSE IF r1 # "ok" THEN r1 ELSE r2
  BY <1>4, <1>a, First5
<1>c. Charges!Told(p, paid) = IF faulty THEN "mpp/credential-malformed" ELSE IF ~taken THEN "mpp/credential-type"
        ELSE type
  BY <1>1, First3
<1>7. CASE faulty
  BY <1>0, <1>7, <1>b, <1>c DEF ChargesP!Agrees
<1>8. CASE ~faulty /\ taken
  BY <1>3, <1>8, <1>c DEF ChargesP!Agrees
<1>9. CASE ~faulty /\ ~taken
  BY <1>0, <1>6, <1>9, <1>b, <1>c DEF ChargesP!Agrees
<1> QED
  BY <1>7, <1>8, <1>9

LEMMA ChargesTakes == \A p \in ChargeNames : \A c, ch : Charges!PayloadType(p, c) \in Charges!Takes(p, ch)
<1> SUFFICES ASSUME NEW p \in ChargeNames, NEW c, NEW ch PROVE Charges!PayloadType(p, c) \in Charges!Takes(p, ch)
  OBVIOUS
<1> QED
  BY DEF ChargeNames, Charges!PayloadType, Charges!Takes, Charges!Hedera, Charges!Solana, Charges!UsdcSolana,
         Charges!Stellar,
         Charges!Xrpl, Charges!Authorization, Charges!Permit2, Charges!UsdcEvm, Charges!Memo, Charges!Push,
             Charges!Gateway,
         Charges!Stacks

LEMMA ChargesChose == ASSUME NEW p \in ChargeNames, NEW o, NEW c, Charges!Built(p, o, c) = "ok"
    PROVE Charges!ChosenFor(p, o, c) = "ok"
<1> DEFINE chosen == Charges!ChosenFor(p, o, c)
           solana == {"mpp/charge/solana", "mpp/charge/usdc/solana"}
           branch ==
    CASE p = Charges!Hedera -> Charges!HederaBuilt(o, c)
      [] p \in Charges!Solanas -> Charges!SolanaBuilt(p, o, c)
      [] p = Charges!Stellar -> Charges!StellarBuilt(o, c)
      [] p = Charges!Xrpl -> Charges!XrplBuilt(o, c)
      [] OTHER -> Charges!OfferFor(p, o, c)
<1>1. branch = "ok"
  <2>1. \E r1, r2 : Charges!Built(p, o, c) = First(<<r1, r2, branch>>)
    BY ChargesFirst DEF Charges!Built
  <2> HIDE DEF branch
  <2> QED
    BY <2>1, First3
<1>2. /\ Charges!Hedera = "mpp/charge/hedera" /\ Charges!Solanas = solana /\ Charges!Stellar = "mpp/charge/stellar"
      /\ Charges!Xrpl = "mpp/charge/xrpl"
  BY DEF Charges!Hedera, Charges!Solanas, Charges!Solana, Charges!UsdcSolana, Charges!Stellar, Charges!Xrpl
<1>3. branch = IF p = "mpp/charge/hedera" THEN Charges!HederaBuilt(o, c)
              ELSE IF p \in solana THEN Charges!SolanaBuilt(p, o, c)
              ELSE IF p = "mpp/charge/stellar" THEN Charges!StellarBuilt(o, c)
              ELSE IF p = "mpp/charge/xrpl" THEN Charges!XrplBuilt(o, c) ELSE Charges!OfferFor(p, o, c)
  BY <1>2
<1> HIDE DEF branch, chosen
<1>4. CASE p = "mpp/charge/hedera"
  BY <1>1, <1>2, <1>3, <1>4, ChargesFirst, First3 DEF Charges!HederaBuilt, Charges!When, chosen
<1>5. CASE p \in solana
  BY <1>1, <1>3, <1>5, ChargesFirst, First4 DEF Charges!SolanaBuilt, Charges!When, chosen
<1>6. CASE p = "mpp/charge/stellar"
  <2> DEFINE at == [timeout |-> "seconds", payTo |-> Charges!CarrierOf(p, o.q)]
  <2>1. Charges!StellarBuilt(o, c) =
          First(<<IF c.choice # "object" THEN "stellar/tx-malformed" ELSE "ok", chosen,
                  IF c.given.ledger = "malformed" THEN "stellar/tx-malformed" ELSE "ok",
                  IF c.given.payer = "malformed" THEN "stellar/payer-mismatch" ELSE "ok",
                  Charges!StellarX!SigningInput(at, c),
                  Charges!Carries(p, o, c, "stellar/carrier-mismatch"),
                  Charges!StellarX!SigningFor(at, c),
                  Charges!StellarX!SignsOption(c.given.simulated, at)>>)
    BY <1>2, <1>6, ChargesFirst DEF Charges!StellarBuilt, Charges!When, chosen
  <2> HIDE DEF at
  <2>2. Charges!StellarBuilt(o, c) = "ok"
    BY <1>1, <1>3, <1>6
  <2>3. PICK r1, r3, r4, r5, r6, r7, r8 : Charges!StellarBuilt(o, c) = First(<<r1, chosen, r3, r4, r5, r6, r7, r8>>)
    BY <2>1
  <2>4. First(<<r1, chosen, r3, r4, r5, r6, r7, r8>>) =
            IF r1 # "ok" THEN r1 ELSE IF chosen # "ok" THEN chosen ELSE IF r3 # "ok" THEN r3
                 ELSE IF r4 # "ok" THEN r4 ELSE
            IF r5 # "ok" THEN r5 ELSE IF r6 # "ok" THEN r6 ELSE IF r7 # "ok" THEN r7 ELSE r8
    BY First8
  <2>5. chosen = "ok"
    BY <2>2, <2>3, <2>4
  <2> QED
    BY <2>5 DEF chosen
<1>7. CASE p = "mpp/charge/xrpl"
  <2>1. PICK r1, r3, r4 : Charges!XrplBuilt(o, c) = First(<<r1, chosen, r3, r4>>)
    BY <1>2, <1>7, ChargesFirst DEF Charges!XrplBuilt, chosen
  <2>2. Charges!XrplBuilt(o, c) = "ok"
    BY <1>1, <1>3, <1>7
  <2>a. First(<<r1, chosen, r3, r4>>) = IF r1 # "ok" THEN r1 ELSE IF chosen # "ok" THEN chosen ELSE IF r3 # "ok" THEN r3
          ELSE r4
    BY First4
  <2>3. chosen = "ok"
    BY <2>1, <2>2, <2>a
  <2> QED
    BY <2>3 DEF chosen
<1>8. CASE p \notin solana \cup {"mpp/charge/hedera", "mpp/charge/stellar", "mpp/charge/xrpl"}
  <2>1. Charges!OfferFor(p, o, c) = "ok"
    BY <1>1, <1>3, <1>8
  <2> QED
    BY <2>1, ChargesFirst, First3 DEF Charges!OfferFor, Charges!When
<1> QED
  BY <1>4, <1>5, <1>6, <1>7, <1>8 DEF chosen

(* What a branch payment echoes is held to its pairing, unless it is too large. *)
LEMMA ChargesHeld ==
    ASSUME NEW p \in ChargeNames, NEW o \in Charges!Options(p), NEW c, Charges!Built(p, o, c) = "ok",
           Charges!Ch!Within(Charges!Echo(p, o).size, TRUE)
    PROVE  Charges!Ch!held_for(Charges!Echo(p, o), TRUE, p) = "none"
<1> DEFINE snap == SnapshotOf(o)
           echo == Charges!Echo(p, o)
<1>1. /\ snap.key = o.key /\ snap.shape = o.shape /\ snap.realm = o.realm /\ snap.request = o.request
      /\ snap.opaque = o.opaque /\ snap.id = o.id
  BY SnapshotMembers
<1>2. echo \in {o, snap}
  BY DEF Charges!Echo, SnapshotOf
<1>3. o.key \in ChargeKeys
  BY ChargesOffer, ChargesKeys DEF ChargeKeys
<1>4. Charges!Ch!checked_for(snap, p) = Charges!Ch!checked_for(o, p)
  BY <1>3, SnapshotChecked
<1>5. Charges!Ch!chosen_for(o, c.h, p) = "none"
  BY ChargesChose, ChargesChosen, ChargesFault DEF Charges!ChosenFor
<1>6. Charges!Ch!held_for(snap, FALSE, p) = "none"
  BY <1>5 DEF Charges!Ch!chosen_for, Charges!Ch!chosen_held, Charges!Ch!Or, SnapshotOf
<1> HIDE DEF snap, echo
<1>7. /\ Charges!Ch!challenge_bound(snap, FALSE) = "none" /\ snap.key = Charges!Ch!KeyOf(p)
      /\ Charges!Ch!checked_for(snap, p) = "none"
  <2>1. Charges!Ch!checked_for(snap, p) = "none"
          \/ Charges!Ch!held_for(snap, FALSE, p) # Charges!Ch!checked_for(snap, p)
    BY <1>6
  <2> QED
    BY <1>6, <2>1 DEF Charges!Ch!held_for, Charges!Ch!Or
<1>8. echo.key = o.key /\ echo.shape = o.shape /\ echo.realm = o.realm /\ echo.request = o.request
      /\ echo.opaque = o.opaque /\ echo.id = o.id /\ Charges!Ch!checked_for(echo, p) = "none"
  BY <1>1, <1>2, <1>4, <1>7
<1>9. \A ch \in {echo, snap} :
        Charges!Ch!challenge_id_h(ch) = IF o.id.string /\ o.id.dot # (o.key = "mpp/subscription/tempo") THEN o.id.h
          ELSE None
  BY <1>1, <1>8 DEF Charges!Ch!challenge_id_h
<1>10. Charges!Ch!challenge_bound(echo, TRUE) = "none"
  BY <1>1, <1>7, <1>8, <1>9, ChargeBound DEF echo
<1>11. Charges!Ch!held_for(echo, TRUE, p) = "none"
  BY <1>1, <1>7, <1>8, <1>10 DEF Charges!Ch!held_for, Charges!Ch!Or
<1> QED
  BY <1>11 DEF echo

(* broadcaster refuses as bound does.                                       *)
LEMMA ChargesTells == ChargesP!Tells
<1> SUFFICES ASSUME NEW p \in ChargeNames, NEW o \in Charges!Options(p), NEW c, Charges!Built(p, o, c) = "ok", NEW paid,
                      NEW given,
                    \/ paid = Charges!Paid(p, o, c, given)
                    \/ \E changed \in Charges!Altered(p, Charges!Paid(p, o, c, given)) : paid = changed[1]
             PROVE  ChargesP!Agrees(p, paid)
  BY ChargesNames DEF ChargesP!Tells, ChargesP!Gives, ChargesP!Honest
<1> DEFINE whole == Charges!Paid(p, o, c, given)
<1>1. whole.challenge = Charges!Echo(p, o) /\ whole.payload.type = Charges!PayloadType(p, c)
  BY DEF Charges!Paid
<1>2. whole = [shape |-> "whole", challenge |-> whole.challenge, payload |-> whole.payload]
  BY DEF Charges!Paid
<1> HIDE DEF whole
<1>3. paid.challenge = whole.challenge \/ paid.payload = whole.payload
  <2>1. ASSUME paid = whole PROVE paid.challenge = whole.challenge
    BY <2>1
  <2>2. ASSUME NEW changed \in Charges!Altered(p, whole), paid = changed[1]
        PROVE  paid.challenge = whole.challenge \/ paid.payload = whole.payload
    <3>2. ASSUME changed = <<[whole EXCEPT !.shape = "malformed"], TRUE>>
          PROVE  paid.challenge = whole.challenge
      BY <1>2, <2>2, <3>2
    <3>3. ASSUME NEW ch, changed = <<[whole EXCEPT !.challenge = ch], TRUE>>
          PROVE  paid.payload = whole.payload
      BY <1>2, <2>2, <3>3
    <3>4. ASSUME NEW type, NEW held, NEW u,
                 changed = <<[whole EXCEPT !.payload = [type |-> type, held |-> held, tx |-> u]],
                             Charges!SignedWhole(p, whole.payload.tx, u)>>
          PROVE  paid.challenge = whole.challenge
      BY <1>2, <2>2, <3>4
    <3> DEFINE t == whole.payload.tx
               forms == {<<[whole EXCEPT !.challenge = ch], TRUE>> :
                            ch \in Charges!OneOff(whole.challenge, Charges!ChallengeForms(p, whole.challenge))
                                   \cup Charges!Swapped(whole.challenge)}
               payloads == {<<[whole EXCEPT !.payload = [type |-> type, held |-> held, tx |-> u]],
                 Charges!SignedWhole(p, t, u)>> :
                               type \in Charges!Takes(p, whole.challenge) \cup {"hash", "other"},
                                 held \in {"read", "unread"},
                               u \in Charges!OneOff(t, Charges!TxForms(p))}
    <3>5. Charges!Altered(p, whole) = {<<[whole EXCEPT !.shape = "malformed"], TRUE>>} \cup forms \cup payloads
      BY DEF Charges!Altered
    <3>6. changed \in payloads => paid.challenge = whole.challenge
      BY <3>4
    <3>7. changed \in forms => paid.payload = whole.payload
      BY <3>3
    <3> HIDE DEF forms, payloads
    <3> QED
      BY <3>2, <3>5, <3>6, <3>7
  <2> QED
    BY <2>1, <2>2 DEF whole
<1>4. CASE paid.payload = whole.payload
  BY <1>1, <1>4, ChargesTakes, ChargesAgrees
<1>5. CASE paid.challenge = whole.challenge
  BY <1>1, <1>5, ChargesHeld, ChargesAgrees
<1> QED
  BY <1>3, <1>4, <1>5

(***************************************************************************)
(* EVM.                                                                     *)
(***************************************************************************)
EvmP == INSTANCE PaymentProofs WITH
    Pairings <- Evm!Pairings, PublicProof <- Evm!PublicProof, Options <- Evm!Options,
    HonestOptions <- Evm!HonestOptions, Choices <- Evm!Choices, HonestChoices <- Evm!HonestChoices,
    Answers <- Evm!Answers, HonestAnswer <- Evm!HonestAnswer, Altered <- Evm!Altered, Served <- Evm!Served,
    BuildOnly <- Evm!BuildOnly, Built <- Evm!Built, Completed <- Evm!Completed, Paid <- Evm!Paid, Bound <- Evm!Bound,
    Told <- Evm!Told

LEMMA EvmFirst == \A s : Evm!First(s) = First(s)
  BY DEF Evm!First, First

LEMMA EvmPaid ==
    /\ \A c, o, t : Evm!PaymentWith(c, o, t) = PaymentWith(c, o, t)
    /\ \A x, o, t, n : Evm!Variants(x, o, t, n) = Variants(x, o, t, n)
  BY DEF Evm!OneOff, OneOff, Evm!PaymentWith, PaymentWith, Evm!EnvelopeForms, EnvelopeForms, Evm!Variants, Variants

LEMMA EvmGate ==
    /\ \A x, a, k : Evm!Broadcaster(x, a, k) = Broadcaster(x, a, k)
    /\ \A x : Evm!PresentedWith(x, "ok") = PresentedWith(x, "ok")
    /\ \A x, k : Evm!Shape(x, k) = Shape(x, k)
    /\ Evm!ShapeCodes = ShapeCodes
  BY EvmFirst DEF Evm!When, When, Evm!Shape, Shape, Evm!Broadcaster, Broadcaster, Evm!PresentedWith, PresentedWith,
         Evm!AcceptedBy, AcceptedBy, Evm!Refused, Refused, Evm!ShapeCodes, ShapeCodes

LEMMA EvmErc7710 == \A o : Evm!Served(Evm!ExactErc7710Salt, o) = Evm!Served(Evm!ExactErc7710, o)
<1> SUFFICES ASSUME NEW o PROVE Evm!Served(Evm!ExactErc7710Salt, o) = Evm!Served(Evm!ExactErc7710, o)
  OBVIOUS
<1>1. Evm!OptionPairing(Evm!ExactErc7710Salt) = Evm!ExactErc7710
        /\ Evm!OptionPairing(Evm!ExactErc7710) = Evm!ExactErc7710
  BY DEF Evm!OptionPairing, Evm!ExactErc7710Salt, Evm!ExactErc7710
<1>2. Evm!Scheme(Evm!ExactErc7710Salt) = Evm!Scheme(Evm!ExactErc7710)
  BY DEF Evm!Scheme, Evm!Captures, Evm!CaptureEip3009, Evm!CapturePermit2, Evm!UptoPermit2, Evm!ExactErc7710Salt,
         Evm!ExactErc7710
<1>3. Evm!Payable(Evm!ExactErc7710Salt, o) <=> Evm!Payable(Evm!ExactErc7710, o)
  BY DEF Evm!Payable, Evm!Captures, Evm!CaptureEip3009, Evm!CapturePermit2, Evm!ExactErc7710Salt, Evm!ExactErc7710
<1>4. \A n : Evm!ServedAs(Evm!ExactErc7710Salt, o, n) = Evm!ServedAs(Evm!ExactErc7710, o, n)
  BY <1>1, <1>2, <1>3 DEF Evm!ServedAs, Evm!When
<1> QED
  BY <1>4 DEF Evm!Served, Evm!ExactErc7710Salt, Evm!ExactErc7710, Evm!ExactEip3009

(* What is read first, and of a capture the time. *)
LEMMA EvmBuilt == ASSUME NEW p \in Evm!Pairings, NEW o, NEW c
  PROVE \E b : /\ Evm!Built(p, o, c) = First(<<Evm!FirstOption(c), b>>)
               /\ b = IF p \in Evm!Captures THEN Evm!CaptureBuilt(p, o, c) ELSE Evm!ChoiceOf(p, o, c)
<1>1. CASE p = Evm!ExactErc7710Salt
  BY <1>1, EvmFirst, EvmErc7710 DEF Evm!Built, Evm!Erc7710Built, Evm!ChoiceOf, Evm!Captures, Evm!Permits,
         Evm!Delegations, Evm!ExactErc7710Salt, Evm!ExactEip3009, Evm!ExactErc7710, Evm!ExactPermit2, Evm!UptoPermit2,
         Evm!CaptureEip3009, Evm!CapturePermit2
<1>2. CASE p # Evm!ExactErc7710Salt
  BY <1>2, EvmFirst DEF Evm!Built, Evm!Eip3009Built, Evm!Permit2Built, Evm!Erc7710Built, Evm!Pairings, Evm!Captures,
         Evm!Permits, Evm!Delegations, Evm!ExactErc7710Salt, Evm!ExactEip3009, Evm!ExactErc7710, Evm!ExactPermit2,
         Evm!UptoPermit2, Evm!CaptureEip3009, Evm!CapturePermit2
<1> QED
  BY <1>1, <1>2

(* The filter serves what build takes.                                      *)
LEMMA EvmFilters == "malformed" \notin Hashes => EvmP!Filters
<1> SUFFICES ASSUME "malformed" \notin Hashes, NEW p \in Evm!Pairings, NEW o, NEW c \in Evm!HonestChoices(p)
             PROVE  /\ Evm!Built(p, o, c) = "ok" <=> Evm!Served(p, o) = "ok" /\ ~Evm!BuildOnly(p, o, c.h)
                    /\ Evm!Served(p, o) \notin {"ok", "none"} => Evm!Built(p, o, c) = Evm!Served(p, o)
  BY DEF EvmP!Filters
<1>1. c.h # "malformed" /\ c.choice = "object" /\ c.given = "now" /\ Evm!FirstOption(c) = "ok"
      /\ c.version = "2" /\ c.accepts = "list" /\ c.offered = "offered"
  BY DEF Evm!HonestChoices, Evm!Choice, Evm!FirstOption, Evm!When
<1>2. \A s : Evm!Chosen(c, s) = Evm!Refused(s)
  BY <1>1, EvmFirst, First4 DEF Evm!Chosen, Evm!When
<1>3. Evm!ChoiceOf(p, o, c) = Evm!Refused(Evm!Served(p, o))
  BY <1>1, <1>2, EvmFirst, First4 DEF Evm!ChoiceOf, Evm!When
<1>4. Evm!CaptureBuilt(p, o, c) = Evm!Refused(Evm!Served(p, o))
  BY <1>1, <1>3, EvmFirst, First2 DEF Evm!CaptureBuilt, Evm!When
<1>5. Evm!Built(p, o, c) = Evm!Refused(Evm!Served(p, o))
  <2>1. PICK b : /\ Evm!Built(p, o, c) = First(<<Evm!FirstOption(c), b>>)
                 /\ b = IF p \in Evm!Captures THEN Evm!CaptureBuilt(p, o, c) ELSE Evm!ChoiceOf(p, o, c)
    BY EvmBuilt
  <2>2. b = Evm!Refused(Evm!Served(p, o))
    BY <1>3, <1>4, <2>1
  <2>3. First(<<Evm!FirstOption(c), b>>) = b
    BY <1>1, First2
  <2> QED
    BY <2>1, <2>2, <2>3
<1> QED
  BY <1>5 DEF Evm!BuildOnly, Evm!Refused

LEMMA EvmServed == ASSUME NEW p \in Evm!Pairings, NEW o, NEW c, Evm!Built(p, o, c) = "ok" PROVE Evm!Served(p, o) = "ok"
<1>0. Evm!ChoiceOf(p, o, c) = "ok"
  <2>1. PICK b : /\ Evm!Built(p, o, c) = First(<<Evm!FirstOption(c), b>>)
                 /\ b = IF p \in Evm!Captures THEN Evm!CaptureBuilt(p, o, c) ELSE Evm!ChoiceOf(p, o, c)
    BY EvmBuilt
  <2>2. b = "ok"
    BY <2>1, First2
  <2>3. Evm!CaptureBuilt(p, o, c) = "ok" => Evm!ChoiceOf(p, o, c) = "ok"
    BY EvmFirst, First2 DEF Evm!CaptureBuilt
  <2> QED
    BY <2>1, <2>2, <2>3
<1>1. Evm!Chosen(c, Evm!Served(p, o)) = "ok"
  BY <1>0, EvmFirst, First4 DEF Evm!ChoiceOf
<1> QED
  BY <1>1, EvmFirst, First4 DEF Evm!Chosen, Evm!Refused

(* broadcaster refuses as bound does.                                       *)
LEMMA EvmTells == EvmP!Tells
<1> SUFFICES ASSUME NEW p \in Evm!Pairings, NEW o, NEW c, Evm!Built(p, o, c) = "ok", NEW paid, NEW given,
                    \/ paid = Evm!Paid(p, o, c, given)
                    \/ \E changed \in Evm!Altered(p, Evm!Paid(p, o, c, given)) : paid = changed[1]
             PROVE  EvmP!Agrees(p, paid)
  BY DEF EvmP!Tells, EvmP!Gives, EvmP!Honest
<1>1. Evm!Served(p, o) = "ok"
  BY EvmServed
<1>2. paid.envelope = Whole(c.h) \/ paid.accepted = o
  BY EvmPaid, OneChanged, PaymentWithIs DEF Evm!Paid, Evm!Altered
<1>3. ASSUME paid.envelope = Whole(c.h) PROVE Evm!Told(p, paid) = "payee"
  BY <1>3, EvmGate, ToldWhole DEF Evm!Told
<1>4. CASE paid.accepted = o
  <2> DEFINE codes == [ShapeCodes EXCEPT !.refused = IF p = Evm!ExactEip3009 THEN "x402/payload-malformed" ELSE "ok"]
  <2>1. Evm!Told(p, paid) = IF Shape(paid, codes) = "ok" THEN "payee" ELSE Shape(paid, codes)
    BY EvmGate, First2 DEF Evm!Told, Broadcaster
  <2>2. Shape(paid, codes) = IF paid.envelope.version # "2" THEN "x402/not-v2"
                             ELSE IF paid.envelope.refused # "absent"
                                       /\ p = Evm!ExactEip3009 THEN "x402/payload-malformed"
                             ELSE Shape(paid, ShapeCodes)
    BY First4 DEF Shape, ShapeCodes, When
  <2>3. Shape(paid, codes) # "ok" => Evm!Bound(p, paid) = Shape(paid, codes)
    <3>1. Evm!PresentedWith(paid, Evm!Served(p, paid.accepted)) = Shape(paid, ShapeCodes)
      BY <1>1, <1>4, EvmGate, PresentedShape
    <3>2. \E rest : Evm!Bound(p, paid) =
            First(<<Evm!When(p = Evm!ExactEip3009 /\ paid.envelope.version # "2", "x402/not-v2"),
                    Evm!When(p = Evm!ExactEip3009 /\ paid.envelope.refused # "absent", "x402/payload-malformed"),
                    Shape(paid, ShapeCodes), rest>>)
      BY <3>1, EvmFirst DEF Evm!Bound
    <3>3. ShapeCodes.envelope = "x402/not-v2"
      BY DEF ShapeCodes
    <3>4. Shape(paid, ShapeCodes) = "ok" => paid.envelope.version = "2"
      BY First4 DEF Shape, ShapeCodes, When
    <3>5. paid.envelope.version # "2" => Shape(paid, ShapeCodes) = "x402/not-v2"
      BY First4 DEF Shape, ShapeCodes, When
    <3> HIDE DEF codes
    <3> QED
      BY <2>2, <3>2, <3>4, <3>5, First4 DEF Evm!When
  <2> QED
    BY <2>1, <2>3 DEF EvmP!Agrees
<1> QED
  BY <1>2, <1>3, <1>4 DEF EvmP!Agrees

(***************************************************************************)
(* Solana.                                                                  *)
(***************************************************************************)
SvmP == INSTANCE PaymentProofs WITH
    Pairings <- Svm!Pairings, PublicProof <- Svm!PublicProof, Options <- Svm!Options,
    HonestOptions <- Svm!HonestOptions, Choices <- Svm!Choices, HonestChoices <- Svm!HonestChoices,
    Answers <- Svm!Answers, HonestAnswer <- Svm!HonestAnswer, Altered <- Svm!Altered, Served <- Svm!Served,
    BuildOnly <- Svm!BuildOnly, Built <- Svm!Built, Completed <- Svm!Completed, Paid <- Svm!Paid, Bound <- Svm!Bound,
    Told <- Svm!Told

LEMMA SvmFirst == \A s : Svm!First(s) = First(s)
  BY DEF Svm!First, First

LEMMA SvmPaid ==
    /\ \A c, o, t : Svm!PaymentWith(c, o, t) = PaymentWith(c, o, t)
    /\ \A x, o, t, n : Svm!Variants(x, o, t, n) = Variants(x, o, t, n)
  BY DEF Svm!OneOff, OneOff, Svm!PaymentWith, PaymentWith, Svm!EnvelopeForms, EnvelopeForms, Svm!Variants, Variants

LEMMA SvmGate ==
    /\ \A x, a, k : Svm!Broadcaster(x, a, k) = Broadcaster(x, a, k)
    /\ \A x : Svm!PresentedWith(x, "ok") = PresentedWith(x, "ok")
    /\ \A x, k : Svm!Shape(x, k) = Shape(x, k)
    /\ Svm!ShapeCodes = ShapeCodes
  BY SvmFirst DEF Svm!When, When, Svm!Shape, Shape, Svm!Broadcaster, Broadcaster, Svm!PresentedWith, PresentedWith,
         Svm!AcceptedBy, AcceptedBy, Svm!Refused, Refused, Svm!ShapeCodes, ShapeCodes

LEMMA SvmPairings == \A p \in Svm!Pairings :
    p \in {"x402/exact/solana", "x402/upto/solana", "x402/batch-settlement/solana"}
  BY DEF Svm!Pairings, Svm!Exact, Svm!Upto, Svm!Batch

(* The filter serves what build takes.                                      *)
LEMMA SvmFilters == "malformed" \notin Hashes => SvmP!Filters
<1> SUFFICES ASSUME "malformed" \notin Hashes, NEW p \in Svm!Pairings, NEW o, NEW c \in Svm!HonestChoices(p)
             PROVE  /\ Svm!Built(p, o, c) = "ok" <=> Svm!Served(p, o) = "ok" /\ ~Svm!BuildOnly(p, o, c.h)
                    /\ Svm!Served(p, o) \notin {"ok", "none"} => Svm!Built(p, o, c) = Svm!Served(p, o)
  BY DEF SvmP!Filters
<1>1. c.h # "malformed" /\ c.choice = "object" /\ c.given = "inputs" /\ Svm!FirstOption(c) = "ok"
      /\ c.version = "2" /\ c.accepts = "list" /\ c.offered = "offered"
  BY DEF Svm!HonestChoices, Svm!Choice, Svm!FirstOption, Svm!When
<1>2. \A s : Svm!Chosen(c, s) = Svm!Refused(s)
  BY <1>1, SvmFirst, First4 DEF Svm!Chosen, Svm!When
<1>3. /\ Svm!ExactBuilt(o, c) = "ok" <=> Svm!Served(Svm!Exact, o) = "ok" /\ ~Svm!BuildOnly(Svm!Exact, o, c.h)
      /\ Svm!Served(Svm!Exact, o) \notin {"ok", "none"} => Svm!ExactBuilt(o, c) = Svm!Served(Svm!Exact, o)
  BY <1>1, <1>2, SvmFirst, First6 DEF Svm!ExactBuilt, Svm!SvmMessage, Svm!Uncompiled, Svm!BuildOnly, Svm!Refused,
         Svm!When
<1>4. /\ Svm!UptoBuilt(o, c) = "ok" <=> Svm!Served(Svm!Upto, o) = "ok" /\ ~Svm!BuildOnly(Svm!Upto, o, c.h)
      /\ Svm!Served(Svm!Upto, o) \notin {"ok", "none"} => Svm!UptoBuilt(o, c) = Svm!Served(Svm!Upto, o)
  BY <1>1, <1>2, SvmFirst, First2, First7
     DEF Svm!UptoBuilt, Svm!GivenProgram, Svm!ChannelMessage, Svm!OpenInstruction, Svm!Uncompiled, Svm!When,
         Svm!BuildOnly, Svm!Refused, Svm!Exact, Svm!Upto
<1>5. /\ Svm!BatchBuilt(o, c) = "ok" <=> Svm!Served(Svm!Batch, o) = "ok" /\ ~Svm!BuildOnly(Svm!Batch, o, c.h)
      /\ Svm!Served(Svm!Batch, o) \notin {"ok", "none"} => Svm!BatchBuilt(o, c) = Svm!Served(Svm!Batch, o)
  BY <1>1, <1>2, SvmFirst, First2, First7
     DEF Svm!BatchBuilt, Svm!GivenProgram, Svm!ChannelMessage, Svm!OpenInstruction, Svm!Uncompiled, Svm!When,
         Svm!BuildOnly, Svm!Refused, Svm!Exact, Svm!Batch
<1>6. Svm!Built(p, o, c) = IF p = Svm!Exact THEN Svm!ExactBuilt(o, c) ELSE IF p = Svm!Upto THEN Svm!UptoBuilt(o, c)
        ELSE Svm!BatchBuilt(o, c)
  BY <1>1, SvmPairings, SvmFirst, First3 DEF Svm!Built, Svm!When, Svm!Exact, Svm!Upto, Svm!Batch, Svm!Pairings
<1> QED
  BY <1>3, <1>4, <1>5, <1>6 DEF Svm!Pairings

LEMMA SvmServed == ASSUME NEW p \in Svm!Pairings, NEW o, NEW c, Svm!Built(p, o, c) = "ok" PROVE Svm!Served(p, o) = "ok"
<1>0. IF p = Svm!Exact THEN Svm!ExactBuilt(o, c) = "ok" ELSE IF p = Svm!Upto THEN Svm!UptoBuilt(o, c) = "ok"
           ELSE p = Svm!Batch /\ Svm!BatchBuilt(o, c) = "ok"
  BY SvmPairings, SvmFirst, First3 DEF Svm!Built, Svm!When, Svm!Exact, Svm!Upto, Svm!Batch, Svm!Pairings
<1>1. Svm!Chosen(c, Svm!Served(p, o)) = "ok"
  BY <1>0, SvmFirst, First6, First7 DEF Svm!ExactBuilt, Svm!UptoBuilt, Svm!BatchBuilt, Svm!When
<1> QED
  BY <1>1, SvmFirst, First4 DEF Svm!Chosen, Svm!Refused

LEMMA BatchTells ==
    ASSUME NEW o, NEW t \in OneOff(Svm!BatchPayload(o), Svm!PayloadForms)
    PROVE  \/ Svm!BatchTold(t, Svm!PayloadKind(t)) = "payee"
           \/ Svm!BatchTold(t, Svm!PayloadKind(t)) = Svm!BatchBound(o, t)
<1> DEFINE b == Svm!BatchPayload(o)
<1>1. /\ b.type = "deposit" /\ b.transaction = "wire" /\ b.instruction = "open" /\ b.nonceAccount = "static"
      /\ {"type", "transaction", "instruction", "nonceAccount"} \subseteq DOMAIN b
  BY DEF Svm!BatchPayload
<1> HIDE DEF b
<1>2. ASSUME t # b
      PROVE  \E k \in DOMAIN b : \E f : t = [b EXCEPT ![k] = f]
  BY <1>2, OneOffBy DEF b
<1>3. \/ t.type # "deposit"
      \/ t.type = "deposit" /\ t.instruction # "request_close"
      \/ t.type = "deposit" /\ t.transaction = "wire" /\ t.instruction = "request_close" /\ t.nonceAccount = "static"
  BY <1>1, <1>2
<1>4. CASE t.type # "deposit"
  BY <1>4, SvmFirst, First11 DEF Svm!PayloadKind, Svm!BatchTold, Svm!BatchBound, Svm!When
<1>5. ASSUME t.type = "deposit", t.instruction # "request_close" PROVE Svm!PayloadKind(t) # "x402/channel-kind-unknown"
  BY <1>5, SvmFirst, First2, First3 DEF Svm!PayloadKind, Svm!Instruction, Svm!When
<1>6. CASE t.type = "deposit" /\ t.instruction # "request_close"
  BY <1>5, <1>6 DEF Svm!BatchTold
<1>7. CASE t.type = "deposit" /\ t.transaction = "wire" /\ t.instruction = "request_close" /\ t.nonceAccount = "static"
  <2>1. Svm!Wire(t) = "ok" /\ Svm!Instruction(t) = "ok" /\ Svm!StaticNonce(t) = "ok"
    BY <1>7, SvmFirst, First2, First3 DEF Svm!Wire, Svm!DecodedTx, Svm!Instruction, Svm!StaticNonce, Svm!When
  <2>2. Svm!PayloadKind(t) = "x402/channel-kind-unknown"
    BY <1>7, <2>1, SvmFirst, First3 DEF Svm!PayloadKind, Svm!When
  <2>3. Svm!BatchBound(o, t) = "x402/not-an-opening"
    BY <1>7, <2>1, SvmFirst, First11 DEF Svm!BatchBound, Svm!When
  <2> QED
    BY <2>2, <2>3 DEF Svm!BatchTold
<1> QED
  BY <1>3, <1>4, <1>6, <1>7

(* broadcaster refuses as bound does.                                       *)
LEMMA SvmTells == SvmP!Tells
<1> SUFFICES ASSUME NEW p \in Svm!Pairings, NEW o, NEW c, Svm!Built(p, o, c) = "ok", NEW paid, NEW given,
                    \/ paid = Svm!Paid(p, o, c, given)
                    \/ \E changed \in Svm!Altered(p, Svm!Paid(p, o, c, given)) : paid = changed[1]
             PROVE  SvmP!Agrees(p, paid)
  BY DEF SvmP!Tells, SvmP!Gives, SvmP!Honest
<1>1. Svm!Served(p, o) = "ok"
  BY SvmServed
<1> DEFINE t == CASE p = Svm!Exact -> Svm!ExactPayload(o)
                  [] p = Svm!Upto -> Svm!UptoPayload(o)
                  [] p = Svm!Batch -> Svm!BatchPayload(o)
<1>2. Svm!Paid(p, o, c, given) = PaymentWith(c, o, t)
  BY SvmPaid DEF Svm!Paid
<1> HIDE DEF t
<1>3. /\ paid.envelope = Whole(c.h) \/ paid.accepted = o
      /\ paid.payload = t \/ (paid.payload \in OneOff(t, Svm!PayloadForms) /\ paid.accepted = o)
  BY <1>2, SvmPaid, OneChangedIn, PaymentWithIs DEF Svm!Altered
<1>4. Shape(paid, ShapeCodes) = "ok" \/ paid.accepted = o
  BY <1>3, ShapeWhole
<1>5. CASE Shape(paid, ShapeCodes) # "ok"
  <2>1. Svm!Told(p, paid) = Shape(paid, ShapeCodes)
    BY <1>5, SvmGate, SvmFirst, First2 DEF Svm!Told
  <2>2. Svm!Bound(p, paid) = Shape(paid, ShapeCodes)
    BY <1>1, <1>4, <1>5, SvmGate, PresentedShape, SvmFirst, First2 DEF Svm!Bound
  <2> QED
    BY <2>1, <2>2 DEF SvmP!Agrees
<1>6. CASE Shape(paid, ShapeCodes) = "ok" /\ p # Svm!Batch
  BY <1>6, SvmGate, SvmFirst, First2 DEF Svm!Told, SvmP!Agrees
<1>7. CASE Shape(paid, ShapeCodes) = "ok" /\ p = Svm!Batch
  <2>1. Svm!Told(p, paid) = Svm!BatchTold(paid.payload, Svm!PayloadKind(paid.payload))
    BY <1>7, SvmGate, SvmFirst, First2 DEF Svm!Told
  <2>2. t = Svm!BatchPayload(o)
    BY <1>7 DEF t, Svm!Exact, Svm!Upto, Svm!Batch
  <2>3. paid.payload \in OneOff(t, Svm!PayloadForms)
    BY <1>3 DEF OneOff
  <2>4. CASE paid.accepted = o
    <3>1. Svm!PresentedWith(paid, "ok") = "ok"
      BY <1>7, SvmGate, PresentedShape
    <3>2. Svm!Bound(p, paid) = Svm!BatchBound(o, paid.payload)
      BY <1>1, <1>7, <2>4, <3>1, SvmFirst, First2 DEF Svm!Bound, Svm!Exact, Svm!Upto, Svm!Batch
    <3> QED
      BY <2>1, <2>2, <2>3, <3>2, BatchTells DEF SvmP!Agrees
  <2>5. CASE paid.payload = t
    <3>1. t.type = "deposit" /\ t.instruction = "open"
      BY <2>2 DEF Svm!BatchPayload
    <3>2. Svm!PayloadKind(t) # "x402/channel-kind-unknown"
      BY <3>1, SvmFirst, First2, First3 DEF Svm!PayloadKind, Svm!Instruction, Svm!When
    <3> QED
      BY <2>1, <2>5, <3>1, <3>2 DEF Svm!BatchTold, SvmP!Agrees
  <2> QED
    BY <1>3, <2>4, <2>5
<1> QED
  BY <1>5, <1>6, <1>7

(***************************************************************************)
(* Hedera.                                                                  *)
(***************************************************************************)
HederaP == INSTANCE PaymentProofs WITH
    Pairings <- Hedera!Pairings, PublicProof <- Hedera!PublicProof, Options <- Hedera!Options,
    HonestOptions <- Hedera!HonestOptions, Choices <- Hedera!Choices, HonestChoices <- Hedera!HonestChoices,
    Answers <- Hedera!Answers, HonestAnswer <- Hedera!HonestAnswer, Altered <- Hedera!Altered,
    Served <- Hedera!Served, BuildOnly <- Hedera!BuildOnly, Built <- Hedera!Built, Completed <- Hedera!Completed,
    Paid <- Hedera!Paid, Bound <- Hedera!Bound, Told <- Hedera!Told

LEMMA HederaFirst == \A s : Hedera!First(s) = First(s)
  BY DEF Hedera!First, First

LEMMA HederaPaid ==
    /\ \A c, o, t : Hedera!PaymentWith(c, o, t) = PaymentWith(c, o, t)
    /\ \A x, o, t, n : Hedera!Variants(x, o, t, n) = Variants(x, o, t, n)
  BY DEF Hedera!OneOff, OneOff, Hedera!PaymentWith, PaymentWith, Hedera!EnvelopeForms, EnvelopeForms, Hedera!Variants,
         Variants

LEMMA HederaGate ==
    /\ \A x, a, k : Hedera!Broadcaster(x, a, k) = Broadcaster(x, a, k)
    /\ \A x : Hedera!PresentedWith(x, "ok") = PresentedWith(x, "ok")
    /\ \A x, k : Hedera!Shape(x, k) = Shape(x, k)
    /\ Hedera!ShapeCodes = ShapeCodes
  BY HederaFirst DEF Hedera!When, When, Hedera!Shape, Shape, Hedera!Broadcaster, Broadcaster, Hedera!PresentedWith,
         PresentedWith,
         Hedera!AcceptedBy, AcceptedBy, Hedera!Refused, Refused, Hedera!ShapeCodes, ShapeCodes

(* The filter serves what build takes.                                      *)
LEMMA HederaFilters == "malformed" \notin Hashes => HederaP!Filters
<1> SUFFICES ASSUME "malformed" \notin Hashes, NEW p \in Hedera!Pairings, NEW o, NEW c \in Hedera!HonestChoices(p)
             PROVE  /\ Hedera!Built(p, o, c) = "ok" <=> Hedera!Served(p, o) = "ok" /\ ~Hedera!BuildOnly(p, o, c.h)
                    /\ Hedera!Served(p, o) \notin {"ok", "none"} => Hedera!Built(p, o, c) = Hedera!Served(p, o)
  BY DEF HederaP!Filters
<1>1. c.h # "malformed" /\ c.choice = "object" /\ c.given = "inputs" /\ Hedera!FirstOption(c) = "ok"
      /\ c.version = "2" /\ c.accepts = "list" /\ c.offered = "offered"
  BY DEF Hedera!HonestChoices, Hedera!Choice, Hedera!FirstOption, Hedera!When
<1>2. \A s : Hedera!Chosen(c, s) = Hedera!Refused(s)
  BY <1>1, HederaFirst, First4 DEF Hedera!Chosen, Hedera!When
<1>3. Hedera!ExactBuilt(o, c) = Hedera!Refused(Hedera!CheckExact(o))
  BY <1>1, <1>2, HederaFirst, First4 DEF Hedera!ExactBuilt, Hedera!ValidBuildInputs, Hedera!When
<1>4. Hedera!ExecutorBuilt(o, c) =
        IF Hedera!Refused(Hedera!CheckExecutor(o)) # "ok" THEN Hedera!Refused(Hedera!CheckExecutor(o))
                                   ELSE IF o.timeout = "2^53-1" THEN "hedera/option-malformed" ELSE "ok"
  BY <1>1, <1>2, HederaFirst, First4 DEF Hedera!ExecutorBuilt, Hedera!When
<1>5. Hedera!Built(p, o, c) = IF p = Hedera!Exact THEN Hedera!ExactBuilt(o, c) ELSE Hedera!ExecutorBuilt(o, c)
  BY <1>1, HederaFirst, First3 DEF Hedera!Built, Hedera!When
<1> QED
  BY <1>3, <1>4, <1>5 DEF Hedera!Served, Hedera!BuildOnly, Hedera!Refused, Hedera!Pairings, Hedera!Exact,
         Hedera!Executor

LEMMA HederaServed == ASSUME NEW p \in Hedera!Pairings, NEW o, NEW c, Hedera!Built(p, o, c) = "ok"
    PROVE Hedera!Served(p, o) = "ok"
<1>1. Hedera!Chosen(c, Hedera!Served(p, o)) = "ok"
  BY HederaFirst, First3, First4 DEF Hedera!Built, Hedera!ExactBuilt, Hedera!ExecutorBuilt, Hedera!Served, Hedera!When
<1> QED
  BY <1>1, HederaFirst, First4 DEF Hedera!Chosen, Hedera!Refused

(* broadcaster refuses as bound does.                                       *)
LEMMA HederaTells == HederaP!Tells
<1> SUFFICES ASSUME NEW p \in Hedera!Pairings, NEW o, NEW c, Hedera!Built(p, o, c) = "ok", NEW paid, NEW given,
                    \/ paid = Hedera!Paid(p, o, c, given)
                    \/ \E changed \in Hedera!Altered(p, Hedera!Paid(p, o, c, given)) : paid = changed[1]
             PROVE  HederaP!Agrees(p, paid)
  BY DEF HederaP!Tells, HederaP!Gives, HederaP!Honest
<1>1. Hedera!Served(p, o) = "ok"
  BY HederaServed
<1>2. paid.envelope = Whole(c.h) \/ paid.accepted = o
  BY HederaPaid, OneChanged, PaymentWithIs DEF Hedera!Paid, Hedera!Altered
<1>3. ASSUME paid.envelope = Whole(c.h) PROVE Hedera!Told(p, paid) = "payee"
  BY <1>3, HederaGate, ToldWhole DEF Hedera!Told
<1>4. ASSUME paid.accepted = o, Hedera!Told(p, paid) # "payee" PROVE Hedera!Told(p, paid) = Hedera!Bound(p, paid)
  <2>1. Shape(paid, ShapeCodes) # "ok" /\ Hedera!Told(p, paid) = Shape(paid, ShapeCodes)
    BY <1>4, HederaGate, First2 DEF Hedera!Told, Broadcaster
  <2> QED
    BY <1>1, <1>4, <2>1, HederaGate, PresentedShape, HederaFirst, First2 DEF Hedera!Bound
<1> QED
  BY <1>2, <1>3, <1>4 DEF HederaP!Agrees

(***************************************************************************)
(* Stellar.                                                                 *)
(***************************************************************************)
StellarP == INSTANCE PaymentProofs WITH
    Pairings <- Stellar!Pairings, PublicProof <- Stellar!PublicProof, Options <- Stellar!Options,
    HonestOptions <- Stellar!HonestOptions, Choices <- Stellar!Choices, HonestChoices <- Stellar!HonestChoices,
    Answers <- Stellar!Answers, HonestAnswer <- Stellar!HonestAnswer, Altered <- Stellar!Altered,
    Served <- Stellar!Served, BuildOnly <- Stellar!BuildOnly, Built <- Stellar!Built, Completed <- Stellar!Completed,
    Paid <- Stellar!Paid, Bound <- Stellar!Bound, Told <- Stellar!Told

LEMMA StellarFirst == \A s : Stellar!First(s) = First(s)
  BY DEF Stellar!First, First

LEMMA StellarPaid ==
    /\ \A c, o, t : Stellar!PaymentWith(c, o, t) = PaymentWith(c, o, t)
    /\ \A x, o, t, n : Stellar!Variants(x, o, t, n) = Variants(x, o, t, n)
  BY DEF Stellar!OneOff, OneOff, Stellar!PaymentWith, PaymentWith, Stellar!EnvelopeForms, EnvelopeForms,
         Stellar!Variants, Variants

LEMMA StellarGate ==
    /\ \A x, a, k : Stellar!Broadcaster(x, a, k) = Broadcaster(x, a, k)
    /\ \A x : Stellar!PresentedWith(x, "ok") = PresentedWith(x, "ok")
    /\ Stellar!ShapeCodes = ShapeCodes
  BY StellarFirst DEF Stellar!When, When, Stellar!Shape, Shape, Stellar!Broadcaster, Broadcaster,
         Stellar!PresentedWith, PresentedWith,
         Stellar!AcceptedBy, AcceptedBy, Stellar!Refused, Refused, Stellar!ShapeCodes, ShapeCodes

LEMMA StellarSigns == ASSUME NEW o, NEW c, NEW h, c.given = Stellar!Given(h)
  PROVE /\ Stellar!SigningFor(o, c) = "ok" <=> o.timeout # "top"
        /\ Stellar!SignsOption(c.given.simulated, o) = "ok" <=> h = o.payTo
<1> DEFINE t == Stellar!Transfer(h)
<1>1. c.given.simulated = t /\ c.given.ledger = "now"
  BY DEF Stellar!Given
<1>2. t.xdr = "wire" /\ t.call = "transfer" /\ t.entries = "one" /\ t.entry = "shallow" /\ t.root = "transfer"
        /\ t.source = "payer" /\ t.to = h
   /\ t.agrees = "yes" /\ t.asset = "option" /\ t.amount = "option"
  BY DEF Stellar!Transfer
<1> HIDE DEF t
<1>3. Stellar!Bytes(t) = "ok"
  BY <1>2, StellarFirst, First2 DEF Stellar!Bytes, Stellar!When
<1>4. Stellar!Envelope(t) = "ok"
  BY <1>2, StellarFirst, First3 DEF Stellar!Envelope, Stellar!When, Stellar!Reader, Stellar!AuthEntry,
         Stellar!Invocation, Stellar!ScVal, Stellar!ScAddress, Stellar!Preconditions, Stellar!OtherOperation
<1>5. Stellar!Operation(t) = "ok"
  BY <1>2, <1>4, StellarFirst, First3 DEF Stellar!Operation, Stellar!When
<1>6. Stellar!Parsed(t) = "ok"
  BY <1>2, <1>5, StellarFirst, First4 DEF Stellar!Parsed, Stellar!When
<1>7. Stellar!SigningInput(o, c) = "ok" <=> o.timeout # "top"
  BY <1>1, <1>2, <1>3, StellarFirst, First3 DEF Stellar!SigningInput, Stellar!Expiration, Stellar!When
<1>8. Stellar!SigningFor(o, c) = "ok" <=> o.timeout # "top"
  BY <1>1, <1>2, <1>6, <1>7, StellarFirst, First3 DEF Stellar!SigningFor, Stellar!When
<1>9. Stellar!SignsOption(t, o) = "ok" <=> h = o.payTo
  BY <1>2, StellarFirst, First5 DEF Stellar!SignsOption, Stellar!When
<1> QED
  BY <1>1, <1>8, <1>9

(* The filter serves what build takes.                                      *)
LEMMA StellarFilters == "malformed" \notin Hashes => StellarP!Filters
<1> SUFFICES ASSUME "malformed" \notin Hashes, NEW o, NEW c \in Stellar!HonestChoices(Stellar!ID)
             PROVE  /\ Stellar!Built(Stellar!ID, o, c) = "ok" <=> Stellar!Served(Stellar!ID, o) = "ok"
                         /\ ~Stellar!BuildOnly(Stellar!ID, o, c.h)
                    /\ Stellar!Served(Stellar!ID, o) \notin {"ok", "none"} =>
                         Stellar!Built(Stellar!ID, o, c) = Stellar!Served(Stellar!ID, o)
  BY DEF StellarP!Filters, Stellar!Pairings
<1>1. c.h # "malformed" /\ c.choice = "object" /\ c.given = Stellar!Given(c.h) /\ Stellar!FirstOption(c) = "ok"
      /\ c.version = "2" /\ c.accepts = "list" /\ c.offered = "offered"
  BY DEF Stellar!HonestChoices, Stellar!Choice, Stellar!FirstOption, Stellar!When
<1>2. Stellar!Chosen(c, Stellar!Served(Stellar!ID, o)) = Stellar!Refused(Stellar!Served(Stellar!ID, o))
  BY <1>1, StellarFirst, First4 DEF Stellar!Chosen, Stellar!When
<1>3. /\ Stellar!SigningFor(o, c) = "ok" <=> o.timeout # "top"
      /\ Stellar!SignsOption(c.given.simulated, o) = "ok" <=> c.h = o.payTo
  BY <1>1, StellarSigns
<1>4. c.given.ledger = "now" /\ c.given.payer = "payer" /\ c.given.simulated.xdr = "wire"
  BY <1>1 DEF Stellar!Given, Stellar!Transfer
<1>5. Stellar!Built(Stellar!ID, o, c) =
          IF Stellar!Refused(Stellar!Served(Stellar!ID, o)) # "ok" THEN Stellar!Refused(Stellar!Served(Stellar!ID, o))
          ELSE IF o.payTo # c.h THEN "stellar/carrier-mismatch"
          ELSE IF Stellar!SigningFor(o, c) # "ok" THEN Stellar!SigningFor(o, c)
                    ELSE Stellar!SignsOption(c.given.simulated, o)
  BY <1>1, <1>2, <1>4, StellarFirst, First3, First8 DEF Stellar!Built, Stellar!BuiltStellar, Stellar!When
<1> QED
  BY <1>3, <1>5 DEF Stellar!BuildOnly, Stellar!Refused

LEMMA StellarServed == ASSUME NEW o, NEW c, Stellar!Built(Stellar!ID, o, c) = "ok"
    PROVE Stellar!Served(Stellar!ID, o) = "ok"
<1>1. Stellar!Chosen(c, Stellar!Served(Stellar!ID, o)) = "ok"
  BY StellarFirst, First2, First3, First5, First8 DEF Stellar!Built, Stellar!BuiltStellar, Stellar!SigningFor,
         Stellar!SigningInput, Stellar!SignsOption, Stellar!Bytes, Stellar!Parsed, Stellar!Operation,
         Stellar!Envelope, Stellar!Expiration, Stellar!Reader, Stellar!AuthEntry, Stellar!Invocation, Stellar!ScVal,
         Stellar!ScAddress, Stellar!Preconditions, Stellar!OtherOperation, Stellar!When
<1> QED
  BY <1>1, StellarFirst, First4 DEF Stellar!Chosen, Stellar!Refused

LEMMA StellarPayTo == \A o \in Stellar!Options(Stellar!ID) :
    o.payTo \in Hashes \cup {"H1", "H2", "account", "malformed"}
<1> SUFFICES ASSUME NEW h \in Stellar!HonestOptions(Stellar!ID), NEW o \in Stellar!OneOff(h, Stellar!OptionForms)
             PROVE  o.payTo \in Hashes \cup {"H1", "H2", "account", "malformed"}
  BY DEF Stellar!Options
<1>1. h.payTo \in Hashes
  BY DEF Stellar!HonestOptions
<1>2. Stellar!OptionForms["payTo"] = {"H1", "H2", "account", "malformed"}
  BY DEF Stellar!OptionForms
<1>3. ASSUME NEW m \in DOMAIN h, NEW f \in Stellar!OptionForms[m], o = [h EXCEPT ![m] = f]
      PROVE  o.payTo \in Hashes \cup {"H1", "H2", "account", "malformed"}
  BY <1>1, <1>2, <1>3
<1>4. CASE o = h
  BY <1>1, <1>4
<1> QED
  BY <1>3, <1>4 DEF Stellar!OneOff

LEMMA StellarAccepted == \A x :
    Stellar!AcceptedBy(x, "ok") = IF x.envelope.accepted # "object" THEN "x402/payload-malformed" ELSE "ok"
  BY StellarFirst, First2 DEF Stellar!AcceptedBy, Stellar!Refused, Stellar!When

LEMMA StellarContext == ASSUME NEW x, x.envelope.context \notin {"absent", "http", "malformed"}
                        PROVE  Stellar!LegalContextOf(x) = "ok"
  BY StellarFirst, First3 DEF Stellar!LegalContextOf, Stellar!When

(* broadcaster refuses as bound does.                                       *)
LEMMA StellarTells == Hashes \cap {"absent", "http", "malformed"} = {} => StellarP!Tells
<1> SUFFICES ASSUME Hashes \cap {"absent", "http", "malformed"} = {},
                    NEW o \in Stellar!Options(Stellar!ID), NEW c, Stellar!Built(Stellar!ID, o, c) = "ok", NEW paid,
                      NEW given,
                    \/ paid = Stellar!Paid(Stellar!ID, o, c, given)
                    \/ \E changed \in Stellar!Altered(Stellar!ID, Stellar!Paid(Stellar!ID, o, c, given)) :
                         paid = changed[1]
             PROVE  StellarP!Agrees(Stellar!ID, paid)
  BY DEF StellarP!Tells, Stellar!Pairings, StellarP!Gives, StellarP!Honest
<1>1. Stellar!Served(Stellar!ID, o) = "ok"
  BY StellarServed
<1>2. c.h \notin {"absent", "http", "malformed"}
  <2>1. Stellar!BuiltStellar(o, c) = "ok"
    BY StellarFirst, First3 DEF Stellar!Built
  <2>2. o.payTo = c.h /\ c.h # "malformed"
    BY <2>1, StellarFirst, First8 DEF Stellar!BuiltStellar, Stellar!When
  <2> QED
    BY <2>2, StellarPayTo
<1>3. paid.envelope = Whole(c.h) \/ (paid.accepted = o /\ paid.envelope \in OneOff(Whole(c.h), EnvelopeForms))
  BY StellarPaid, OneChangedIn, PaymentWithIs DEF Stellar!Paid, Stellar!Altered
<1>4. ASSUME paid.envelope = Whole(c.h) PROVE Stellar!Told(Stellar!ID, paid) = "payee"
  BY <1>4, StellarGate, ToldWhole DEF Stellar!Told
<1>5. ASSUME paid.accepted = o, paid.envelope \in OneOff(Whole(c.h), EnvelopeForms),
               Stellar!Told(Stellar!ID, paid) # "payee"
      PROVE  Stellar!Told(Stellar!ID, paid) = Stellar!Bound(Stellar!ID, paid)
  <2>1. Shape(paid, ShapeCodes) # "ok" /\ Stellar!Told(Stellar!ID, paid) = Shape(paid, ShapeCodes)
    <3>1. Stellar!Told(Stellar!ID, paid) = Broadcaster(paid, "payee", ShapeCodes)
      BY StellarGate DEF Stellar!Told
    <3> QED
      BY <1>5, <3>1, First2 DEF Broadcaster
  <2>2. paid.envelope.payload # "object" =>
          Stellar!LegalContextOf(paid) = "ok" /\ paid.envelope.accepted = "object" /\ paid.envelope.version = "2"
    BY <1>2, <1>5, OneOffWhole, StellarContext
  <2>3. Stellar!AcceptedBy(paid, Stellar!Served(Stellar!ID, paid.accepted)) =
           IF paid.envelope.accepted # "object" THEN "x402/payload-malformed" ELSE "ok"
    BY <1>1, <1>5, StellarAccepted
  <2>4. \E r1, r2, r3, r4, r5, r6 : Stellar!Bound(Stellar!ID, paid) =
           First(<<IF paid.envelope.version # "2" THEN "x402/not-v2" ELSE "ok",
                   Stellar!AcceptedBy(paid, Stellar!Served(Stellar!ID, paid.accepted)), Stellar!LegalContextOf(paid),
                   IF paid.envelope.payload # "object" THEN "x402/payload-malformed"
                        ELSE "ok", r1, r2, r3, r4, r5, r6>>)
    <3> DEFINE r1 == Stellar!When(paid.accepted.payTo # paid.envelope.context, "stellar/carrier-mismatch")
               r2 == Stellar!ReadSignedTransfer(paid.payload)
               r3 == Stellar!When(paid.payload.to \notin Hashes, "stellar/no-carrier")
               r4 == Stellar!When(paid.payload.to # paid.accepted.payTo, "stellar/carrier-mismatch")
               r5 == Stellar!When(paid.payload.agrees = "no", "stellar/not-one-transfer")
               r6 == paid.envelope.context
               accepted == Stellar!AcceptedBy(paid, Stellar!Served(Stellar!ID, paid.accepted))
               context == Stellar!LegalContextOf(paid)
    <3>1. Stellar!Bound(Stellar!ID, paid) =
             Stellar!First(<<Stellar!When(paid.envelope.version # "2", "x402/not-v2"), accepted, context,
                             Stellar!When(paid.envelope.payload # "object", "x402/payload-malformed"),
                             r1, r2, r3, r4, r5, r6>>)
      BY DEF Stellar!Bound, Stellar!BoundStellar
    <3>2. /\ accepted = Stellar!AcceptedBy(paid, Stellar!Served(Stellar!ID, paid.accepted))
          /\ context = Stellar!LegalContextOf(paid)
      OBVIOUS
    <3> HIDE DEF r1, r2, r3, r4, r5, r6, accepted, context
    <3>3. Stellar!Bound(Stellar!ID, paid) =
             First(<<IF paid.envelope.version # "2" THEN "x402/not-v2" ELSE "ok", accepted, context,
                     IF paid.envelope.payload # "object" THEN "x402/payload-malformed" ELSE "ok",
                     r1, r2, r3, r4, r5, r6>>)
      BY <3>1, StellarFirst DEF Stellar!When
    <3> QED
      BY <3>2, <3>3
  <2> QED
    BY <2>1, <2>2, <2>3, <2>4, ShapeIs, First10
<1> QED
  BY <1>3, <1>4, <1>5 DEF StellarP!Agrees

(***************************************************************************)
(* XRPL.                                                                    *)
(***************************************************************************)
XrplP == INSTANCE PaymentProofs WITH
    Pairings <- Xrpl!Pairings, PublicProof <- Xrpl!PublicProof, Options <- Xrpl!Options,
    HonestOptions <- Xrpl!HonestOptions, Choices <- Xrpl!Choices, HonestChoices <- Xrpl!HonestChoices,
    Answers <- Xrpl!Answers, HonestAnswer <- Xrpl!HonestAnswer, Altered <- Xrpl!Altered, Served <- Xrpl!Served,
    BuildOnly <- Xrpl!BuildOnly, Built <- Xrpl!Built, Completed <- Xrpl!Completed, Paid <- Xrpl!Paid,
    Bound <- Xrpl!Bound, Told <- Xrpl!Told

LEMMA XrplFirst == \A s : Xrpl!First(s) = First(s)
  BY DEF Xrpl!First, First

LEMMA XrplPaid ==
    /\ \A c, o, t : Xrpl!PaymentWith(c, o, t) = PaymentWith(c, o, t)
    /\ \A x, o, t, n : Xrpl!Variants(x, o, t, n) = Variants(x, o, t, n)
  BY DEF Xrpl!OneOff, OneOff, Xrpl!PaymentWith, PaymentWith, Xrpl!EnvelopeForms, EnvelopeForms, Xrpl!Variants,
         Variants

LEMMA XrplGate ==
    /\ \A x, a, k : Xrpl!Broadcaster(x, a, k) = Broadcaster(x, a, k)
    /\ \A x : Xrpl!PresentedWith(x, "ok") = PresentedWith(x, "ok")
    /\ Xrpl!ShapeCodes = ShapeCodes
  BY XrplFirst DEF Xrpl!When, When, Xrpl!Shape, Shape, Xrpl!Broadcaster, Broadcaster, Xrpl!PresentedWith,
         PresentedWith,
         Xrpl!AcceptedBy, AcceptedBy, Xrpl!Refused, Refused, Xrpl!ShapeCodes, ShapeCodes

(* The filter serves what build takes.                                      *)
LEMMA XrplFilters == "malformed" \notin Hashes => XrplP!Filters
<1> SUFFICES ASSUME "malformed" \notin Hashes, NEW o, NEW c \in Xrpl!HonestChoices(Xrpl!ID)
             PROVE  /\ Xrpl!Built(Xrpl!ID, o, c) = "ok" <=> Xrpl!Served(Xrpl!ID, o) = "ok"
                         /\ ~Xrpl!BuildOnly(Xrpl!ID, o, c.h)
                    /\ Xrpl!Served(Xrpl!ID, o) \notin {"ok", "none"} =>
                         Xrpl!Built(Xrpl!ID, o, c) = Xrpl!Served(Xrpl!ID, o)
  BY DEF XrplP!Filters, Xrpl!Pairings
<1>1. c.h # "malformed" /\ c.choice = "object" /\ c.given = "inputs" /\ Xrpl!FirstOption(c) = "ok"
      /\ c.version = "2" /\ c.accepts = "list" /\ c.offered = "offered"
  BY DEF Xrpl!HonestChoices, Xrpl!Choice, Xrpl!FirstOption, Xrpl!When
<1>2. Xrpl!Chosen(c, Xrpl!Served(Xrpl!ID, o)) = Xrpl!Refused(Xrpl!Served(Xrpl!ID, o))
  BY <1>1, XrplFirst, First4 DEF Xrpl!Chosen, Xrpl!When
<1> QED
  BY <1>1, <1>2, XrplFirst, First3, First6 DEF Xrpl!Built, Xrpl!BuiltXrpl, Xrpl!BuildOnly, Xrpl!Refused, Xrpl!When

LEMMA XrplServed == ASSUME NEW o, NEW c, Xrpl!Built(Xrpl!ID, o, c) = "ok" PROVE Xrpl!Served(Xrpl!ID, o) = "ok"
<1>1. Xrpl!Chosen(c, Xrpl!Served(Xrpl!ID, o)) = "ok"
  BY XrplFirst, First3, First6 DEF Xrpl!Built, Xrpl!BuiltXrpl, Xrpl!When
<1> QED
  BY <1>1, XrplFirst, First4 DEF Xrpl!Chosen, Xrpl!Refused

LEMMA XrplAccepted == \A x :
    Xrpl!AcceptedBy(x, "ok") = IF x.envelope.accepted # "object" THEN "x402/payload-malformed" ELSE "ok"
  BY XrplFirst, First2 DEF Xrpl!AcceptedBy, Xrpl!Refused, Xrpl!When

(* broadcaster refuses as bound does.                                       *)
LEMMA XrplTells == XrplP!Tells
<1> SUFFICES ASSUME NEW o, NEW c, Xrpl!Built(Xrpl!ID, o, c) = "ok", NEW paid, NEW given,
                    \/ paid = Xrpl!Paid(Xrpl!ID, o, c, given)
                    \/ \E changed \in Xrpl!Altered(Xrpl!ID, Xrpl!Paid(Xrpl!ID, o, c, given)) : paid = changed[1]
             PROVE  XrplP!Agrees(Xrpl!ID, paid)
  BY DEF XrplP!Tells, Xrpl!Pairings, XrplP!Gives, XrplP!Honest
<1>1. Xrpl!Served(Xrpl!ID, o) = "ok"
  BY XrplServed
<1>2. paid.envelope = Whole(c.h) \/ paid.accepted = o
  BY XrplPaid, OneChanged, PaymentWithIs DEF Xrpl!Paid, Xrpl!Altered
<1>3. ASSUME paid.envelope = Whole(c.h) PROVE Xrpl!Told(Xrpl!ID, paid) = "payee"
  BY <1>3, XrplGate, ToldWhole DEF Xrpl!Told
<1>4. ASSUME paid.accepted = o, Xrpl!Told(Xrpl!ID, paid) # "payee"
      PROVE  Xrpl!Told(Xrpl!ID, paid) = Xrpl!Bound(Xrpl!ID, paid)
  <2>1. Shape(paid, ShapeCodes) # "ok" /\ Xrpl!Told(Xrpl!ID, paid) = Shape(paid, ShapeCodes)
    BY <1>4, XrplGate, First2 DEF Xrpl!Told, Broadcaster
  <2> QED
    BY <1>1, <1>4, <2>1, XrplAccepted, ShapeIs, XrplFirst, First10 DEF Xrpl!Bound, Xrpl!Presented, Xrpl!When
<1> QED
  BY <1>2, <1>3, <1>4 DEF XrplP!Agrees

(***************************************************************************)
(* NEAR.                                                                    *)
(***************************************************************************)
NearP == INSTANCE PaymentProofs WITH
    Pairings <- Near!Pairings, PublicProof <- Near!PublicProof, Options <- Near!Options,
    HonestOptions <- Near!HonestOptions, Choices <- Near!Choices, HonestChoices <- Near!HonestChoices,
    Answers <- Near!Answers, HonestAnswer <- Near!HonestAnswer, Altered <- Near!Altered, Served <- Near!Served,
    BuildOnly <- Near!BuildOnly, Built <- Near!Built, Completed <- Near!Completed, Paid <- Near!Paid,
    Bound <- Near!Bound, Told <- Near!Told

LEMMA NearFirst == \A s : Near!First(s) = First(s)
  BY DEF Near!First, First

LEMMA NearPaid ==
    /\ \A c, o, t : Near!PaymentWith(c, o, t) = PaymentWith(c, o, t)
    /\ \A x, o, t, n : Near!Variants(x, o, t, n) = Variants(x, o, t, n)
  BY DEF Near!OneOff, OneOff, Near!PaymentWith, PaymentWith, Near!EnvelopeForms, EnvelopeForms, Near!Variants,
         Variants

LEMMA NearGate ==
    /\ \A x, a, k : Near!Broadcaster(x, a, k) = Broadcaster(x, a, k)
    /\ \A x : Near!PresentedWith(x, "ok") = PresentedWith(x, "ok")
    /\ Near!ShapeCodes = ShapeCodes
  BY NearFirst DEF Near!When, When, Near!Shape, Shape, Near!Broadcaster, Broadcaster, Near!PresentedWith,
         PresentedWith,
         Near!AcceptedBy, AcceptedBy, Near!Refused, Refused, Near!ShapeCodes, ShapeCodes

LEMMA NearPayTo == \A o \in Near!Options(Near!ID) : o.payTo \in {"id", "malformed"}
<1> SUFFICES ASSUME NEW h \in Near!HonestOptions(Near!ID), NEW o \in Near!OneOff(h, Near!OptionForms)
             PROVE  o.payTo \in {"id", "malformed"}
  BY DEF Near!Options
<1>1. CASE o = h
  BY <1>1 DEF Near!HonestOptions
<1>2. ASSUME NEW m \in DOMAIN h, NEW f \in Near!OptionForms[m], o = [h EXCEPT ![m] = f]
      PROVE  o.payTo \in {"id", "malformed"}
  <2>1. h.payTo = "id"
    BY DEF Near!HonestOptions
  <2>2. Near!OptionForms["payTo"] = {"malformed"}
    BY DEF Near!OptionForms
  <2> QED
    BY <1>2, <2>1, <2>2
<1> QED
  BY <1>1, <1>2 DEF Near!OneOff

(* The filter serves what build takes.                                      *)
LEMMA NearFilters == "malformed" \notin Hashes => NearP!Filters
<1> SUFFICES ASSUME "malformed" \notin Hashes, NEW o \in Near!Options(Near!ID), NEW c \in Near!HonestChoices(Near!ID)
             PROVE  /\ Near!Built(Near!ID, o, c) = "ok" <=> Near!Served(Near!ID, o) = "ok"
                         /\ ~Near!BuildOnly(Near!ID, o, c.h)
                    /\ Near!Served(Near!ID, o) \notin {"ok", "none"} =>
                         Near!Built(Near!ID, o, c) = Near!Served(Near!ID, o)
  BY DEF NearP!Filters, Near!Pairings
<1>1. c.h # "malformed" /\ c.choice = "object" /\ c.given = "inputs" /\ Near!FirstOption(c) = "ok"
      /\ c.version = "2" /\ c.accepts = "list" /\ c.offered = "offered"
  BY DEF Near!HonestChoices, Near!Choice, Near!FirstOption, Near!When
<1>2. Near!Chosen(c, Near!Served(Near!ID, o)) = Near!Refused(Near!Served(Near!ID, o))
  BY <1>1, NearFirst, First4 DEF Near!Chosen, Near!When
<1>3. o.payTo \in {"id", "malformed"}
  BY NearPayTo
<1>4. Near!Check(o) = "ok" => Near!FtTransferArgs(o) = "ok"
  BY <1>3, NearFirst, First7 DEF Near!Check, Near!FtTransferArgs, Near!When
<1> QED
  BY <1>1, <1>2, <1>4, NearFirst, First3, First6 DEF Near!Built, Near!BuiltNear, Near!BuildOnly, Near!Refused,
         Near!When, Near!Served

LEMMA NearServed == ASSUME NEW o, NEW c, Near!Built(Near!ID, o, c) = "ok" PROVE Near!Served(Near!ID, o) = "ok"
<1>1. Near!Chosen(c, Near!Served(Near!ID, o)) = "ok"
  BY NearFirst, First3, First6, First7 DEF Near!Built, Near!BuiltNear, Near!FtTransferArgs, Near!When, Near!Served
<1> QED
  BY <1>1, NearFirst, First4 DEF Near!Chosen, Near!Refused

(* broadcaster refuses as bound does.                                       *)
LEMMA NearTells == NearP!Tells
<1> SUFFICES ASSUME NEW o, NEW c, Near!Built(Near!ID, o, c) = "ok", NEW paid, NEW given,
                    \/ paid = Near!Paid(Near!ID, o, c, given)
                    \/ \E changed \in Near!Altered(Near!ID, Near!Paid(Near!ID, o, c, given)) : paid = changed[1]
             PROVE  NearP!Agrees(Near!ID, paid)
  BY DEF NearP!Tells, Near!Pairings, NearP!Gives, NearP!Honest
<1>1. Near!Served(Near!ID, o) = "ok"
  BY NearServed
<1>2. paid.envelope = Whole(c.h) \/ paid.accepted = o
  BY NearPaid, OneChanged, PaymentWithIs DEF Near!Paid, Near!Altered
<1>3. ASSUME paid.envelope = Whole(c.h) PROVE Near!Told(Near!ID, paid) = "payee"
  BY <1>3, NearGate, ToldWhole DEF Near!Told
<1>4. ASSUME paid.accepted = o, Near!Told(Near!ID, paid) # "payee"
      PROVE  Near!Told(Near!ID, paid) = Near!Bound(Near!ID, paid)
  <2>1. Shape(paid, ShapeCodes) # "ok" /\ Near!Told(Near!ID, paid) = Shape(paid, ShapeCodes)
    BY <1>4, NearGate, First2 DEF Near!Told, Broadcaster
  <2> QED
    BY <1>1, <1>4, <2>1, NearGate, PresentedShape, NearFirst, First3 DEF Near!Bound, Near!Check, Near!Served
<1> QED
  BY <1>2, <1>3, <1>4 DEF NearP!Agrees

(***************************************************************************)
(* Aptos and Sui.                                                           *)
(***************************************************************************)
MoveP == INSTANCE PaymentProofs WITH
    Pairings <- Move!Pairings, PublicProof <- Move!PublicProof, Options <- Move!Options,
    HonestOptions <- Move!HonestOptions, Choices <- Move!Choices, HonestChoices <- Move!HonestChoices,
    Answers <- Move!Answers, HonestAnswer <- Move!HonestAnswer, Altered <- Move!Altered, Served <- Move!Served,
    BuildOnly <- Move!BuildOnly, Built <- Move!Built, Completed <- Move!Completed, Paid <- Move!Paid,
    Bound <- Move!Bound, Told <- Move!Told

LEMMA MoveFirst == \A s : Move!First(s) = First(s)
  BY DEF Move!First, First

LEMMA MovePaid ==
    /\ \A c, o, t : Move!PaymentWith(c, o, t) = PaymentWith(c, o, t)
    /\ \A x, o, t, n : Move!Variants(x, o, t, n) = Variants(x, o, t, n)
  BY DEF Move!OneOff, OneOff, Move!PaymentWith, PaymentWith, Move!EnvelopeForms, EnvelopeForms, Move!Variants,
         Variants

LEMMA MoveGate ==
    /\ \A x, a, k : Move!Broadcaster(x, a, k) = Broadcaster(x, a, k)
    /\ \A x : Move!PresentedWith(x, "ok") = PresentedWith(x, "ok")
    /\ \A x, k : Move!Shape(x, k) = Shape(x, k)
    /\ Move!ShapeCodes = ShapeCodes
  BY MoveFirst DEF Move!When, When, Move!Shape, Shape, Move!Broadcaster, Broadcaster, Move!PresentedWith,
         PresentedWith,
         Move!AcceptedBy, AcceptedBy, Move!Refused, Refused, Move!ShapeCodes, ShapeCodes

(* The filter serves what build takes.                                      *)
LEMMA MoveFilters == "malformed" \notin Hashes => MoveP!Filters
<1> SUFFICES ASSUME "malformed" \notin Hashes, NEW p \in Move!Pairings, NEW o, NEW c \in Move!HonestChoices(p)
             PROVE  /\ Move!Built(p, o, c) = "ok" <=> Move!Served(p, o) = "ok" /\ ~Move!BuildOnly(p, o, c.h)
                    /\ Move!Served(p, o) \notin {"ok", "none"} => Move!Built(p, o, c) = Move!Served(p, o)
  BY DEF MoveP!Filters
<1>1. c.h # "malformed" /\ c.choice = "object" /\ Move!FirstOption(c) = "ok"
      /\ c.version = "2" /\ c.accepts = "list" /\ c.offered = "offered"
  BY DEF Move!HonestChoices, Move!Choice, Move!FirstOption, Move!When
<1>2. \A s : Move!Chosen(c, s) = Move!Refused(s)
  BY <1>1, MoveFirst, First4 DEF Move!Chosen, Move!When
<1>3. Move!AptosBuilt(o, c) = Move!Refused(Move!AptosOptionCheck(o))
  BY <1>1, <1>2, MoveFirst, First3 DEF Move!AptosBuilt, Move!When
<1>4. Move!SuiBuilt(o, c) = Move!Refused(Move!SuiOptionCheck(o))
  BY <1>1, <1>2, MoveFirst, First3 DEF Move!SuiBuilt, Move!When
<1>5. Move!Built(p, o, c) = IF p = Move!Aptos THEN Move!AptosBuilt(o, c) ELSE Move!SuiBuilt(o, c)
  BY <1>1, MoveFirst, First2 DEF Move!Built
<1> QED
  BY <1>3, <1>4, <1>5 DEF Move!Served, Move!BuildOnly, Move!Refused

LEMMA MoveServed == ASSUME NEW p \in Move!Pairings, NEW o, NEW c, Move!Built(p, o, c) = "ok"
    PROVE Move!Served(p, o) = "ok"
<1>1. Move!Chosen(c, Move!Served(p, o)) = "ok"
  BY MoveFirst, First2, First3 DEF Move!Built, Move!AptosBuilt, Move!SuiBuilt, Move!Served, Move!When
<1> QED
  BY <1>1, MoveFirst, First4 DEF Move!Chosen, Move!Refused

(* broadcaster refuses as bound does.                                       *)
LEMMA MoveTells == MoveP!Tells
<1> SUFFICES ASSUME NEW p \in Move!Pairings, NEW o, NEW c, Move!Built(p, o, c) = "ok", NEW paid, NEW given,
                    \/ paid = Move!Paid(p, o, c, given)
                    \/ \E changed \in Move!Altered(p, Move!Paid(p, o, c, given)) : paid = changed[1]
             PROVE  MoveP!Agrees(p, paid)
  BY DEF MoveP!Tells, MoveP!Gives, MoveP!Honest
<1>1. Move!Served(p, o) = "ok"
  BY MoveServed
<1>2. paid.envelope = Whole(c.h) \/ paid.accepted = o
  BY MovePaid, OneChanged, PaymentWithIs DEF Move!Paid, Move!Altered
<1>3. ASSUME paid.envelope = Whole(c.h) PROVE Move!Told(p, paid) = "payee"
  BY <1>3, MoveGate, ToldWhole DEF Move!Told
<1>4. ASSUME paid.accepted = o, Move!Told(p, paid) # "payee" PROVE Move!Told(p, paid) = Move!Bound(p, paid)
  <2>1. Shape(paid, ShapeCodes) # "ok" /\ Move!Told(p, paid) = Shape(paid, ShapeCodes)
    BY <1>4, MoveGate, First2 DEF Move!Told, Broadcaster
  <2> QED
    BY <1>1, <1>4, <2>1, MoveGate, PresentedShape, MoveFirst, First2, First4 DEF Move!Bound, Move!SuiBound,
           Move!AptosBound, Move!PresentedTx, Move!Served
<1> QED
  BY <1>2, <1>3, <1>4 DEF MoveP!Agrees

(***************************************************************************)
(* Cardano.                                                                 *)
(***************************************************************************)
CardanoP == INSTANCE PaymentProofs WITH
    Pairings <- Cardano!Pairings, PublicProof <- Cardano!PublicProof, Options <- Cardano!Options,
    HonestOptions <- Cardano!HonestOptions, Choices <- Cardano!Choices, HonestChoices <- Cardano!HonestChoices,
    Answers <- Cardano!Answers, HonestAnswer <- Cardano!HonestAnswer, Altered <- Cardano!Altered,
    Served <- Cardano!Served, BuildOnly <- Cardano!BuildOnly, Built <- Cardano!Built, Completed <- Cardano!Completed,
    Paid <- Cardano!Paid, Bound <- Cardano!Bound, Told <- Cardano!Told

LEMMA CardanoFirst == \A s : Cardano!First(s) = First(s)
  BY DEF Cardano!First, First

LEMMA CardanoPaid ==
    /\ \A c, o, t : Cardano!PaymentWith(c, o, t) = PaymentWith(c, o, t)
    /\ \A x, o, t, n : Cardano!Variants(x, o, t, n) = Variants(x, o, t, n)
  BY DEF Cardano!OneOff, OneOff, Cardano!PaymentWith, PaymentWith, Cardano!EnvelopeForms, EnvelopeForms,
         Cardano!Variants, Variants

LEMMA CardanoGate ==
    /\ \A x, a, k : Cardano!Broadcaster(x, a, k) = Broadcaster(x, a, k)
    /\ \A x : Cardano!PresentedWith(x, "ok") = PresentedWith(x, "ok")
    /\ Cardano!ShapeCodes = ShapeCodes
  BY CardanoFirst DEF Cardano!When, When, Cardano!Shape, Shape, Cardano!Broadcaster, Broadcaster,
         Cardano!PresentedWith, PresentedWith,
         Cardano!AcceptedBy, AcceptedBy, Cardano!Refused, Refused, Cardano!ShapeCodes, ShapeCodes

(* The filter serves what build takes.                                      *)
LEMMA CardanoFilters == "malformed" \notin Hashes => CardanoP!Filters
<1> SUFFICES ASSUME "malformed" \notin Hashes, NEW o, NEW c \in Cardano!HonestChoices(Cardano!ID)
             PROVE  /\ Cardano!Built(Cardano!ID, o, c) = "ok" <=> Cardano!Served(Cardano!ID, o) = "ok"
                         /\ ~Cardano!BuildOnly(Cardano!ID, o, c.h)
                    /\ Cardano!Served(Cardano!ID, o) \notin {"ok", "none"} =>
                         Cardano!Built(Cardano!ID, o, c) = Cardano!Served(Cardano!ID, o)
  BY DEF CardanoP!Filters, Cardano!Pairings
<1>1. c.h # "malformed" /\ c.choice = "object" /\ c.given = "nothing" /\ Cardano!FirstOption(c) = "ok"
      /\ c.version = "2" /\ c.accepts = "list" /\ c.offered = "offered"
  BY DEF Cardano!HonestChoices, Cardano!Choice, Cardano!FirstOption, Cardano!When
<1>2. Cardano!Chosen(c, Cardano!Served(Cardano!ID, o)) = Cardano!Refused(Cardano!Served(Cardano!ID, o))
  BY <1>1, CardanoFirst, First4 DEF Cardano!Chosen, Cardano!When
<1> QED
  BY <1>1, <1>2, CardanoFirst, First2, First3 DEF Cardano!Built, Cardano!BuiltCardano, Cardano!BuildOnly,
         Cardano!Refused, Cardano!When, Cardano!Served

LEMMA CardanoServed == ASSUME NEW o, NEW c, Cardano!Built(Cardano!ID, o, c) = "ok"
    PROVE Cardano!Served(Cardano!ID, o) = "ok"
<1>1. Cardano!Chosen(c, Cardano!Served(Cardano!ID, o)) = "ok"
  BY CardanoFirst, First2, First3 DEF Cardano!Built, Cardano!BuiltCardano, Cardano!When, Cardano!Served
<1> QED
  BY <1>1, CardanoFirst, First4 DEF Cardano!Chosen, Cardano!Refused

(* broadcaster refuses as bound does.                                       *)
LEMMA CardanoTells == CardanoP!Tells
<1> SUFFICES ASSUME NEW o, NEW c, Cardano!Built(Cardano!ID, o, c) = "ok", NEW paid, NEW given,
                    \/ paid = Cardano!Paid(Cardano!ID, o, c, given)
                    \/ \E changed \in Cardano!Altered(Cardano!ID, Cardano!Paid(Cardano!ID, o, c, given)) :
                         paid = changed[1]
             PROVE  CardanoP!Agrees(Cardano!ID, paid)
  BY DEF CardanoP!Tells, Cardano!Pairings, CardanoP!Gives, CardanoP!Honest
<1>1. Cardano!Served(Cardano!ID, o) = "ok"
  BY CardanoServed
<1>2. paid.envelope = Whole(c.h) \/ paid.accepted = o
  BY CardanoPaid, OneChanged, PaymentWithIs DEF Cardano!Paid, Cardano!Altered
<1>3. ASSUME paid.envelope = Whole(c.h) PROVE Cardano!Told(Cardano!ID, paid) = "payee"
  BY <1>3, CardanoGate, ToldWhole DEF Cardano!Told
<1>4. ASSUME paid.accepted = o, Cardano!Told(Cardano!ID, paid) # "payee"
      PROVE  Cardano!Told(Cardano!ID, paid) = Cardano!Bound(Cardano!ID, paid)
  <2>1. Shape(paid, ShapeCodes) # "ok" /\ Cardano!Told(Cardano!ID, paid) = Shape(paid, ShapeCodes)
    BY <1>4, CardanoGate, First2 DEF Cardano!Told, Broadcaster
  <2> QED
    BY <1>1, <1>4, <2>1, CardanoGate, PresentedShape, CardanoFirst, First3 DEF Cardano!Bound, Cardano!PresentedTx,
           Cardano!OptionCheck, Cardano!Served
<1> QED
  BY <1>2, <1>3, <1>4 DEF CardanoP!Agrees

(***************************************************************************)
(* Starknet.                                                                *)
(***************************************************************************)
StarknetP == INSTANCE PaymentProofs WITH
    Pairings <- Starknet!Pairings, PublicProof <- Starknet!PublicProof, Options <- Starknet!Options,
    HonestOptions <- Starknet!HonestOptions, Choices <- Starknet!Choices, HonestChoices <- Starknet!HonestChoices,
    Answers <- Starknet!Answers, HonestAnswer <- Starknet!HonestAnswer, Altered <- Starknet!Altered,
    Served <- Starknet!Served, BuildOnly <- Starknet!BuildOnly, Built <- Starknet!Built,
    Completed <- Starknet!Completed, Paid <- Starknet!Paid, Bound <- Starknet!Bound, Told <- Starknet!Told

LEMMA StarknetFirst == \A s : Starknet!First(s) = First(s)
  BY DEF Starknet!First, First

LEMMA StarknetPaid ==
    /\ \A c, o, t : Starknet!PaymentWith(c, o, t) = PaymentWith(c, o, t)
    /\ \A x, o, t, n : Starknet!Variants(x, o, t, n) = Variants(x, o, t, n)
  BY DEF Starknet!OneOff, OneOff, Starknet!PaymentWith, PaymentWith, Starknet!EnvelopeForms, EnvelopeForms,
         Starknet!Variants, Variants

LEMMA StarknetGate ==
    /\ \A x, a, k : Starknet!Broadcaster(x, a, k) = Broadcaster(x, a, k)
    /\ \A x : Starknet!PresentedWith(x, "ok") = PresentedWith(x, "ok")
    /\ Starknet!ShapeCodes = ShapeCodes
  BY StarknetFirst DEF Starknet!When, When, Starknet!Shape, Shape, Starknet!Broadcaster, Broadcaster,
         Starknet!PresentedWith, PresentedWith,
         Starknet!AcceptedBy, AcceptedBy, Starknet!Refused, Refused, Starknet!ShapeCodes, ShapeCodes

(* The filter serves what build takes.                                      *)
LEMMA StarknetFilters == "malformed" \notin Hashes => StarknetP!Filters
<1> SUFFICES ASSUME "malformed" \notin Hashes, NEW o, NEW c \in Starknet!HonestChoices(Starknet!ID)
             PROVE  /\ Starknet!Built(Starknet!ID, o, c) = "ok" <=> Starknet!Served(Starknet!ID, o) = "ok"
                         /\ ~Starknet!BuildOnly(Starknet!ID, o, c.h)
                    /\ Starknet!Served(Starknet!ID, o) \notin {"ok", "none"} =>
                         Starknet!Built(Starknet!ID, o, c) = Starknet!Served(Starknet!ID, o)
  BY DEF StarknetP!Filters, Starknet!Pairings
<1>1. c.h # "malformed" /\ c.choice = "object" /\ c.given = "payer" /\ Starknet!FirstOption(c) = "ok"
      /\ c.version = "2" /\ c.accepts = "list" /\ c.offered = "offered"
  BY DEF Starknet!HonestChoices, Starknet!Choice, Starknet!FirstOption, Starknet!When
<1>2. Starknet!Chosen(c, Starknet!Served(Starknet!ID, o)) = Starknet!Refused(Starknet!Served(Starknet!ID, o))
  BY <1>1, StarknetFirst, First4 DEF Starknet!Chosen, Starknet!When
<1> QED
  BY <1>1, <1>2, StarknetFirst, First2, First7 DEF Starknet!Built, Starknet!BuiltStarknet, Starknet!OutsideExecution,
         Starknet!BuildOnly, Starknet!Refused, Starknet!When, Starknet!Served

LEMMA StarknetServed == ASSUME NEW o, NEW c, Starknet!Built(Starknet!ID, o, c) = "ok"
    PROVE Starknet!Served(Starknet!ID, o) = "ok"
<1>1. Starknet!Chosen(c, Starknet!Served(Starknet!ID, o)) = "ok"
  BY StarknetFirst, First2, First7 DEF Starknet!Built, Starknet!BuiltStarknet, Starknet!OutsideExecution,
         Starknet!When, Starknet!Served
<1> QED
  BY <1>1, StarknetFirst, First4 DEF Starknet!Chosen, Starknet!Refused

(* broadcaster refuses as bound does.                                       *)
LEMMA StarknetTells == StarknetP!Tells
<1> SUFFICES ASSUME NEW o, NEW c, Starknet!Built(Starknet!ID, o, c) = "ok", NEW paid, NEW given,
                    \/ paid = Starknet!Paid(Starknet!ID, o, c, given)
                    \/ \E changed \in Starknet!Altered(Starknet!ID, Starknet!Paid(Starknet!ID, o, c, given)) :
                         paid = changed[1]
             PROVE  StarknetP!Agrees(Starknet!ID, paid)
  BY DEF StarknetP!Tells, Starknet!Pairings, StarknetP!Gives, StarknetP!Honest
<1>1. Starknet!Served(Starknet!ID, o) = "ok"
  BY StarknetServed
<1>2. paid.envelope = Whole(c.h) \/ paid.accepted = o
  BY StarknetPaid, OneChanged, PaymentWithIs DEF Starknet!Paid, Starknet!Altered
<1>3. ASSUME paid.envelope = Whole(c.h) PROVE Starknet!Told(Starknet!ID, paid) = "payee"
  BY <1>3, StarknetGate, ToldWhole DEF Starknet!Told
<1>4. ASSUME paid.accepted = o, Starknet!Told(Starknet!ID, paid) # "payee"
      PROVE  Starknet!Told(Starknet!ID, paid) = Starknet!Bound(Starknet!ID, paid)
  <2>1. Shape(paid, ShapeCodes) # "ok" /\ Starknet!Told(Starknet!ID, paid) = Shape(paid, ShapeCodes)
    BY <1>4, StarknetGate, First2 DEF Starknet!Told, Broadcaster
  <2> QED
    BY <1>1, <1>4, <2>1, StarknetGate, PresentedShape, StarknetFirst, First6 DEF Starknet!Bound,
           Starknet!BoundStarknet, Starknet!Check, Starknet!Served
<1> QED
  BY <1>2, <1>3, <1>4 DEF StarknetP!Agrees

(***************************************************************************)
(* Casper.                                                                  *)
(***************************************************************************)
CasperP == INSTANCE PaymentProofs WITH
    Pairings <- Casper!Pairings, PublicProof <- Casper!PublicProof, Options <- Casper!Options,
    HonestOptions <- Casper!HonestOptions, Choices <- Casper!Choices, HonestChoices <- Casper!HonestChoices,
    Answers <- Casper!Answers, HonestAnswer <- Casper!HonestAnswer, Altered <- Casper!Altered,
    Served <- Casper!Served, BuildOnly <- Casper!BuildOnly, Built <- Casper!Built, Completed <- Casper!Completed,
    Paid <- Casper!Paid, Bound <- Casper!Bound, Told <- Casper!Told

LEMMA CasperFirst == \A s : Casper!First(s) = First(s)
  BY DEF Casper!First, First

LEMMA CasperX402 ==
    /\ \A c, o, t : Casper!PaymentWith(c, o, t) = PaymentWith(c, o, t)
    /\ \A x, o, t, n : Casper!Variants(x, o, t, n) = Variants(x, o, t, n)
    /\ \A x, a, k : Casper!Broadcaster(x, a, k) = Broadcaster(x, a, k)
  BY DEF Casper!First, First, Casper!When, When, Casper!OneOff, OneOff, Casper!PaymentWith, PaymentWith,
         Casper!EnvelopeForms, EnvelopeForms, Casper!Variants, Variants, Casper!Shape, Shape, Casper!Broadcaster,
             Broadcaster

(* The filter serves what build takes.                                      *)
LEMMA CasperFilters == "malformed" \notin Hashes => CasperP!Filters
<1> SUFFICES ASSUME "malformed" \notin Hashes, NEW o, NEW c \in Casper!HonestChoices(Casper!ID)
             PROVE  Casper!Built(Casper!ID, o, c) = IF Casper!CasperOption(o) THEN "ok"
                      ELSE "x402/option-not-this-pairing"
  BY DEF CasperP!Filters, Casper!Pairings, Casper!Served, Casper!BuildOnly, Casper!When
<1>1. /\ c.h # "malformed" /\ c.choice = "object" /\ c.given = "payer" /\ Casper!FirstOption(c) = "ok"
      /\ c.version = "2" /\ c.accepts = "list" /\ c.offered = "offered"
  BY DEF Casper!HonestChoices, Casper!Choice, Casper!FirstOption, Casper!When
<1>2. Casper!Chosen(c, Casper!Served(Casper!ID, o)) = IF Casper!CasperOption(o) THEN "ok"
        ELSE "x402/option-not-this-pairing"
  BY <1>1, CasperFirst, First4 DEF Casper!Chosen, Casper!Served, Casper!When, Casper!Refused
<1>3. Casper!CasperOption(o) => Casper!Cep3009TypedData(o, c) = "ok"
  BY <1>1, First4, CasperFirst DEF Casper!Cep3009TypedData, Casper!CasperOption, Casper!When
<1> QED
  BY <1>1, <1>2, <1>3, First6, First2, CasperFirst DEF Casper!Built, Casper!BuiltCasper, Casper!When

LEMMA CasperServed == ASSUME NEW o, NEW c, Casper!Built(Casper!ID, o, c) = "ok" PROVE Casper!Served(Casper!ID, o) = "ok"
<1>1. Casper!BuiltCasper(o, c) = "ok"
  BY CasperFirst, First2 DEF Casper!Built
<1>2. Casper!Chosen(c, Casper!Served(Casper!ID, o)) = "ok"
  BY <1>1, CasperFirst, First6, Z3 DEF Casper!BuiltCasper, Casper!When
<1> QED
  BY <1>2, CasperFirst, First4 DEF Casper!Chosen, Casper!Refused

(* broadcaster refuses as bound does.                                       *)
LEMMA CasperTells == CasperP!Tells
<1> SUFFICES ASSUME NEW o, NEW c, Casper!Built(Casper!ID, o, c) = "ok", NEW paid, NEW given,
                    \/ paid = Casper!Paid(Casper!ID, o, c, given)
                    \/ \E changed \in Casper!Altered(Casper!ID, Casper!Paid(Casper!ID, o, c, given)) : paid = changed[1]
             PROVE  CasperP!Agrees(Casper!ID, paid)
  BY DEF CasperP!Tells, Casper!Pairings, CasperP!Gives, CasperP!Honest
<1>1. Casper!Served(Casper!ID, o) = "ok"
  BY CasperServed
<1>2. paid.envelope = Whole(c.h) \/ paid.accepted = o
  BY CasperX402, OneChanged, PaymentWithIs DEF Casper!Paid, Casper!Altered
<1>3. ASSUME paid.envelope = Whole(c.h) PROVE Casper!Told(Casper!ID, paid) = "payee"
  BY <1>3, CasperX402, ToldWhole DEF Casper!Told
<1>4. ASSUME paid.accepted = o PROVE CasperP!Agrees(Casper!ID, paid)
  BY <1>1, <1>4, CasperFirst, First2, First4
       DEF CasperP!Agrees, Casper!Told, Casper!Broadcaster, Casper!Shape, Casper!CasperCodes, Casper!Bound,
           Casper!PaymentOf, Casper!AcceptedBy, Casper!Refused, Casper!When
<1> QED
  BY <1>2, <1>3, <1>4 DEF CasperP!Agrees

(***************************************************************************)
(* Concordium.                                                              *)
(***************************************************************************)
CcdP == INSTANCE PaymentProofs WITH
    Pairings <- Ccd!Pairings, PublicProof <- Ccd!PublicProof, Options <- Ccd!Options,
    HonestOptions <- Ccd!HonestOptions, Choices <- Ccd!Choices, HonestChoices <- Ccd!HonestChoices,
    Answers <- Ccd!Answers, HonestAnswer <- Ccd!HonestAnswer, Altered <- Ccd!Altered, Served <- Ccd!Served,
    BuildOnly <- Ccd!BuildOnly, Built <- Ccd!Built, Completed <- Ccd!Completed, Paid <- Ccd!Paid, Bound <- Ccd!Bound,
    Told <- Ccd!Told

LEMMA CcdFirst == \A s : Ccd!First(s) = First(s)
  BY DEF Ccd!First, First

LEMMA CcdPaid ==
    /\ \A c, o, t : Ccd!PaymentWith(c, o, t) = PaymentWith(c, o, t)
    /\ \A x, o, t, n : Ccd!Variants(x, o, t, n) = Variants(x, o, t, n)
  BY DEF Ccd!OneOff, OneOff, Ccd!PaymentWith, PaymentWith, Ccd!EnvelopeForms, EnvelopeForms, Ccd!Variants, Variants

LEMMA CcdGate ==
    /\ \A x, a, k : Ccd!Broadcaster(x, a, k) = Broadcaster(x, a, k)
    /\ \A x : Ccd!PresentedWith(x, "ok") = PresentedWith(x, "ok")
    /\ Ccd!ShapeCodes = ShapeCodes
  BY CcdFirst DEF Ccd!When, When, Ccd!Shape, Shape, Ccd!Broadcaster, Broadcaster, Ccd!PresentedWith, PresentedWith,
         Ccd!AcceptedBy, AcceptedBy, Ccd!Refused, Refused, Ccd!ShapeCodes, ShapeCodes

(* The filter serves what build takes.                                      *)
LEMMA CcdFilters == "malformed" \notin Hashes => CcdP!Filters
<1> SUFFICES ASSUME "malformed" \notin Hashes, NEW o, NEW c \in Ccd!HonestChoices(Ccd!ID)
             PROVE  /\ Ccd!Built(Ccd!ID, o, c) = "ok" <=> Ccd!Served(Ccd!ID, o) = "ok" /\ ~Ccd!BuildOnly(Ccd!ID, o, c.h)
                    /\ Ccd!Served(Ccd!ID, o) \notin {"ok", "none"} => Ccd!Built(Ccd!ID, o, c) = Ccd!Served(Ccd!ID, o)
  BY DEF CcdP!Filters, Ccd!Pairings
<1>1. c.h # "malformed" /\ c.choice = "object" /\ c.given = "time" /\ Ccd!FirstOption(c) = "ok"
      /\ c.version = "2" /\ c.accepts = "list" /\ c.offered = "offered"
  BY DEF Ccd!HonestChoices, Ccd!Choice, Ccd!FirstOption, Ccd!When
<1>2. Ccd!Chosen(c, Ccd!Served(Ccd!ID, o)) = Ccd!Refused(Ccd!Served(Ccd!ID, o))
  BY <1>1, CcdFirst, First4 DEF Ccd!Chosen, Ccd!When
<1> QED
  BY <1>1, <1>2, CcdFirst, First2, First4 DEF Ccd!Built, Ccd!BuiltCcd, Ccd!BuildOnly, Ccd!Refused, Ccd!When

LEMMA CcdServed == ASSUME NEW o, NEW c, Ccd!Built(Ccd!ID, o, c) = "ok" PROVE Ccd!Served(Ccd!ID, o) = "ok"
<1>1. Ccd!Chosen(c, Ccd!Served(Ccd!ID, o)) = "ok"
  BY CcdFirst, First2, First4 DEF Ccd!Built, Ccd!BuiltCcd, Ccd!When
<1> QED
  BY <1>1, CcdFirst, First4 DEF Ccd!Chosen, Ccd!Refused

CcdCodes == [ShapeCodes EXCEPT !.payload = "ccd/transaction-malformed"]

LEMMA CcdCodesIs == [Ccd!ShapeCodes EXCEPT !.payload = "ccd/transaction-malformed"] = CcdCodes
  BY DEF Ccd!ShapeCodes, ShapeCodes, CcdCodes

LEMMA CcdShape == \A x : Shape(x, CcdCodes) =
    IF x.envelope.version # "2" THEN "x402/not-v2" ELSE IF x.envelope.accepted # "object" THEN "x402/payload-malformed"
    ELSE IF x.envelope.payload # "object" THEN "ccd/transaction-malformed" ELSE "ok"
  BY First4 DEF Shape, ShapeCodes, CcdCodes, When

LEMMA CcdAccepted == \A x :
    Ccd!AcceptedBy(x, "ok") = IF x.envelope.accepted # "object" THEN "x402/payload-malformed" ELSE "ok"
  BY CcdFirst, First2 DEF Ccd!AcceptedBy, Ccd!Refused, Ccd!When

(* broadcaster refuses as bound does.                                       *)
LEMMA CcdTells == CcdP!Tells
<1> SUFFICES ASSUME NEW o, NEW c, Ccd!Built(Ccd!ID, o, c) = "ok", NEW paid, NEW given,
                    \/ paid = Ccd!Paid(Ccd!ID, o, c, given)
                    \/ \E changed \in Ccd!Altered(Ccd!ID, Ccd!Paid(Ccd!ID, o, c, given)) : paid = changed[1]
             PROVE  CcdP!Agrees(Ccd!ID, paid)
  BY DEF CcdP!Tells, Ccd!Pairings, CcdP!Gives, CcdP!Honest
<1>1. Ccd!Served(Ccd!ID, o) = "ok"
  BY CcdServed
<1>2. paid.envelope = Whole(c.h) \/ paid.accepted = o
  BY CcdPaid, OneChanged, PaymentWithIs DEF Ccd!Paid, Ccd!Altered
<1>3. ASSUME paid.envelope = Whole(c.h) PROVE Ccd!Told(Ccd!ID, paid) = "payee"
  BY <1>3, CcdGate, ToldWhole DEF Ccd!Told
<1>4. ASSUME paid.accepted = o, Ccd!Told(Ccd!ID, paid) # "payee" PROVE Ccd!Told(Ccd!ID, paid) = Ccd!Bound(Ccd!ID, paid)
  <2>1. Shape(paid, CcdCodes) # "ok" /\ Ccd!Told(Ccd!ID, paid) = Shape(paid, CcdCodes)
    BY <1>4, CcdGate, CcdCodesIs, First2 DEF Ccd!Told, Broadcaster
  <2> QED
    BY <1>1, <1>4, <2>1, CcdAccepted, CcdShape, CcdFirst, First4 DEF Ccd!Bound, Ccd!BoundCcd, Ccd!When
<1> QED
  BY <1>2, <1>3, <1>4 DEF CcdP!Agrees

(***************************************************************************)
(* Polkadot.                                                                *)
(***************************************************************************)
PolkadotP == INSTANCE PaymentProofs WITH
    Pairings <- Polkadot!Pairings, PublicProof <- Polkadot!PublicProof, Options <- Polkadot!Options,
    HonestOptions <- Polkadot!HonestOptions, Choices <- Polkadot!Choices, HonestChoices <- Polkadot!HonestChoices,
    Answers <- Polkadot!Answers, HonestAnswer <- Polkadot!HonestAnswer, Altered <- Polkadot!Altered,
    Served <- Polkadot!Served, BuildOnly <- Polkadot!BuildOnly, Built <- Polkadot!Built,
    Completed <- Polkadot!Completed, Paid <- Polkadot!Paid, Bound <- Polkadot!Bound, Told <- Polkadot!Told

LEMMA PolkadotFirst == \A s : Polkadot!First(s) = First(s)
  BY DEF Polkadot!First, First

LEMMA PolkadotPaid ==
    /\ \A c, o, t : Polkadot!PaymentWith(c, o, t) = PaymentWith(c, o, t)
    /\ \A x, o, t, n : Polkadot!Variants(x, o, t, n) = Variants(x, o, t, n)
  BY DEF Polkadot!OneOff, OneOff, Polkadot!PaymentWith, PaymentWith, Polkadot!EnvelopeForms, EnvelopeForms,
         Polkadot!Variants, Variants

LEMMA PolkadotGate ==
    /\ \A x, a, k : Polkadot!Broadcaster(x, a, k) = Broadcaster(x, a, k)
    /\ \A x : Polkadot!PresentedWith(x, "ok") = PresentedWith(x, "ok")
    /\ Polkadot!ShapeCodes = ShapeCodes
  BY PolkadotFirst DEF Polkadot!When, When, Polkadot!Shape, Shape, Polkadot!Broadcaster, Broadcaster,
         Polkadot!PresentedWith, PresentedWith,
         Polkadot!AcceptedBy, AcceptedBy, Polkadot!Refused, Refused, Polkadot!ShapeCodes, ShapeCodes

(* The filter serves what build takes.                                      *)
LEMMA PolkadotFilters == "malformed" \notin Hashes => PolkadotP!Filters
<1> SUFFICES ASSUME "malformed" \notin Hashes, NEW o, NEW c \in Polkadot!HonestChoices(Polkadot!ID)
             PROVE  /\ Polkadot!Built(Polkadot!ID, o, c) = "ok" <=> Polkadot!Served(Polkadot!ID, o) = "ok"
                         /\ ~Polkadot!BuildOnly(Polkadot!ID, o, c.h)
                    /\ Polkadot!Served(Polkadot!ID, o) \notin {"ok", "none"} =>
                         Polkadot!Built(Polkadot!ID, o, c) = Polkadot!Served(Polkadot!ID, o)
  BY DEF PolkadotP!Filters, Polkadot!Pairings
<1>1. c.h # "malformed" /\ c.choice = "object" /\ c.given = "nothing" /\ Polkadot!FirstOption(c) = "ok"
      /\ c.version = "2" /\ c.accepts = "list" /\ c.offered = "offered"
  BY DEF Polkadot!HonestChoices, Polkadot!Choice, Polkadot!FirstOption, Polkadot!When
<1>2. Polkadot!Chosen(c, Polkadot!Served(Polkadot!ID, o)) = Polkadot!Refused(Polkadot!Served(Polkadot!ID, o))
  BY <1>1, PolkadotFirst, First4 DEF Polkadot!Chosen, Polkadot!When
<1> QED
  BY <1>1, <1>2, PolkadotFirst, First2, First3 DEF Polkadot!Built, Polkadot!BuiltPolkadot, Polkadot!BuildOnly,
         Polkadot!Refused, Polkadot!When, Polkadot!Served

LEMMA PolkadotServed == ASSUME NEW o, NEW c, Polkadot!Built(Polkadot!ID, o, c) = "ok"
    PROVE Polkadot!Served(Polkadot!ID, o) = "ok"
<1>1. Polkadot!Chosen(c, Polkadot!Served(Polkadot!ID, o)) = "ok"
  BY PolkadotFirst, First2, First3 DEF Polkadot!Built, Polkadot!BuiltPolkadot, Polkadot!When, Polkadot!Served
<1> QED
  BY <1>1, PolkadotFirst, First4 DEF Polkadot!Chosen, Polkadot!Refused

(* broadcaster refuses as bound does.                                       *)
LEMMA PolkadotTells == PolkadotP!Tells
<1> SUFFICES ASSUME NEW o, NEW c, Polkadot!Built(Polkadot!ID, o, c) = "ok", NEW paid, NEW given,
                    \/ paid = Polkadot!Paid(Polkadot!ID, o, c, given)
                    \/ \E changed \in Polkadot!Altered(Polkadot!ID, Polkadot!Paid(Polkadot!ID, o, c, given)) :
                         paid = changed[1]
             PROVE  PolkadotP!Agrees(Polkadot!ID, paid)
  BY DEF PolkadotP!Tells, Polkadot!Pairings, PolkadotP!Gives, PolkadotP!Honest
<1>1. Polkadot!Served(Polkadot!ID, o) = "ok"
  BY PolkadotServed
<1>2. paid.envelope = Whole(c.h) \/ paid.accepted = o
  BY PolkadotPaid, OneChanged, PaymentWithIs DEF Polkadot!Paid, Polkadot!Altered
<1>3. ASSUME paid.envelope = Whole(c.h) PROVE Polkadot!Told(Polkadot!ID, paid) = "payee"
  BY <1>3, PolkadotGate, ToldWhole DEF Polkadot!Told
<1>4. ASSUME paid.accepted = o, Polkadot!Told(Polkadot!ID, paid) # "payee"
      PROVE  Polkadot!Told(Polkadot!ID, paid) = Polkadot!Bound(Polkadot!ID, paid)
  <2>1. Shape(paid, ShapeCodes) # "ok" /\ Polkadot!Told(Polkadot!ID, paid) = Shape(paid, ShapeCodes)
    BY <1>4, PolkadotGate, First2 DEF Polkadot!Told, Broadcaster
  <2> QED
    BY <1>1, <1>4, <2>1, PolkadotGate, PresentedShape, PolkadotFirst, First8 DEF Polkadot!Bound, Polkadot!Check,
           Polkadot!Served
<1> QED
  BY <1>2, <1>3, <1>4 DEF PolkadotP!Agrees

(***************************************************************************)
(* Tron.                                                                    *)
(***************************************************************************)
TronP == INSTANCE PaymentProofs WITH
    Pairings <- Tron!Pairings, PublicProof <- Tron!PublicProof, Options <- Tron!Options,
    HonestOptions <- Tron!HonestOptions, Choices <- Tron!Choices, HonestChoices <- Tron!HonestChoices,
    Answers <- Tron!Answers, HonestAnswer <- Tron!HonestAnswer, Altered <- Tron!Altered, Served <- Tron!Served,
    BuildOnly <- Tron!BuildOnly, Built <- Tron!Built, Completed <- Tron!Completed, Paid <- Tron!Paid,
    Bound <- Tron!Bound, Told <- Tron!Told

LEMMA TronFirst == \A s : Tron!First(s) = First(s)
  BY DEF Tron!First, First

LEMMA TronPaid ==
    /\ \A c, o, t : Tron!PaymentWith(c, o, t) = PaymentWith(c, o, t)
    /\ \A x, o, t, n : Tron!Variants(x, o, t, n) = Variants(x, o, t, n)
  BY DEF Tron!OneOff, OneOff, Tron!PaymentWith, PaymentWith, Tron!EnvelopeForms, EnvelopeForms, Tron!Variants,
         Variants

LEMMA TronGate ==
    /\ \A x, a, k : Tron!Broadcaster(x, a, k) = Broadcaster(x, a, k)
    /\ \A x : Tron!PresentedWith(x, "ok") = PresentedWith(x, "ok")
    /\ Tron!ShapeCodes = ShapeCodes
  BY TronFirst DEF Tron!When, When, Tron!Shape, Shape, Tron!Broadcaster, Broadcaster, Tron!PresentedWith,
         PresentedWith,
         Tron!AcceptedBy, AcceptedBy, Tron!Refused, Refused, Tron!ShapeCodes, ShapeCodes

(* The filter serves what build takes.                                      *)
LEMMA TronFilters == "malformed" \notin Hashes => TronP!Filters
<1> SUFFICES ASSUME "malformed" \notin Hashes, NEW o, NEW c \in Tron!HonestChoices(Tron!ID)
             PROVE  /\ Tron!Built(Tron!ID, o, c) = "ok" <=> Tron!Served(Tron!ID, o) = "ok"
                         /\ ~Tron!BuildOnly(Tron!ID, o, c.h)
                    /\ Tron!Served(Tron!ID, o) \notin {"ok", "none"} =>
                         Tron!Built(Tron!ID, o, c) = Tron!Served(Tron!ID, o)
  BY DEF TronP!Filters, Tron!Pairings
<1>1. c.h # "malformed" /\ c.choice = "object" /\ c.given = "inputs" /\ Tron!FirstOption(c) = "ok"
      /\ c.version = "2" /\ c.accepts = "list" /\ c.offered = "offered"
  BY DEF Tron!HonestChoices, Tron!Choice, Tron!FirstOption, Tron!When
<1>2. Tron!Chosen(c, Tron!Served(Tron!ID, o)) = Tron!Refused(Tron!Served(Tron!ID, o))
  BY <1>1, TronFirst, First4 DEF Tron!Chosen, Tron!When
<1> QED
  BY <1>1, <1>2, TronFirst, First3, First7 DEF Tron!Built, Tron!BuiltTron, Tron!BuildOnly, Tron!Refused, Tron!When,
         Tron!Served

LEMMA TronServed == ASSUME NEW o, NEW c, Tron!Built(Tron!ID, o, c) = "ok" PROVE Tron!Served(Tron!ID, o) = "ok"
<1>1. Tron!Chosen(c, Tron!Served(Tron!ID, o)) = "ok"
  BY TronFirst, First3, First7 DEF Tron!Built, Tron!BuiltTron, Tron!When, Tron!Served
<1> QED
  BY <1>1, TronFirst, First4 DEF Tron!Chosen, Tron!Refused

(* broadcaster refuses as bound does.                                       *)
LEMMA TronTells == TronP!Tells
<1> SUFFICES ASSUME NEW o, NEW c, Tron!Built(Tron!ID, o, c) = "ok", NEW paid, NEW given,
                    \/ paid = Tron!Paid(Tron!ID, o, c, given)
                    \/ \E changed \in Tron!Altered(Tron!ID, Tron!Paid(Tron!ID, o, c, given)) : paid = changed[1]
             PROVE  TronP!Agrees(Tron!ID, paid)
  BY DEF TronP!Tells, Tron!Pairings, TronP!Gives, TronP!Honest
<1>1. Tron!Served(Tron!ID, o) = "ok"
  BY TronServed
<1>2. paid.envelope = Whole(c.h) \/ paid.accepted = o
  BY TronPaid, OneChanged, PaymentWithIs DEF Tron!Paid, Tron!Altered
<1>3. ASSUME paid.envelope = Whole(c.h) PROVE Tron!Told(Tron!ID, paid) = "payee"
  BY <1>3, TronGate, ToldWhole DEF Tron!Told
<1>4. ASSUME paid.accepted = o, Tron!Told(Tron!ID, paid) # "payee"
      PROVE  Tron!Told(Tron!ID, paid) = Tron!Bound(Tron!ID, paid)
  <2>1. Shape(paid, ShapeCodes) # "ok" /\ Tron!Told(Tron!ID, paid) = Shape(paid, ShapeCodes)
    BY <1>4, TronGate, First2 DEF Tron!Told, Broadcaster
  <2> QED
    BY <1>1, <1>4, <2>1, TronGate, PresentedShape, TronFirst, First5 DEF Tron!Bound, Tron!Check, Tron!Served
<1> QED
  BY <1>2, <1>3, <1>4 DEF TronP!Agrees

(***************************************************************************)
(* Algorand.                                                                *)
(***************************************************************************)
AlgorandP == INSTANCE PaymentProofs WITH
    Pairings <- Algorand!Pairings, PublicProof <- Algorand!PublicProof, Options <- Algorand!Options,
    HonestOptions <- Algorand!HonestOptions, Choices <- Algorand!Choices, HonestChoices <- Algorand!HonestChoices,
    Answers <- Algorand!Answers, HonestAnswer <- Algorand!HonestAnswer, Altered <- Algorand!Altered,
    Served <- Algorand!Served, BuildOnly <- Algorand!BuildOnly, Built <- Algorand!Built,
    Completed <- Algorand!Completed, Paid <- Algorand!Paid, Bound <- Algorand!Bound, Told <- Algorand!Told

LEMMA AlgorandFirst == \A s : Algorand!First(s) = First(s)
  BY DEF Algorand!First, First

LEMMA AlgorandPaid ==
    /\ \A c, o, t : Algorand!PaymentWith(c, o, t) = PaymentWith(c, o, t)
    /\ \A x, o, t, n : Algorand!Variants(x, o, t, n) = Variants(x, o, t, n)
  BY DEF Algorand!OneOff, OneOff, Algorand!PaymentWith, PaymentWith, Algorand!EnvelopeForms, EnvelopeForms,
         Algorand!Variants, Variants

LEMMA AlgorandGate ==
    /\ \A x, a, k : Algorand!Broadcaster(x, a, k) = Broadcaster(x, a, k)
    /\ \A x : Algorand!PresentedWith(x, "ok") = PresentedWith(x, "ok")
    /\ Algorand!ShapeCodes = ShapeCodes
  BY AlgorandFirst DEF Algorand!When, When, Algorand!Shape, Shape, Algorand!Broadcaster, Broadcaster,
         Algorand!PresentedWith, PresentedWith,
         Algorand!AcceptedBy, AcceptedBy, Algorand!Refused, Refused, Algorand!ShapeCodes, ShapeCodes

(* The filter serves what build takes.                                      *)
LEMMA AlgorandFilters == "malformed" \notin Hashes => AlgorandP!Filters
<1> SUFFICES ASSUME "malformed" \notin Hashes, NEW o, NEW c \in Algorand!HonestChoices(Algorand!ID)
             PROVE  /\ Algorand!Built(Algorand!ID, o, c) = "ok" <=> Algorand!Served(Algorand!ID, o) = "ok"
                         /\ ~Algorand!BuildOnly(Algorand!ID, o, c.h)
                    /\ Algorand!Served(Algorand!ID, o) \notin {"ok", "none"} =>
                         Algorand!Built(Algorand!ID, o, c) = Algorand!Served(Algorand!ID, o)
  BY DEF AlgorandP!Filters, Algorand!Pairings
<1>1. c.h # "malformed" /\ c.choice = "object" /\ c.given = "inputs" /\ Algorand!FirstOption(c) = "ok"
      /\ c.version = "2" /\ c.accepts = "list" /\ c.offered = "offered"
  BY DEF Algorand!HonestChoices, Algorand!Choice, Algorand!FirstOption, Algorand!When
<1>2. Algorand!Chosen(c, Algorand!Served(Algorand!ID, o)) = Algorand!Refused(Algorand!Served(Algorand!ID, o))
  BY <1>1, AlgorandFirst, First4 DEF Algorand!Chosen, Algorand!When
<1> QED
  BY <1>1, <1>2, AlgorandFirst, First3, First9 DEF Algorand!Built, Algorand!BuiltAlgorand, Algorand!Axfer,
         Algorand!BuildOnly, Algorand!Refused, Algorand!When, Algorand!Served

LEMMA AlgorandServed == ASSUME NEW o, NEW c, Algorand!Built(Algorand!ID, o, c) = "ok"
    PROVE Algorand!Served(Algorand!ID, o) = "ok"
<1>1. Algorand!Chosen(c, Algorand!Served(Algorand!ID, o)) = "ok"
  BY AlgorandFirst, First3, First9 DEF Algorand!Built, Algorand!BuiltAlgorand, Algorand!Axfer, Algorand!When,
         Algorand!Served
<1> QED
  BY <1>1, AlgorandFirst, First4 DEF Algorand!Chosen, Algorand!Refused

(* broadcaster refuses as bound does.                                       *)
LEMMA AlgorandTells == AlgorandP!Tells
<1> SUFFICES ASSUME NEW o, NEW c, Algorand!Built(Algorand!ID, o, c) = "ok", NEW paid, NEW given,
                    \/ paid = Algorand!Paid(Algorand!ID, o, c, given)
                    \/ \E changed \in Algorand!Altered(Algorand!ID, Algorand!Paid(Algorand!ID, o, c, given)) :
                         paid = changed[1]
             PROVE  AlgorandP!Agrees(Algorand!ID, paid)
  BY DEF AlgorandP!Tells, Algorand!Pairings, AlgorandP!Gives, AlgorandP!Honest
<1>1. Algorand!Served(Algorand!ID, o) = "ok"
  BY AlgorandServed
<1>2. paid.envelope = Whole(c.h) \/ paid.accepted = o
  BY AlgorandPaid, OneChanged, PaymentWithIs DEF Algorand!Paid, Algorand!Altered
<1>3. ASSUME paid.envelope = Whole(c.h) PROVE Algorand!Told(Algorand!ID, paid) = "payee"
  BY <1>3, AlgorandGate, ToldWhole DEF Algorand!Told
<1>4. ASSUME paid.accepted = o, Algorand!Told(Algorand!ID, paid) # "payee"
      PROVE  Algorand!Told(Algorand!ID, paid) = Algorand!Bound(Algorand!ID, paid)
  <2>1. Shape(paid, ShapeCodes) # "ok" /\ Algorand!Told(Algorand!ID, paid) = Shape(paid, ShapeCodes)
    BY <1>4, AlgorandGate, First2 DEF Algorand!Told, Broadcaster
  <2> QED
    BY <1>1, <1>4, <2>1, AlgorandGate, PresentedShape, AlgorandFirst, First2 DEF Algorand!Bound, Algorand!Check,
           Algorand!Served
<1> QED
  BY <1>2, <1>3, <1>4 DEF AlgorandP!Agrees

(***************************************************************************)
(* TON.                                                                     *)
(***************************************************************************)
TvmP == INSTANCE PaymentProofs WITH
    Pairings <- Tvm!Pairings, PublicProof <- Tvm!PublicProof, Options <- Tvm!Options,
    HonestOptions <- Tvm!HonestOptions, Choices <- Tvm!Choices, HonestChoices <- Tvm!HonestChoices,
    Answers <- Tvm!Answers, HonestAnswer <- Tvm!HonestAnswer, Altered <- Tvm!Altered, Served <- Tvm!Served,
    BuildOnly <- Tvm!BuildOnly, Built <- Tvm!Built, Completed <- Tvm!Completed, Paid <- Tvm!Paid, Bound <- Tvm!Bound,
    Told <- Tvm!Told

LEMMA TvmFirst == \A s : Tvm!First(s) = First(s)
  BY DEF Tvm!First, First

LEMMA TvmPaid ==
    /\ \A c, o, t : Tvm!PaymentWith(c, o, t) = PaymentWith(c, o, t)
    /\ \A x, o, t, n : Tvm!Variants(x, o, t, n) = Variants(x, o, t, n)
  BY DEF Tvm!OneOff, OneOff, Tvm!PaymentWith, PaymentWith, Tvm!EnvelopeForms, EnvelopeForms, Tvm!Variants, Variants

LEMMA TvmGate ==
    /\ \A x, a, k : Tvm!Broadcaster(x, a, k) = Broadcaster(x, a, k)
    /\ \A x : Tvm!PresentedWith(x, "ok") = PresentedWith(x, "ok")
    /\ Tvm!ShapeCodes = ShapeCodes
  BY TvmFirst DEF Tvm!When, When, Tvm!Shape, Shape, Tvm!Broadcaster, Broadcaster, Tvm!PresentedWith, PresentedWith,
         Tvm!AcceptedBy, AcceptedBy, Tvm!Refused, Refused, Tvm!ShapeCodes, ShapeCodes

(* The filter serves what build takes.                                      *)
LEMMA TvmFilters == "malformed" \notin Hashes /\ "absent" \notin Hashes /\ Hashes \cap Tvm!BagForms = {} => TvmP!Filters
<1> SUFFICES ASSUME "malformed" \notin Hashes, "absent" \notin Hashes, Hashes \cap Tvm!BagForms = {}, NEW o,
                      NEW c \in Tvm!HonestChoices(Tvm!ID)
             PROVE  /\ Tvm!Built(Tvm!ID, o, c) = "ok" <=> Tvm!Served(Tvm!ID, o) = "ok" /\ ~Tvm!BuildOnly(Tvm!ID, o, c.h)
                    /\ Tvm!Served(Tvm!ID, o) \notin {"ok", "none"} => Tvm!Built(Tvm!ID, o, c) = Tvm!Served(Tvm!ID, o)
  BY DEF TvmP!Filters, Tvm!Pairings
<1>1. c.h \in Hashes /\ c.choice = "object" /\ c.given \in {"inputs", "init"} /\ Tvm!FirstOption(c) = "ok"
      /\ c.version = "2" /\ c.accepts = "list" /\ c.offered = "offered"
  BY DEF Tvm!HonestChoices, Tvm!Choice, Tvm!FirstOption, Tvm!When
<1>2. Tvm!Chosen(c, Tvm!Check(o)) = Tvm!Refused(Tvm!Check(o))
  BY <1>1, TvmFirst, First4 DEF Tvm!Chosen, Tvm!When
<1>3. c.given \notin Tvm!BagForms /\ (c.given \in Tvm!Inits => Tvm!IsStateInit(c.given) /\ Tvm!DeploysFrom(c.given))
  BY <1>1 DEF Tvm!BagForms, Tvm!Inits, Tvm!IsStateInit, Tvm!DeploysFrom
<1>4. o.forwardPayload = c.h => Tvm!BagOf(o.forwardPayload) = "ok"
  BY <1>1, TvmFirst, First3 DEF Tvm!BagForms, Tvm!BagOf, Tvm!LayoutOf, Tvm!When
<1>5. Tvm!BuiltTvm(o, c) = IF Tvm!Refused(Tvm!Check(o)) # "ok" THEN Tvm!Refused(Tvm!Check(o))
                           ELSE IF Tvm!BagOf(o.forwardPayload) # "ok" THEN "tvm/carrier-mismatch"
                           ELSE IF o.timeout = "2^32-1" THEN "x402/option-malformed"
                           ELSE IF o.forwardPayload # c.h THEN "tvm/carrier-mismatch" ELSE "ok"
  BY <1>1, <1>2, <1>3, TvmFirst, First10 DEF Tvm!BuiltTvm, Tvm!When
<1>6. Tvm!Built(Tvm!ID, o, c) = Tvm!BuiltTvm(o, c)
  BY <1>1, TvmFirst, First3 DEF Tvm!Built, Tvm!When
<1> QED
  BY <1>4, <1>5, <1>6 DEF Tvm!Served, Tvm!BuildOnly, Tvm!Refused

LEMMA TvmServed == ASSUME NEW o, NEW c, Tvm!Built(Tvm!ID, o, c) = "ok" PROVE Tvm!Served(Tvm!ID, o) = "ok"
<1>1. Tvm!Chosen(c, Tvm!Served(Tvm!ID, o)) = "ok"
  BY TvmFirst, First3, First10 DEF Tvm!Built, Tvm!BuiltTvm, Tvm!When, Tvm!Served
<1> QED
  BY <1>1, TvmFirst, First4 DEF Tvm!Chosen, Tvm!Refused

(* broadcaster refuses as bound does.                                       *)
LEMMA TvmTells == TvmP!Tells
<1> SUFFICES ASSUME NEW o, NEW c, Tvm!Built(Tvm!ID, o, c) = "ok", NEW paid, NEW given,
                    \/ paid = Tvm!Paid(Tvm!ID, o, c, given)
                    \/ \E changed \in Tvm!Altered(Tvm!ID, Tvm!Paid(Tvm!ID, o, c, given)) : paid = changed[1]
             PROVE  TvmP!Agrees(Tvm!ID, paid)
  BY DEF TvmP!Tells, Tvm!Pairings, TvmP!Gives, TvmP!Honest
<1>1. Tvm!Served(Tvm!ID, o) = "ok"
  BY TvmServed
<1>2. paid.envelope = Whole(c.h) \/ paid.accepted = o
  BY TvmPaid, OneChanged, PaymentWithIs DEF Tvm!Paid, Tvm!Altered
<1>3. ASSUME paid.envelope = Whole(c.h) PROVE Tvm!Told(Tvm!ID, paid) = "payee"
  BY <1>3, TvmGate, ToldWhole DEF Tvm!Told
<1>4. ASSUME paid.accepted = o, Tvm!Told(Tvm!ID, paid) # "payee" PROVE Tvm!Told(Tvm!ID, paid) = Tvm!Bound(Tvm!ID, paid)
  <2>1. Shape(paid, ShapeCodes) # "ok" /\ Tvm!Told(Tvm!ID, paid) = Shape(paid, ShapeCodes)
    BY <1>4, TvmGate, First2 DEF Tvm!Told, Broadcaster
  <2> QED
    BY <1>1, <1>4, <2>1, TvmGate, PresentedShape, TvmFirst, First2 DEF Tvm!Bound, Tvm!Check, Tvm!Served
<1> QED
  BY <1>2, <1>3, <1>4 DEF TvmP!Agrees

(***************************************************************************)
(* The whole: a payment is of one rail throughout.                          *)
(***************************************************************************)
LEMMA EvmSame == (Evm!Init <=> EvmP!Init) /\ (Evm!Next <=> EvmP!Next) /\ (Evm!ServedBuilds <=> EvmP!ServedBuilds)
  BY DEF Evm!Init, EvmP!Init, Evm!Next, EvmP!Next, Evm!Build, EvmP!Build, Evm!Complete, EvmP!Complete, Evm!Alter,
         EvmP!Alter, Evm!Read, EvmP!Read, Evm!ServedBuilds, EvmP!ServedBuilds

LEMMA SvmSame == (Svm!Init <=> SvmP!Init) /\ (Svm!Next <=> SvmP!Next) /\ (Svm!ServedBuilds <=> SvmP!ServedBuilds)
  BY DEF Svm!Init, SvmP!Init, Svm!Next, SvmP!Next, Svm!Build, SvmP!Build, Svm!Complete, SvmP!Complete, Svm!Alter,
         SvmP!Alter, Svm!Read, SvmP!Read, Svm!ServedBuilds, SvmP!ServedBuilds

LEMMA HederaSame == (Hedera!Init <=> HederaP!Init) /\ (Hedera!Next <=> HederaP!Next)
    /\ (Hedera!ServedBuilds <=> HederaP!ServedBuilds)
  BY DEF Hedera!Init, HederaP!Init, Hedera!Next, HederaP!Next, Hedera!Build, HederaP!Build, Hedera!Complete,
         HederaP!Complete, Hedera!Alter, HederaP!Alter, Hedera!Read, HederaP!Read, Hedera!ServedBuilds,
         HederaP!ServedBuilds

LEMMA StellarSame == (Stellar!Init <=> StellarP!Init) /\ (Stellar!Next <=> StellarP!Next)
    /\ (Stellar!ServedBuilds <=> StellarP!ServedBuilds)
  BY DEF Stellar!Init, StellarP!Init, Stellar!Next, StellarP!Next, Stellar!Build, StellarP!Build, Stellar!Complete,
         StellarP!Complete, Stellar!Alter, StellarP!Alter, Stellar!Read, StellarP!Read, Stellar!ServedBuilds,
         StellarP!ServedBuilds

LEMMA XrplSame == (Xrpl!Init <=> XrplP!Init) /\ (Xrpl!Next <=> XrplP!Next) /\ (Xrpl!ServedBuilds <=> XrplP!ServedBuilds)
  BY DEF Xrpl!Init, XrplP!Init, Xrpl!Next, XrplP!Next, Xrpl!Build, XrplP!Build, Xrpl!Complete, XrplP!Complete,
         Xrpl!Alter, XrplP!Alter, Xrpl!Read, XrplP!Read, Xrpl!ServedBuilds, XrplP!ServedBuilds

LEMMA NearSame == (Near!Init <=> NearP!Init) /\ (Near!Next <=> NearP!Next) /\ (Near!ServedBuilds <=> NearP!ServedBuilds)
  BY DEF Near!Init, NearP!Init, Near!Next, NearP!Next, Near!Build, NearP!Build, Near!Complete, NearP!Complete,
         Near!Alter, NearP!Alter, Near!Read, NearP!Read, Near!ServedBuilds, NearP!ServedBuilds

LEMMA MoveSame == (Move!Init <=> MoveP!Init) /\ (Move!Next <=> MoveP!Next) /\ (Move!ServedBuilds <=> MoveP!ServedBuilds)
  BY DEF Move!Init, MoveP!Init, Move!Next, MoveP!Next, Move!Build, MoveP!Build, Move!Complete, MoveP!Complete,
         Move!Alter, MoveP!Alter, Move!Read, MoveP!Read, Move!ServedBuilds, MoveP!ServedBuilds

LEMMA CardanoSame == (Cardano!Init <=> CardanoP!Init) /\ (Cardano!Next <=> CardanoP!Next)
    /\ (Cardano!ServedBuilds <=> CardanoP!ServedBuilds)
  BY DEF Cardano!Init, CardanoP!Init, Cardano!Next, CardanoP!Next, Cardano!Build, CardanoP!Build, Cardano!Complete,
         CardanoP!Complete, Cardano!Alter, CardanoP!Alter, Cardano!Read, CardanoP!Read, Cardano!ServedBuilds,
         CardanoP!ServedBuilds

LEMMA StarknetSame == (Starknet!Init <=> StarknetP!Init) /\ (Starknet!Next <=> StarknetP!Next)
    /\ (Starknet!ServedBuilds <=> StarknetP!ServedBuilds)
  BY DEF Starknet!Init, StarknetP!Init, Starknet!Next, StarknetP!Next, Starknet!Build, StarknetP!Build,
         Starknet!Complete, StarknetP!Complete, Starknet!Alter, StarknetP!Alter, Starknet!Read, StarknetP!Read,
         Starknet!ServedBuilds, StarknetP!ServedBuilds

LEMMA CasperSame == (Casper!Init <=> CasperP!Init) /\ (Casper!Next <=> CasperP!Next)
    /\ (Casper!ServedBuilds <=> CasperP!ServedBuilds)
  BY DEF Casper!Init, CasperP!Init, Casper!Next, CasperP!Next, Casper!Build, CasperP!Build, Casper!Complete,
         CasperP!Complete, Casper!Alter, CasperP!Alter, Casper!Read, CasperP!Read, Casper!ServedBuilds,
         CasperP!ServedBuilds

LEMMA CcdSame == (Ccd!Init <=> CcdP!Init) /\ (Ccd!Next <=> CcdP!Next) /\ (Ccd!ServedBuilds <=> CcdP!ServedBuilds)
  BY DEF Ccd!Init, CcdP!Init, Ccd!Next, CcdP!Next, Ccd!Build, CcdP!Build, Ccd!Complete, CcdP!Complete, Ccd!Alter,
         CcdP!Alter, Ccd!Read, CcdP!Read, Ccd!ServedBuilds, CcdP!ServedBuilds

LEMMA PolkadotSame == (Polkadot!Init <=> PolkadotP!Init) /\ (Polkadot!Next <=> PolkadotP!Next)
    /\ (Polkadot!ServedBuilds <=> PolkadotP!ServedBuilds)
  BY DEF Polkadot!Init, PolkadotP!Init, Polkadot!Next, PolkadotP!Next, Polkadot!Build, PolkadotP!Build,
         Polkadot!Complete, PolkadotP!Complete, Polkadot!Alter, PolkadotP!Alter, Polkadot!Read, PolkadotP!Read,
         Polkadot!ServedBuilds, PolkadotP!ServedBuilds

LEMMA TronSame == (Tron!Init <=> TronP!Init) /\ (Tron!Next <=> TronP!Next) /\ (Tron!ServedBuilds <=> TronP!ServedBuilds)
  BY DEF Tron!Init, TronP!Init, Tron!Next, TronP!Next, Tron!Build, TronP!Build, Tron!Complete, TronP!Complete,
         Tron!Alter, TronP!Alter, Tron!Read, TronP!Read, Tron!ServedBuilds, TronP!ServedBuilds

LEMMA AlgorandSame == (Algorand!Init <=> AlgorandP!Init) /\ (Algorand!Next <=> AlgorandP!Next)
    /\ (Algorand!ServedBuilds <=> AlgorandP!ServedBuilds)
  BY DEF Algorand!Init, AlgorandP!Init, Algorand!Next, AlgorandP!Next, Algorand!Build, AlgorandP!Build,
         Algorand!Complete, AlgorandP!Complete, Algorand!Alter, AlgorandP!Alter, Algorand!Read, AlgorandP!Read,
         Algorand!ServedBuilds, AlgorandP!ServedBuilds

LEMMA TvmSame == (Tvm!Init <=> TvmP!Init) /\ (Tvm!Next <=> TvmP!Next) /\ (Tvm!ServedBuilds <=> TvmP!ServedBuilds)
  BY DEF Tvm!Init, TvmP!Init, Tvm!Next, TvmP!Next, Tvm!Build, TvmP!Build, Tvm!Complete, TvmP!Complete, Tvm!Alter,
         TvmP!Alter, Tvm!Read, TvmP!Read, Tvm!ServedBuilds, TvmP!ServedBuilds

LEMMA ChargesSame == (Charges!Init <=> ChargesP!Init) /\ (Charges!Next <=> ChargesP!Next)
    /\ (Charges!ServedBuilds <=> ChargesP!ServedBuilds)
  BY DEF Charges!Init, ChargesP!Init, Charges!Next, ChargesP!Next, Charges!Build, ChargesP!Build, Charges!Complete,
         ChargesP!Complete, Charges!Alter, ChargesP!Alter, Charges!Read, ChargesP!Read, Charges!ServedBuilds,
         ChargesP!ServedBuilds

LEMMA OnRails ==
    /\ Evm!Init \/ Evm!Next => pairing \in Evm!Pairings
    /\ Svm!Init \/ Svm!Next => pairing \in Svm!Pairings
    /\ Hedera!Init \/ Hedera!Next => pairing \in Hedera!Pairings
    /\ Stellar!Init \/ Stellar!Next => pairing \in Stellar!Pairings
    /\ Xrpl!Init \/ Xrpl!Next => pairing \in Xrpl!Pairings
    /\ Near!Init \/ Near!Next => pairing \in Near!Pairings
    /\ Move!Init \/ Move!Next => pairing \in Move!Pairings
    /\ Cardano!Init \/ Cardano!Next => pairing \in Cardano!Pairings
    /\ Starknet!Init \/ Starknet!Next => pairing \in Starknet!Pairings
    /\ Casper!Init \/ Casper!Next => pairing \in Casper!Pairings
    /\ Ccd!Init \/ Ccd!Next => pairing \in Ccd!Pairings
    /\ Polkadot!Init \/ Polkadot!Next => pairing \in Polkadot!Pairings
    /\ Tron!Init \/ Tron!Next => pairing \in Tron!Pairings
    /\ Algorand!Init \/ Algorand!Next => pairing \in Algorand!Pairings
    /\ Tvm!Init \/ Tvm!Next => pairing \in Tvm!Pairings
    /\ Charges!Init \/ Charges!Next => pairing \in Charges!Pairings
  BY DEF Evm!Init, Evm!Next, Svm!Init, Svm!Next, Hedera!Init, Hedera!Next, Stellar!Init, Stellar!Next, Xrpl!Init,
         Xrpl!Next, Near!Init, Near!Next, Move!Init, Move!Next, Cardano!Init, Cardano!Next, Starknet!Init,
         Starknet!Next, Casper!Init, Casper!Next, Ccd!Init, Ccd!Next, Polkadot!Init, Polkadot!Next, Tron!Init,
         Tron!Next, Algorand!Init, Algorand!Next, Tvm!Init, Tvm!Next, Charges!Init, Charges!Next

(* The rail of a pairing.                                                   *)
RailOf(p) ==
    IF p \in Evm!Pairings THEN 1
    ELSE IF p \in Svm!Pairings THEN 2
    ELSE IF p \in Hedera!Pairings THEN 3
    ELSE IF p \in Stellar!Pairings THEN 4
    ELSE IF p \in Xrpl!Pairings THEN 5
    ELSE IF p \in Near!Pairings THEN 6
    ELSE IF p \in Move!Pairings THEN 7
    ELSE IF p \in Cardano!Pairings THEN 8
    ELSE IF p \in Starknet!Pairings THEN 9
    ELSE IF p \in Casper!Pairings THEN 10
    ELSE IF p \in Ccd!Pairings THEN 11
    ELSE IF p \in Polkadot!Pairings THEN 12
    ELSE IF p \in Tron!Pairings THEN 13
    ELSE IF p \in Algorand!Pairings THEN 14
    ELSE IF p \in Tvm!Pairings THEN 15 ELSE 16

LEMMA RailNames ==
    /\ Evm!Pairings =
          {"x402/exact/eip155/eip3009", "x402/exact/eip155/permit2", "x402/upto/eip155/permit2",
           "x402/exact/eip155/erc7710", "x402/exact/eip155/erc7710/salt",
           "x402/auth-capture/eip155/eip3009", "x402/auth-capture/eip155/permit2"}
    /\ Svm!Pairings = {"x402/exact/solana", "x402/upto/solana", "x402/batch-settlement/solana"}
    /\ Hedera!Pairings = {"x402/exact/hedera", "x402/exact/hedera/transfer-executor"}
    /\ Stellar!Pairings = {"x402/exact/stellar"}
    /\ Xrpl!Pairings = {"x402/exact/xrpl"}
    /\ Near!Pairings = {"x402/exact/near"}
    /\ Move!Pairings = {"x402/exact/aptos", "x402/exact/sui"}
    /\ Cardano!Pairings = {"x402/exact/cardano"}
    /\ Starknet!Pairings = {"x402/exact/starknet"}
    /\ Casper!Pairings = {"x402/exact/casper"}
    /\ Ccd!Pairings = {"x402/exact/ccd"}
    /\ Polkadot!Pairings = {"x402/exact/polkadot/lcp-assets-remark"}
    /\ Tron!Pairings = {"x402/exact/tron/lcp-trc20-memo"}
    /\ Algorand!Pairings = {"x402/exact/algorand"}
    /\ Tvm!Pairings = {"x402/exact/tvm"}
    /\ Charges!Pairings = ChargeNames
  BY ChargesNames DEF Evm!Pairings, Evm!Captures, Evm!Delegations, Evm!Permits, Evm!ExactEip3009, Evm!ExactPermit2,
         Evm!UptoPermit2, Evm!ExactErc7710, Evm!ExactErc7710Salt, Evm!CaptureEip3009, Evm!CapturePermit2,
         Svm!Pairings, Svm!Exact, Svm!Upto, Svm!Batch, Hedera!Pairings, Hedera!Exact, Hedera!Executor,
         Stellar!Pairings, Stellar!ID, Xrpl!Pairings, Xrpl!ID, Near!Pairings, Near!ID, Move!Pairings, Move!Aptos,
         Move!Sui, Cardano!Pairings, Cardano!ID, Starknet!Pairings, Starknet!ID, Casper!Pairings, Casper!ID,
         Ccd!Pairings, Ccd!ID, Polkadot!Pairings, Polkadot!ID, Tron!Pairings, Tron!ID, Algorand!Pairings, Algorand!ID,
         Tvm!Pairings, Tvm!ID

LEMMA Rails ==
    /\ \A p \in Evm!Pairings : RailOf(p) = 1
    /\ \A p \in Svm!Pairings : RailOf(p) = 2
    /\ \A p \in Hedera!Pairings : RailOf(p) = 3
    /\ \A p \in Stellar!Pairings : RailOf(p) = 4
    /\ \A p \in Xrpl!Pairings : RailOf(p) = 5
    /\ \A p \in Near!Pairings : RailOf(p) = 6
    /\ \A p \in Move!Pairings : RailOf(p) = 7
    /\ \A p \in Cardano!Pairings : RailOf(p) = 8
    /\ \A p \in Starknet!Pairings : RailOf(p) = 9
    /\ \A p \in Casper!Pairings : RailOf(p) = 10
    /\ \A p \in Ccd!Pairings : RailOf(p) = 11
    /\ \A p \in Polkadot!Pairings : RailOf(p) = 12
    /\ \A p \in Tron!Pairings : RailOf(p) = 13
    /\ \A p \in Algorand!Pairings : RailOf(p) = 14
    /\ \A p \in Tvm!Pairings : RailOf(p) = 15
    /\ \A p \in Charges!Pairings : RailOf(p) = 16
<1>1. \A p \in Evm!Pairings : RailOf(p) = 1
  BY RailNames DEF RailOf
<1>2. \A p \in Svm!Pairings : RailOf(p) = 2
  BY RailNames DEF RailOf
<1>3. \A p \in Hedera!Pairings : RailOf(p) = 3
  BY RailNames DEF RailOf
<1>4. \A p \in Stellar!Pairings : RailOf(p) = 4
  BY RailNames DEF RailOf
<1>5. \A p \in Xrpl!Pairings : RailOf(p) = 5
  BY RailNames DEF RailOf
<1>6. \A p \in Near!Pairings : RailOf(p) = 6
  BY RailNames DEF RailOf
<1>7. \A p \in Move!Pairings : RailOf(p) = 7
  BY RailNames DEF RailOf
<1>8. \A p \in Cardano!Pairings : RailOf(p) = 8
  BY RailNames DEF RailOf
<1>9. \A p \in Starknet!Pairings : RailOf(p) = 9
  BY RailNames DEF RailOf
<1>10. \A p \in Casper!Pairings : RailOf(p) = 10
  BY RailNames DEF RailOf
<1>11. \A p \in Ccd!Pairings : RailOf(p) = 11
  BY RailNames DEF RailOf
<1>12. \A p \in Polkadot!Pairings : RailOf(p) = 12
  BY RailNames DEF RailOf
<1>13. \A p \in Tron!Pairings : RailOf(p) = 13
  BY RailNames DEF RailOf
<1>14. \A p \in Algorand!Pairings : RailOf(p) = 14
  BY RailNames DEF RailOf
<1>15. \A p \in Tvm!Pairings : RailOf(p) = 15
  BY RailNames DEF RailOf
<1>16. \A p \in Charges!Pairings : RailOf(p) = 16
  BY RailNames DEF RailOf, ChargeNames
<1> QED
  BY <1>1, <1>2, <1>3, <1>4, <1>5, <1>6, <1>7, <1>8, <1>9, <1>10, <1>11, <1>12, <1>13, <1>14, <1>15, <1>16

LEMMA Alone ==
    /\ pairing \in Evm!Pairings => (Init => Evm!Init) /\ (Next => Evm!Next)
    /\ pairing \in Svm!Pairings => (Init => Svm!Init) /\ (Next => Svm!Next)
    /\ pairing \in Hedera!Pairings => (Init => Hedera!Init) /\ (Next => Hedera!Next)
    /\ pairing \in Stellar!Pairings => (Init => Stellar!Init) /\ (Next => Stellar!Next)
    /\ pairing \in Xrpl!Pairings => (Init => Xrpl!Init) /\ (Next => Xrpl!Next)
    /\ pairing \in Near!Pairings => (Init => Near!Init) /\ (Next => Near!Next)
    /\ pairing \in Move!Pairings => (Init => Move!Init) /\ (Next => Move!Next)
    /\ pairing \in Cardano!Pairings => (Init => Cardano!Init) /\ (Next => Cardano!Next)
    /\ pairing \in Starknet!Pairings => (Init => Starknet!Init) /\ (Next => Starknet!Next)
    /\ pairing \in Casper!Pairings => (Init => Casper!Init) /\ (Next => Casper!Next)
    /\ pairing \in Ccd!Pairings => (Init => Ccd!Init) /\ (Next => Ccd!Next)
    /\ pairing \in Polkadot!Pairings => (Init => Polkadot!Init) /\ (Next => Polkadot!Next)
    /\ pairing \in Tron!Pairings => (Init => Tron!Init) /\ (Next => Tron!Next)
    /\ pairing \in Algorand!Pairings => (Init => Algorand!Init) /\ (Next => Algorand!Next)
    /\ pairing \in Tvm!Pairings => (Init => Tvm!Init) /\ (Next => Tvm!Next)
    /\ pairing \in Charges!Pairings => (Init => Charges!Init) /\ (Next => Charges!Next)
  BY OnRails, Rails DEF Init, Next

LEMMA SamePairing == [Next]_vars => pairing' = pairing
  BY EvmSame, EvmP!SamePairing, SvmSame, SvmP!SamePairing, HederaSame, HederaP!SamePairing, StellarSame,
         StellarP!SamePairing, XrplSame, XrplP!SamePairing, NearSame, NearP!SamePairing, MoveSame, MoveP!SamePairing,
         CardanoSame, CardanoP!SamePairing, StarknetSame, StarknetP!SamePairing, CasperSame, CasperP!SamePairing,
         CcdSame, CcdP!SamePairing, PolkadotSame, PolkadotP!SamePairing, TronSame, TronP!SamePairing, AlgorandSame,
         AlgorandP!SamePairing, TvmSame, TvmP!SamePairing, ChargesSame, ChargesP!SamePairing DEF Next, vars,
         EvmP!vars, SvmP!vars, HederaP!vars, StellarP!vars, XrplP!vars, NearP!vars, MoveP!vars, CardanoP!vars,
         StarknetP!vars, CasperP!vars, CcdP!vars, PolkadotP!vars, TronP!vars, AlgorandP!vars, TvmP!vars, ChargesP!vars

LEMMA EvmKept ==
    /\ Init /\ pairing \in Evm!Pairings => EvmP!Known
    /\ (pairing \in Evm!Pairings => EvmP!Known) /\ [Next]_vars => (pairing \in Evm!Pairings => EvmP!Known)'
<1>1. Init /\ pairing \in Evm!Pairings => EvmP!Known
  BY Alone, EvmSame, EvmP!KnownStart
<1>2. ASSUME pairing \in Evm!Pairings => EvmP!Known, [Next]_vars, (pairing \in Evm!Pairings)' PROVE EvmP!Known'
  <2>1. pairing \in Evm!Pairings
    BY <1>2, SamePairing
  <2>2. [EvmP!Next]_EvmP!vars
    BY <1>2, <2>1, Alone, EvmSame DEF vars, EvmP!vars
  <2> QED
    BY <1>2, <2>1, <2>2, EvmTells, EvmP!KnownStep, HashesAssumption
<1> QED
  BY <1>1, <1>2

LEMMA SvmKept ==
    /\ Init /\ pairing \in Svm!Pairings => SvmP!Known
    /\ (pairing \in Svm!Pairings => SvmP!Known) /\ [Next]_vars => (pairing \in Svm!Pairings => SvmP!Known)'
<1>1. Init /\ pairing \in Svm!Pairings => SvmP!Known
  BY Alone, SvmSame, SvmP!KnownStart
<1>2. ASSUME pairing \in Svm!Pairings => SvmP!Known, [Next]_vars, (pairing \in Svm!Pairings)' PROVE SvmP!Known'
  <2>1. pairing \in Svm!Pairings
    BY <1>2, SamePairing
  <2>2. [SvmP!Next]_SvmP!vars
    BY <1>2, <2>1, Alone, SvmSame DEF vars, SvmP!vars
  <2> QED
    BY <1>2, <2>1, <2>2, SvmTells, SvmP!KnownStep, HashesAssumption
<1> QED
  BY <1>1, <1>2

LEMMA HederaKept ==
    /\ Init /\ pairing \in Hedera!Pairings => HederaP!Known
    /\ (pairing \in Hedera!Pairings => HederaP!Known) /\ [Next]_vars => (pairing \in Hedera!Pairings => HederaP!Known)'
<1>1. Init /\ pairing \in Hedera!Pairings => HederaP!Known
  BY Alone, HederaSame, HederaP!KnownStart
<1>2. ASSUME pairing \in Hedera!Pairings => HederaP!Known, [Next]_vars, (pairing \in Hedera!Pairings)'
      PROVE  HederaP!Known'
  <2>1. pairing \in Hedera!Pairings
    BY <1>2, SamePairing
  <2>2. [HederaP!Next]_HederaP!vars
    BY <1>2, <2>1, Alone, HederaSame DEF vars, HederaP!vars
  <2> QED
    BY <1>2, <2>1, <2>2, HederaTells, HederaP!KnownStep, HashesAssumption
<1> QED
  BY <1>1, <1>2

LEMMA StellarKept ==
    /\ Init /\ pairing \in Stellar!Pairings => StellarP!Known
    /\ (pairing \in Stellar!Pairings => StellarP!Known) /\ [Next]_vars =>
         (pairing \in Stellar!Pairings => StellarP!Known)'
<1>1. Init /\ pairing \in Stellar!Pairings => StellarP!Known
  BY Alone, StellarSame, StellarP!KnownStart
<1>2. ASSUME pairing \in Stellar!Pairings => StellarP!Known, [Next]_vars, (pairing \in Stellar!Pairings)'
      PROVE  StellarP!Known'
  <2>1. pairing \in Stellar!Pairings
    BY <1>2, SamePairing
  <2>2. [StellarP!Next]_StellarP!vars
    BY <1>2, <2>1, Alone, StellarSame DEF vars, StellarP!vars
  <2> QED
    BY <1>2, <2>1, <2>2, StellarTells, StellarP!KnownStep, HashesAssumption
<1> QED
  BY <1>1, <1>2

LEMMA XrplKept ==
    /\ Init /\ pairing \in Xrpl!Pairings => XrplP!Known
    /\ (pairing \in Xrpl!Pairings => XrplP!Known) /\ [Next]_vars => (pairing \in Xrpl!Pairings => XrplP!Known)'
<1>1. Init /\ pairing \in Xrpl!Pairings => XrplP!Known
  BY Alone, XrplSame, XrplP!KnownStart
<1>2. ASSUME pairing \in Xrpl!Pairings => XrplP!Known, [Next]_vars, (pairing \in Xrpl!Pairings)' PROVE XrplP!Known'
  <2>1. pairing \in Xrpl!Pairings
    BY <1>2, SamePairing
  <2>2. [XrplP!Next]_XrplP!vars
    BY <1>2, <2>1, Alone, XrplSame DEF vars, XrplP!vars
  <2> QED
    BY <1>2, <2>1, <2>2, XrplTells, XrplP!KnownStep, HashesAssumption
<1> QED
  BY <1>1, <1>2

LEMMA NearKept ==
    /\ Init /\ pairing \in Near!Pairings => NearP!Known
    /\ (pairing \in Near!Pairings => NearP!Known) /\ [Next]_vars => (pairing \in Near!Pairings => NearP!Known)'
<1>1. Init /\ pairing \in Near!Pairings => NearP!Known
  BY Alone, NearSame, NearP!KnownStart
<1>2. ASSUME pairing \in Near!Pairings => NearP!Known, [Next]_vars, (pairing \in Near!Pairings)' PROVE NearP!Known'
  <2>1. pairing \in Near!Pairings
    BY <1>2, SamePairing
  <2>2. [NearP!Next]_NearP!vars
    BY <1>2, <2>1, Alone, NearSame DEF vars, NearP!vars
  <2> QED
    BY <1>2, <2>1, <2>2, NearTells, NearP!KnownStep, HashesAssumption
<1> QED
  BY <1>1, <1>2

LEMMA MoveKept ==
    /\ Init /\ pairing \in Move!Pairings => MoveP!Known
    /\ (pairing \in Move!Pairings => MoveP!Known) /\ [Next]_vars => (pairing \in Move!Pairings => MoveP!Known)'
<1>1. Init /\ pairing \in Move!Pairings => MoveP!Known
  BY Alone, MoveSame, MoveP!KnownStart
<1>2. ASSUME pairing \in Move!Pairings => MoveP!Known, [Next]_vars, (pairing \in Move!Pairings)' PROVE MoveP!Known'
  <2>1. pairing \in Move!Pairings
    BY <1>2, SamePairing
  <2>2. [MoveP!Next]_MoveP!vars
    BY <1>2, <2>1, Alone, MoveSame DEF vars, MoveP!vars
  <2> QED
    BY <1>2, <2>1, <2>2, MoveTells, MoveP!KnownStep, HashesAssumption
<1> QED
  BY <1>1, <1>2

LEMMA CardanoKept ==
    /\ Init /\ pairing \in Cardano!Pairings => CardanoP!Known
    /\ (pairing \in Cardano!Pairings => CardanoP!Known) /\ [Next]_vars =>
         (pairing \in Cardano!Pairings => CardanoP!Known)'
<1>1. Init /\ pairing \in Cardano!Pairings => CardanoP!Known
  BY Alone, CardanoSame, CardanoP!KnownStart
<1>2. ASSUME pairing \in Cardano!Pairings => CardanoP!Known, [Next]_vars, (pairing \in Cardano!Pairings)'
      PROVE  CardanoP!Known'
  <2>1. pairing \in Cardano!Pairings
    BY <1>2, SamePairing
  <2>2. [CardanoP!Next]_CardanoP!vars
    BY <1>2, <2>1, Alone, CardanoSame DEF vars, CardanoP!vars
  <2> QED
    BY <1>2, <2>1, <2>2, CardanoTells, CardanoP!KnownStep, HashesAssumption
<1> QED
  BY <1>1, <1>2

LEMMA StarknetKept ==
    /\ Init /\ pairing \in Starknet!Pairings => StarknetP!Known
    /\ (pairing \in Starknet!Pairings => StarknetP!Known) /\ [Next]_vars =>
         (pairing \in Starknet!Pairings => StarknetP!Known)'
<1>1. Init /\ pairing \in Starknet!Pairings => StarknetP!Known
  BY Alone, StarknetSame, StarknetP!KnownStart
<1>2. ASSUME pairing \in Starknet!Pairings => StarknetP!Known, [Next]_vars, (pairing \in Starknet!Pairings)'
      PROVE  StarknetP!Known'
  <2>1. pairing \in Starknet!Pairings
    BY <1>2, SamePairing
  <2>2. [StarknetP!Next]_StarknetP!vars
    BY <1>2, <2>1, Alone, StarknetSame DEF vars, StarknetP!vars
  <2> QED
    BY <1>2, <2>1, <2>2, StarknetTells, StarknetP!KnownStep, HashesAssumption
<1> QED
  BY <1>1, <1>2

LEMMA CasperKept ==
    /\ Init /\ pairing \in Casper!Pairings => CasperP!Known
    /\ (pairing \in Casper!Pairings => CasperP!Known) /\ [Next]_vars => (pairing \in Casper!Pairings => CasperP!Known)'
<1>1. Init /\ pairing \in Casper!Pairings => CasperP!Known
  BY Alone, CasperSame, CasperP!KnownStart
<1>2. ASSUME pairing \in Casper!Pairings => CasperP!Known, [Next]_vars, (pairing \in Casper!Pairings)'
      PROVE  CasperP!Known'
  <2>1. pairing \in Casper!Pairings
    BY <1>2, SamePairing
  <2>2. [CasperP!Next]_CasperP!vars
    BY <1>2, <2>1, Alone, CasperSame DEF vars, CasperP!vars
  <2> QED
    BY <1>2, <2>1, <2>2, CasperTells, CasperP!KnownStep, HashesAssumption
<1> QED
  BY <1>1, <1>2

LEMMA CcdKept ==
    /\ Init /\ pairing \in Ccd!Pairings => CcdP!Known
    /\ (pairing \in Ccd!Pairings => CcdP!Known) /\ [Next]_vars => (pairing \in Ccd!Pairings => CcdP!Known)'
<1>1. Init /\ pairing \in Ccd!Pairings => CcdP!Known
  BY Alone, CcdSame, CcdP!KnownStart
<1>2. ASSUME pairing \in Ccd!Pairings => CcdP!Known, [Next]_vars, (pairing \in Ccd!Pairings)' PROVE CcdP!Known'
  <2>1. pairing \in Ccd!Pairings
    BY <1>2, SamePairing
  <2>2. [CcdP!Next]_CcdP!vars
    BY <1>2, <2>1, Alone, CcdSame DEF vars, CcdP!vars
  <2> QED
    BY <1>2, <2>1, <2>2, CcdTells, CcdP!KnownStep, HashesAssumption
<1> QED
  BY <1>1, <1>2

LEMMA PolkadotKept ==
    /\ Init /\ pairing \in Polkadot!Pairings => PolkadotP!Known
    /\ (pairing \in Polkadot!Pairings => PolkadotP!Known) /\ [Next]_vars =>
         (pairing \in Polkadot!Pairings => PolkadotP!Known)'
<1>1. Init /\ pairing \in Polkadot!Pairings => PolkadotP!Known
  BY Alone, PolkadotSame, PolkadotP!KnownStart
<1>2. ASSUME pairing \in Polkadot!Pairings => PolkadotP!Known, [Next]_vars, (pairing \in Polkadot!Pairings)'
      PROVE  PolkadotP!Known'
  <2>1. pairing \in Polkadot!Pairings
    BY <1>2, SamePairing
  <2>2. [PolkadotP!Next]_PolkadotP!vars
    BY <1>2, <2>1, Alone, PolkadotSame DEF vars, PolkadotP!vars
  <2> QED
    BY <1>2, <2>1, <2>2, PolkadotTells, PolkadotP!KnownStep, HashesAssumption
<1> QED
  BY <1>1, <1>2

LEMMA TronKept ==
    /\ Init /\ pairing \in Tron!Pairings => TronP!Known
    /\ (pairing \in Tron!Pairings => TronP!Known) /\ [Next]_vars => (pairing \in Tron!Pairings => TronP!Known)'
<1>1. Init /\ pairing \in Tron!Pairings => TronP!Known
  BY Alone, TronSame, TronP!KnownStart
<1>2. ASSUME pairing \in Tron!Pairings => TronP!Known, [Next]_vars, (pairing \in Tron!Pairings)' PROVE TronP!Known'
  <2>1. pairing \in Tron!Pairings
    BY <1>2, SamePairing
  <2>2. [TronP!Next]_TronP!vars
    BY <1>2, <2>1, Alone, TronSame DEF vars, TronP!vars
  <2> QED
    BY <1>2, <2>1, <2>2, TronTells, TronP!KnownStep, HashesAssumption
<1> QED
  BY <1>1, <1>2

LEMMA AlgorandKept ==
    /\ Init /\ pairing \in Algorand!Pairings => AlgorandP!Known
    /\ (pairing \in Algorand!Pairings => AlgorandP!Known) /\ [Next]_vars =>
         (pairing \in Algorand!Pairings => AlgorandP!Known)'
<1>1. Init /\ pairing \in Algorand!Pairings => AlgorandP!Known
  BY Alone, AlgorandSame, AlgorandP!KnownStart
<1>2. ASSUME pairing \in Algorand!Pairings => AlgorandP!Known, [Next]_vars, (pairing \in Algorand!Pairings)'
      PROVE  AlgorandP!Known'
  <2>1. pairing \in Algorand!Pairings
    BY <1>2, SamePairing
  <2>2. [AlgorandP!Next]_AlgorandP!vars
    BY <1>2, <2>1, Alone, AlgorandSame DEF vars, AlgorandP!vars
  <2> QED
    BY <1>2, <2>1, <2>2, AlgorandTells, AlgorandP!KnownStep, HashesAssumption
<1> QED
  BY <1>1, <1>2

LEMMA TvmKept ==
    /\ Init /\ pairing \in Tvm!Pairings => TvmP!Known
    /\ (pairing \in Tvm!Pairings => TvmP!Known) /\ [Next]_vars => (pairing \in Tvm!Pairings => TvmP!Known)'
<1>1. Init /\ pairing \in Tvm!Pairings => TvmP!Known
  BY Alone, TvmSame, TvmP!KnownStart
<1>2. ASSUME pairing \in Tvm!Pairings => TvmP!Known, [Next]_vars, (pairing \in Tvm!Pairings)' PROVE TvmP!Known'
  <2>1. pairing \in Tvm!Pairings
    BY <1>2, SamePairing
  <2>2. [TvmP!Next]_TvmP!vars
    BY <1>2, <2>1, Alone, TvmSame DEF vars, TvmP!vars
  <2> QED
    BY <1>2, <2>1, <2>2, TvmTells, TvmP!KnownStep, HashesAssumption
<1> QED
  BY <1>1, <1>2

LEMMA ChargesKept ==
    /\ Init /\ pairing \in Charges!Pairings => ChargesP!Known
    /\ (pairing \in Charges!Pairings => ChargesP!Known) /\ [Next]_vars =>
         (pairing \in Charges!Pairings => ChargesP!Known)'
<1>1. Init /\ pairing \in Charges!Pairings => ChargesP!Known
  BY Alone, ChargesSame, ChargesP!KnownStart
<1>2. ASSUME pairing \in Charges!Pairings => ChargesP!Known, [Next]_vars, (pairing \in Charges!Pairings)'
      PROVE  ChargesP!Known'
  <2>1. pairing \in Charges!Pairings
    BY <1>2, SamePairing
  <2>2. [ChargesP!Next]_ChargesP!vars
    BY <1>2, <2>1, Alone, ChargesSame DEF vars, ChargesP!vars
  <2> QED
    BY <1>2, <2>1, <2>2, ChargesTells, ChargesP!KnownStep, HashesAssumption
<1> QED
  BY <1>1, <1>2

(* What the rails are held to: a payment is of one of them, and known in    *)
(* each stage.                                                              *)
Railed ==
    \/ pairing \in Evm!Pairings
    \/ pairing \in Svm!Pairings
    \/ pairing \in Hedera!Pairings
    \/ pairing \in Stellar!Pairings
    \/ pairing \in Xrpl!Pairings
    \/ pairing \in Near!Pairings
    \/ pairing \in Move!Pairings
    \/ pairing \in Cardano!Pairings
    \/ pairing \in Starknet!Pairings
    \/ pairing \in Casper!Pairings
    \/ pairing \in Ccd!Pairings
    \/ pairing \in Polkadot!Pairings
    \/ pairing \in Tron!Pairings
    \/ pairing \in Algorand!Pairings
    \/ pairing \in Tvm!Pairings
    \/ pairing \in Charges!Pairings

Kept ==
    /\ pairing \in Evm!Pairings => EvmP!Known
    /\ pairing \in Svm!Pairings => SvmP!Known
    /\ pairing \in Hedera!Pairings => HederaP!Known
    /\ pairing \in Stellar!Pairings => StellarP!Known
    /\ pairing \in Xrpl!Pairings => XrplP!Known
    /\ pairing \in Near!Pairings => NearP!Known
    /\ pairing \in Move!Pairings => MoveP!Known
    /\ pairing \in Cardano!Pairings => CardanoP!Known
    /\ pairing \in Starknet!Pairings => StarknetP!Known
    /\ pairing \in Casper!Pairings => CasperP!Known
    /\ pairing \in Ccd!Pairings => CcdP!Known
    /\ pairing \in Polkadot!Pairings => PolkadotP!Known
    /\ pairing \in Tron!Pairings => TronP!Known
    /\ pairing \in Algorand!Pairings => AlgorandP!Known
    /\ pairing \in Tvm!Pairings => TvmP!Known
    /\ pairing \in Charges!Pairings => ChargesP!Known

LEMMA KeptStart == Init => Railed /\ Kept
  BY OnRails, EvmKept, SvmKept, HederaKept, StellarKept, XrplKept, NearKept, MoveKept, CardanoKept, StarknetKept,
         CasperKept, CcdKept, PolkadotKept, TronKept, AlgorandKept, TvmKept, ChargesKept DEF Init, Railed, Kept

LEMMA KeptStep == Railed /\ Kept /\ [Next]_vars => Railed' /\ Kept'
<1> SUFFICES ASSUME Railed, Kept, [Next]_vars PROVE Railed' /\ Kept'
  OBVIOUS
<1>1. Railed'
  BY SamePairing DEF Railed
<1>2. Kept'
  BY EvmKept, SvmKept, HederaKept, StellarKept, XrplKept, NearKept, MoveKept, CardanoKept, StarknetKept, CasperKept,
         CcdKept, PolkadotKept, TronKept, AlgorandKept, TvmKept, ChargesKept DEF Kept
<1> QED
  BY <1>1, <1>2

LEMMA KeptServes == Kept => ServedBuilds
<1> SUFFICES ASSUME Kept PROVE ServedBuilds
  OBVIOUS
<1>1. Evm!ServedBuilds
  <2>1. CASE pairing \in Evm!Pairings
    BY <2>1, EvmSame, EvmFilters, EvmP!KnownServes, HashesAssumption DEF Kept
  <2>2. CASE pairing \notin Evm!Pairings
    BY <2>2 DEF Evm!ServedBuilds
  <2> QED
    BY <2>1, <2>2
<1>2. Svm!ServedBuilds
  <2>1. CASE pairing \in Svm!Pairings
    BY <2>1, SvmSame, SvmFilters, SvmP!KnownServes, HashesAssumption DEF Kept
  <2>2. CASE pairing \notin Svm!Pairings
    BY <2>2 DEF Svm!ServedBuilds
  <2> QED
    BY <2>1, <2>2
<1>3. Hedera!ServedBuilds
  <2>1. CASE pairing \in Hedera!Pairings
    BY <2>1, HederaSame, HederaFilters, HederaP!KnownServes, HashesAssumption DEF Kept
  <2>2. CASE pairing \notin Hedera!Pairings
    BY <2>2 DEF Hedera!ServedBuilds
  <2> QED
    BY <2>1, <2>2
<1>4. Stellar!ServedBuilds
  <2>1. CASE pairing \in Stellar!Pairings
    BY <2>1, StellarSame, StellarFilters, StellarP!KnownServes, HashesAssumption DEF Kept
  <2>2. CASE pairing \notin Stellar!Pairings
    BY <2>2 DEF Stellar!ServedBuilds
  <2> QED
    BY <2>1, <2>2
<1>5. Xrpl!ServedBuilds
  <2>1. CASE pairing \in Xrpl!Pairings
    BY <2>1, XrplSame, XrplFilters, XrplP!KnownServes, HashesAssumption DEF Kept
  <2>2. CASE pairing \notin Xrpl!Pairings
    BY <2>2 DEF Xrpl!ServedBuilds
  <2> QED
    BY <2>1, <2>2
<1>6. Near!ServedBuilds
  <2>1. CASE pairing \in Near!Pairings
    BY <2>1, NearSame, NearFilters, NearP!KnownServes, HashesAssumption DEF Kept
  <2>2. CASE pairing \notin Near!Pairings
    BY <2>2 DEF Near!ServedBuilds
  <2> QED
    BY <2>1, <2>2
<1>7. Move!ServedBuilds
  <2>1. CASE pairing \in Move!Pairings
    BY <2>1, MoveSame, MoveFilters, MoveP!KnownServes, HashesAssumption DEF Kept
  <2>2. CASE pairing \notin Move!Pairings
    BY <2>2 DEF Move!ServedBuilds
  <2> QED
    BY <2>1, <2>2
<1>8. Cardano!ServedBuilds
  <2>1. CASE pairing \in Cardano!Pairings
    BY <2>1, CardanoSame, CardanoFilters, CardanoP!KnownServes, HashesAssumption DEF Kept
  <2>2. CASE pairing \notin Cardano!Pairings
    BY <2>2 DEF Cardano!ServedBuilds
  <2> QED
    BY <2>1, <2>2
<1>9. Starknet!ServedBuilds
  <2>1. CASE pairing \in Starknet!Pairings
    BY <2>1, StarknetSame, StarknetFilters, StarknetP!KnownServes, HashesAssumption DEF Kept
  <2>2. CASE pairing \notin Starknet!Pairings
    BY <2>2 DEF Starknet!ServedBuilds
  <2> QED
    BY <2>1, <2>2
<1>10. Casper!ServedBuilds
  <2>1. CASE pairing \in Casper!Pairings
    BY <2>1, CasperSame, CasperFilters, CasperP!KnownServes, HashesAssumption DEF Kept
  <2>2. CASE pairing \notin Casper!Pairings
    BY <2>2 DEF Casper!ServedBuilds
  <2> QED
    BY <2>1, <2>2
<1>11. Ccd!ServedBuilds
  <2>1. CASE pairing \in Ccd!Pairings
    BY <2>1, CcdSame, CcdFilters, CcdP!KnownServes, HashesAssumption DEF Kept
  <2>2. CASE pairing \notin Ccd!Pairings
    BY <2>2 DEF Ccd!ServedBuilds
  <2> QED
    BY <2>1, <2>2
<1>12. Polkadot!ServedBuilds
  <2>1. CASE pairing \in Polkadot!Pairings
    BY <2>1, PolkadotSame, PolkadotFilters, PolkadotP!KnownServes, HashesAssumption DEF Kept
  <2>2. CASE pairing \notin Polkadot!Pairings
    BY <2>2 DEF Polkadot!ServedBuilds
  <2> QED
    BY <2>1, <2>2
<1>13. Tron!ServedBuilds
  <2>1. CASE pairing \in Tron!Pairings
    BY <2>1, TronSame, TronFilters, TronP!KnownServes, HashesAssumption DEF Kept
  <2>2. CASE pairing \notin Tron!Pairings
    BY <2>2 DEF Tron!ServedBuilds
  <2> QED
    BY <2>1, <2>2
<1>14. Algorand!ServedBuilds
  <2>1. CASE pairing \in Algorand!Pairings
    BY <2>1, AlgorandSame, AlgorandFilters, AlgorandP!KnownServes, HashesAssumption DEF Kept
  <2>2. CASE pairing \notin Algorand!Pairings
    BY <2>2 DEF Algorand!ServedBuilds
  <2> QED
    BY <2>1, <2>2
<1>15. Tvm!ServedBuilds
  <2>1. CASE pairing \in Tvm!Pairings
    BY <2>1, TvmSame, TvmFilters, TvmP!KnownServes, HashesAssumption DEF Kept
  <2>2. CASE pairing \notin Tvm!Pairings
    BY <2>2 DEF Tvm!ServedBuilds
  <2> QED
    BY <2>1, <2>2
<1>16. Charges!ServedBuilds
  <2>1. CASE pairing \in Charges!Pairings
    BY <2>1, ChargesSame, ChargesFilters, ChargesP!KnownServes, HashesAssumption DEF Kept
  <2>2. CASE pairing \notin Charges!Pairings
    BY <2>2 DEF Charges!ServedBuilds
  <2> QED
    BY <2>1, <2>2
<1> QED
  BY <1>1, <1>2, <1>3, <1>4, <1>5, <1>6, <1>7, <1>8, <1>9, <1>10, <1>11, <1>12, <1>13, <1>14, <1>15, <1>16
         DEF ServedBuilds

LEMMA KeptAgrees == Railed /\ Kept => BroadcasterAgrees
  BY DEF Railed, Kept, BroadcasterAgrees, EvmP!Known, EvmP!Telling, SvmP!Known, SvmP!Telling, HederaP!Known,
         HederaP!Telling, StellarP!Known, StellarP!Telling, XrplP!Known, XrplP!Telling, NearP!Known, NearP!Telling,
         MoveP!Known, MoveP!Telling, CardanoP!Known, CardanoP!Telling, StarknetP!Known, StarknetP!Telling,
         CasperP!Known, CasperP!Telling, CcdP!Known, CcdP!Telling, PolkadotP!Known, PolkadotP!Telling, TronP!Known,
         TronP!Telling, AlgorandP!Known, AlgorandP!Telling, TvmP!Known, TvmP!Telling, ChargesP!Known, ChargesP!Telling

(* Of every pairing modelled, the filter serves an option just when build   *)
(* takes it, but for the faults left to build, and one it refuses build     *)
(* refuses with the same refusal: the agent is never offered what it        *)
(* cannot pay, nor denied what it can (_x402.py:124-137,                    *)
(* x402_evm.py:220-223).                                                    *)
THEOREM PaymentsServeBuilds == Spec => []ServedBuilds
<1> QED
  BY KeptStart, KeptStep, KeptServes, PTL DEF Spec

(* Of every pairing modelled, and of whatever its carrier makes of an       *)
(* honest payment, broadcaster names who sends it or refuses it with the    *)
(* refusal bound gives (_types.py:201-208).                                 *)
THEOREM PaymentsBroadcasterAgrees == Spec => []BroadcasterAgrees
<1> QED
  BY KeptStart, KeptStep, KeptAgrees, PTL DEF Spec
================================================================================
