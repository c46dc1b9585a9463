----------------------------- MODULE ServerProofs -----------------------------
(***************************************************************************)
(* What the channel steps guarantee for every set of channels, hashes,     *)
(* prices and concurrent calls (Channels), and what the server's seals     *)
(* guarantee for every set of offers and any number of restarts (Server).  *)
(***************************************************************************)
EXTENDS Server, TLAPS

(***************************************************************************)
(* The channels.                                                           *)
(***************************************************************************)
(* Every hold is of an opening the agent paid, and nothing in it is more    *)
(* than the prices signed for in all the channels.                          *)
Covered(x) == x.charged <= total /\ x.signedMax <= total /\ x.opening \in openings

HoldsWithin ==
    /\ \A o \in openings : o.max <= total
    /\ \A x \in holds : Covered(x)

OpsWithin ==
    \A s \in Slots : ops[s] # Idle =>
        Covered(ops[s].hold) /\ ops[s].max = ops[s].hold.charged + ops[s].price

VouchersWithin == \A v \in vouchers : v.max <= total

(* While no amounts are mixed, a hold charges no more than was signed, and  *)
(* was signed for no more than the prices of its channel.                   *)
Sound(x) ==
    /\ x.charged <= x.signedMax
    /\ x.signedMax <= budget[x.channel]

HoldsSound ==
    /\ \A o \in openings : o.max <= budget[o.channel]
    /\ unmixed => \A x \in holds : Sound(x)

OpsSound == unmixed => \A s \in Slots : ops[s] # Idle => Sound(ops[s].hold)

VouchersSound == unmixed => Bounded

TotalInv == HoldsWithin /\ OpsWithin /\ VouchersWithin
SoundInv == HoldsSound /\ OpsSound /\ VouchersSound
Inv == TotalInv /\ SoundInv /\ HeldOnly

LEMMA PriceTypes ==
    /\ \A p \in Prices : p \in Nat
    /\ \A c \in Challenge : c.price \in Nat
  BY ChannelsAssumption DEF Challenge

LEMMA TypeInit == Init => TypeOK
  BY ChannelsAssumption DEF Init, TypeOK

(* A hold as the agent passes it is a hold, and no more than what was       *)
(* signed for covers it.                                                    *)
LEMMA PassedHolds ==
    ASSUME TypeOK, NEW x \in holds, NEW y \in Passed(x)
    PROVE  /\ y \in Hold
           /\ HoldsWithin => Covered(y)
           /\ latest => y = x
<1>1. x \in Hold /\ \A z \in holds : z \in Hold
  BY DEF TypeOK
<1>2. CASE y = x
  BY <1>1, <1>2 DEF HoldsWithin
<1>3. CASE y # x
  <2>1. PICK z \in holds : y \in {x, [x EXCEPT !.channel = z.channel], [x EXCEPT !.h = z.h],
                                  [x EXCEPT !.atr = z.atr], [x EXCEPT !.opening = z.opening],
                                  [x EXCEPT !.charged = z.charged], [x EXCEPT !.signedMax = z.signedMax]}
    BY <1>3 DEF Passed
  <2>2. y \in Hold
    BY <1>1, <2>1 DEF Hold
  <2>3. /\ y.charged \in {x.charged, z.charged} /\ y.signedMax \in {x.signedMax, z.signedMax}
        /\ y.opening \in {x.opening, z.opening}
    BY <1>1, <2>1 DEF Hold
  <2>4. HoldsWithin => Covered(y)
    BY <2>3 DEF HoldsWithin, Covered
  <2> QED
    BY <1>3, <2>2, <2>4 DEF Passed
<1> QED
  BY <1>2, <1>3

LEMMA UpdatedHold ==
    ASSUME NEW op \in Signing
    PROVE  /\ Updated(op) \in Hold
           /\ Updated(op) = [op.hold EXCEPT !.signedMax = Updated(op).signedMax]
           /\ Updated(op).charged = op.hold.charged
           /\ Updated(op).channel = op.hold.channel /\ Updated(op).opening = op.hold.opening
           /\ Updated(op).signedMax \in {op.hold.signedMax, op.max}
           /\ Updated(op).signedMax >= op.hold.signedMax /\ Updated(op).signedMax >= op.max
  BY DEF Signing, Hold, Updated, Greater

LEMMA TypeNext == TypeOK /\ [Next]_vars => TypeOK'
<1> SUFFICES ASSUME TypeOK, [Next]_vars PROVE TypeOK'
  OBVIOUS
<1> USE DEF TypeOK
<1>0. Call => calls' \in 0..MaxCalls
  BY ChannelsAssumption DEF Call
<1>1. ASSUME NEW c \in Channels, NEW p \in Prices, Opened(c, p)
      PROVE  TypeOK'
  <2>1. OpeningOf(c, p) \in Opening /\ OpeningOf(c, p).max \in Nat
    BY PriceTypes, ChannelsAssumption DEF Opening, OpeningOf
  <2>2. budget' \in [Channels -> Nat] /\ total' \in Nat
    BY <1>1, <2>1 DEF Opened
  <2> QED
    BY <1>0, <1>1, <2>1, <2>2 DEF Opened
<1>2. ASSUME NEW o \in openings, NEW b \in Hashes, OpenChannel(o, b)
      PROVE  TypeOK'
  <2>1. o \in Opening
    OBVIOUS
  <2>2. Held(o, b) \in Hold
    BY <2>1 DEF Opening, Hold, Held
  <2> QED
    BY <1>0, <1>2, <2>2 DEF OpenChannel
<1>3. ASSUME NEW s \in Slots, NEW c \in Challenge, NEW kind \in Kinds, NEW x \in holds, NEW y \in Passed(x),
             Within(s, y, c, kind)
      PROVE  TypeOK'
  <2>1. y \in Hold
    BY PassedHolds
  <2>2. Amount(y, c, kind) \in Nat
    BY <2>1, PriceTypes DEF Amount, Hold
  <2>3. [stage |-> "sign", hold |-> y, kind |-> kind, max |-> Amount(y, c, kind),
         price |-> IF kind = "voucher" THEN c.price ELSE 0, challenge |-> c] \in Signing
    BY <2>1, <2>2, PriceTypes DEF Signing
  <2>4. ops' \in [Slots -> Signing \cup {Idle}]
    BY <1>3, <2>3 DEF Within
  <2>5. unmixed' \in BOOLEAN
    BY <1>3, ZenonT(30) DEF Within
  <2> QED
    BY <1>0, <1>3, <2>4, <2>5 DEF Within
<1>4. ASSUME NEW s \in Slots, SignerRaises(s)
      PROVE  TypeOK'
  BY <1>4 DEF SignerRaises
<1>5. ASSUME NEW s \in Slots, NEW returned \in BOOLEAN, SignerSigns(s, returned)
      PROVE  TypeOK'
  <2>1. ops[s] \in Signing
    BY <1>5 DEF SignerSigns
  <2>2. Updated(ops[s]) \in Hold
    BY <2>1, UpdatedHold
  <2>3. holds' \subseteq Hold
    BY <1>5, <2>2 DEF SignerSigns, Replace
  <2>4. ops[s].hold \in Hold /\ ops[s].max \in Nat /\ ops[s].price \in Nat /\ ops[s].kind \in Kinds
    BY <2>1 DEF Signing
  <2>5. vouchers' \subseteq Voucher
    BY <1>5, <2>4 DEF SignerSigns, Voucher, Hold
  <2>6. budget' \in [Channels -> Nat] /\ total' \in Nat
    BY <1>5, <2>4 DEF SignerSigns, Hold
  <2>7. ops' \in [Slots -> Signing \cup {Idle}]
    BY <1>5 DEF SignerSigns
  <2> QED
    BY <1>5, <2>3, <2>5, <2>6, <2>7 DEF SignerSigns
<1>6. ASSUME NEW x \in holds, NEW amount \in 0..AmountLimit, NEW y \in Passed(x), RecordCharge(y, amount)
      PROVE  TypeOK'
  <2>1. Charged(y, amount) \in Hold
    BY PassedHolds, ChannelsAssumption DEF Hold, Charged
  <2>2. unmixed' \in BOOLEAN
    BY <1>6, ZenonT(30) DEF RecordCharge
  <2> QED
    BY <1>0, <1>6, <2>1, <2>2 DEF RecordCharge, Replace
<1>7. CASE ProcessEnds
  BY <1>7 DEF ProcessEnds
<1>8. CASE UNCHANGED vars
  BY <1>8 DEF vars
<1> QED
  BY <1>1, <1>2, <1>3, <1>4, <1>5, <1>6, <1>7, <1>8 DEF Next, Open, Pay, Sign, Record

------------------------------------------------------------------------------
(* The prices signed for bound what is signed. *)

LEMMA InvInit == Init => Inv
  BY DEF Init, Inv, TotalInv, HoldsWithin, OpsWithin, VouchersWithin, SoundInv, HoldsSound, OpsSound,
         VouchersSound, Bounded, HeldOnly

(* What is signed for only grows, and what it covers stays covered. *)
LEMMA CoveredStays ==
    ASSUME TypeOK, TypeOK', total' >= total, openings \subseteq openings'
    PROVE  /\ \A x \in Hold : Covered(x) => Covered(x)'
           /\ \A o \in Opening : o.max <= total => o.max <= total'
           /\ \A v \in Voucher : v.max <= total => v.max <= total'
  BY DEF TypeOK, Covered, Hold, Opening, Voucher

LEMMA TotalNext == TypeOK /\ TypeOK' /\ TotalInv /\ [Next]_vars => TotalInv'
<1> SUFFICES ASSUME TypeOK, TypeOK', TotalInv, [Next]_vars PROVE TotalInv'
  OBVIOUS
<1>0. /\ openings \subseteq Opening /\ holds \subseteq Hold /\ vouchers \subseteq Voucher
      /\ ops \in [Slots -> Signing \cup {Idle}] /\ total \in Nat /\ total' \in Nat
      /\ \A op \in Signing : op.hold \in Hold /\ op.max \in Nat /\ op.price \in Nat
  BY DEF TypeOK, Signing
<1>a. ASSUME total' >= total, openings \subseteq openings',
             \A o \in openings' : o \in openings \/ o.max <= total',
             \A x \in holds' : x \in holds \/ Covered(x)',
             \A t \in Slots : ops'[t] # Idle => ops'[t] = ops[t],
             \A v \in vouchers' : v \in vouchers \/ v.max <= total'
      PROVE  TotalInv'
  <2>1. HoldsWithin' /\ VouchersWithin'
    BY <1>0, <1>a, CoveredStays DEF TotalInv, HoldsWithin, VouchersWithin
  <2>2. OpsWithin'
    BY <1>0, <1>a, CoveredStays DEF TotalInv, OpsWithin
  <2> QED
    BY <2>1, <2>2 DEF TotalInv
<1>1. ASSUME NEW c \in Channels, NEW p \in Prices, Opened(c, p)
      PROVE  TotalInv'
  <2> DEFINE o == OpeningOf(c, p)
  <2>1. o.max \in Nat /\ openings' = openings \cup {o} /\ total' = total + o.max /\ UNCHANGED <<holds, ops, vouchers>>
    BY <1>1, PriceTypes DEF Opened, OpeningOf
  <2>2. o.max <= total' /\ total' >= total
    BY <1>0, <2>1
  <2> HIDE DEF o
  <2> QED
    BY <1>a, <2>1, <2>2
<1>2. ASSUME NEW o \in openings, NEW b \in Hashes, OpenChannel(o, b)
      PROVE  TotalInv'
  <2>1. o.max \in Nat /\ o.max <= total
    BY <1>0 DEF TotalInv, HoldsWithin, Opening
  <2>2. holds' = holds \cup {Held(o, b)} /\ UNCHANGED <<openings, ops, vouchers, total>>
    BY <1>2 DEF OpenChannel
  <2>3. Covered(Held(o, b))'
    BY <1>0, <2>1, <2>2 DEF Covered, Held
  <2> QED
    BY <1>0, <1>a, <2>2, <2>3
<1>3. ASSUME NEW s \in Slots, NEW c \in Challenge, NEW kind \in Kinds, NEW x \in holds, NEW y \in Passed(x),
             Within(s, y, c, kind)
      PROVE  TotalInv'
  <2>1. Covered(y)
    BY PassedHolds DEF TotalInv
  <2>2. /\ UNCHANGED <<openings, holds, vouchers, total>>
        /\ \A t \in Slots : t # s => ops'[t] = ops[t]
        /\ ops'[s].hold = y /\ ops'[s].max = y.charged + ops'[s].price
    BY <1>3 DEF Within, Amount, TypeOK
  <2>3. OpsWithin'
    BY <2>1, <2>2 DEF TotalInv, OpsWithin, Covered
  <2>4. HoldsWithin' /\ VouchersWithin'
    BY <2>2 DEF TotalInv, HoldsWithin, VouchersWithin, Covered
  <2> QED
    BY <2>3, <2>4 DEF TotalInv
<1>4. ASSUME NEW s \in Slots, SignerRaises(s)
      PROVE  TotalInv'
  <2>1. /\ UNCHANGED <<openings, holds, vouchers, total>>
        /\ \A t \in Slots : ops'[t] # Idle => ops'[t] = ops[t]
    BY <1>4 DEF SignerRaises, TypeOK
  <2> QED
    BY <1>0, <1>a, <2>1
<1>5. ASSUME NEW s \in Slots, NEW returned \in BOOLEAN, SignerSigns(s, returned)
      PROVE  TotalInv'
  <2>1. PICK op \in Signing : op = ops[s]
    BY <1>5 DEF SignerSigns, TypeOK
  <2>2. PICK u : u = Updated(op)
    OBVIOUS
  <2>3. /\ openings' = openings /\ total' = total + op.price
        /\ \A t \in Slots : ops'[t] # Idle => ops'[t] = ops[t]
        /\ \A v \in vouchers' : v \in vouchers \/ v.max = op.max
        /\ \A x \in holds' : x \in holds \/ x = u
    BY <1>5, <2>1, <2>2 DEF SignerSigns, TypeOK, Replace
  <2>4. Covered(op.hold) /\ op.max = op.hold.charged + op.price
    BY <1>5, <2>1 DEF SignerSigns, TotalInv, OpsWithin
  <2>5. op.hold.charged \in Nat /\ op.hold.signedMax \in Nat /\ op.max \in Nat /\ op.price \in Nat
    BY <1>0 DEF Hold
  <2>6. op.max <= total' /\ total' >= total /\ op.hold.signedMax <= total' /\ op.hold.charged <= total'
    BY <1>0, <2>3, <2>4, <2>5 DEF Covered
  <2>7. Covered(u)'
    BY <2>2, <2>3, <2>4, <2>6, UpdatedHold DEF Covered
  <2> QED
    BY <1>a, <2>3, <2>6, <2>7
<1>6. ASSUME NEW x \in holds, NEW amount \in 0..AmountLimit, NEW y \in Passed(x), RecordCharge(y, amount)
      PROVE  TotalInv'
  <2>1. y \in Hold /\ Covered(y) /\ y.signedMax \in Nat
    BY PassedHolds DEF TotalInv, Hold
  <2>2. PICK u : u = Charged(y, amount)
    OBVIOUS
  <2>3. /\ UNCHANGED <<openings, ops, vouchers, total>>
        /\ \A z \in holds' : z \in holds \/ z = u
        /\ amount <= y.signedMax
    BY <1>6, <2>2 DEF RecordCharge, Chargeable, Replace
  <2>4. u.charged = amount /\ u.signedMax = y.signedMax /\ u.opening = y.opening
    BY <2>1, <2>2 DEF Hold, Charged
  <2>5. amount <= total
    BY <1>0, <2>1, <2>3, ChannelsAssumption DEF Covered
  <2>6. Covered(u)'
    BY <2>1, <2>3, <2>4, <2>5 DEF Covered
  <2> QED
    BY <1>0, <1>a, <2>3, <2>6
<1>7. CASE ProcessEnds
  <2>1. /\ UNCHANGED <<openings, holds, vouchers, total>>
        /\ \A t \in Slots : ops'[t] = Idle
    BY <1>7 DEF ProcessEnds
  <2> QED
    BY <1>0, <1>a, <2>1
<1>8. CASE UNCHANGED vars
  BY <1>0, <1>8, <1>a DEF vars
<1> QED
  BY <1>1, <1>2, <1>3, <1>4, <1>5, <1>6, <1>7, <1>8 DEF Next, Open, Pay, Sign, Record

(* A channel's budget only grows, and what is sound stays so. *)
LEMMA SoundStays ==
    ASSUME TypeOK, TypeOK', \A c \in Channels : budget'[c] >= budget[c]
    PROVE  /\ \A x \in Hold : Sound(x) => Sound(x)'
           /\ \A o \in Opening : o.max <= budget[o.channel] => o.max <= budget'[o.channel]
           /\ \A v \in Voucher : v.max <= budget[v.channel] => v.max <= budget'[v.channel]
  BY DEF TypeOK, Sound, Hold, Opening, Voucher

(* A hold with one kept hold's channel and amounts is as sound as it. *)
LEMMA OwnSound ==
    ASSUME HoldsSound, unmixed, NEW y, Own(y)
    PROVE  Sound(y)
  BY DEF HoldsSound, Own, Sound

LEMMA SoundNext == TypeOK /\ TypeOK' /\ TotalInv /\ SoundInv /\ [Next]_vars => SoundInv'
<1> SUFFICES ASSUME TypeOK, TypeOK', TotalInv, SoundInv, [Next]_vars PROVE SoundInv'
  OBVIOUS
<1>0. /\ openings \subseteq Opening /\ holds \subseteq Hold /\ vouchers \subseteq Voucher
      /\ ops \in [Slots -> Signing \cup {Idle}]
      /\ \A op \in Signing : op.hold \in Hold /\ op.max \in Nat /\ op.price \in Nat
  BY DEF TypeOK, Signing
<1>a. ASSUME \A c \in Channels : budget'[c] >= budget[c],
             unmixed' => unmixed,
             \A o \in openings' : o \in openings \/ o.max <= budget'[o.channel],
             unmixed' => \A x \in holds' : x \in holds \/ Sound(x)',
             \A t \in Slots : ops'[t] # Idle => ops'[t] = ops[t],
             unmixed' => \A v \in vouchers' : v \in vouchers \/ v.max <= budget'[v.channel]
      PROVE  SoundInv'
  <2>1. HoldsSound'
    BY <1>0, <1>a, SoundStays DEF SoundInv, HoldsSound
  <2>2. OpsSound'
    BY <1>0, <1>a, SoundStays DEF SoundInv, OpsSound
  <2>3. VouchersSound'
    BY <1>0, <1>a, SoundStays DEF SoundInv, VouchersSound, Bounded
  <2> QED
    BY <2>1, <2>2, <2>3 DEF SoundInv
<1>b. ASSUME budget' = budget
      PROVE  \A c \in Channels : budget'[c] >= budget[c]
  BY <1>b DEF TypeOK
<1>1. ASSUME NEW c \in Channels, NEW p \in Prices, Opened(c, p)
      PROVE  SoundInv'
  <2> DEFINE o == OpeningOf(c, p)
  <2>1. /\ o.max \in Nat /\ o.channel = c /\ openings' = openings \cup {o}
        /\ budget' = [budget EXCEPT ![c] = @ + o.max] /\ UNCHANGED <<holds, ops, vouchers, unmixed>>
    BY <1>1, PriceTypes DEF Opened, OpeningOf
  <2>2. \A d \in Channels : budget'[d] >= budget[d]
    BY <2>1 DEF TypeOK
  <2>3. budget[c] \in Nat /\ budget'[c] = budget[c] + o.max
    BY <2>1 DEF TypeOK
  <2> HIDE DEF o
  <2>4. o.max <= budget'[o.channel]
    BY <2>1, <2>3
  <2> QED
    BY <1>a, <2>1, <2>2, <2>4
<1>2. ASSUME NEW o \in openings, NEW b \in Hashes, OpenChannel(o, b)
      PROVE  SoundInv'
  <2>1. o.max \in Nat /\ o.max <= budget[o.channel]
    BY <1>0 DEF SoundInv, HoldsSound, Opening
  <2>2. holds' = holds \cup {Held(o, b)} /\ UNCHANGED <<openings, ops, vouchers, budget, unmixed>>
    BY <1>2 DEF OpenChannel
  <2>3. Sound(Held(o, b))'
    BY <2>1, <2>2 DEF Sound, Held
  <2> QED
    BY <1>a, <1>b, <2>2, <2>3
<1>3. ASSUME NEW s \in Slots, NEW c \in Challenge, NEW kind \in Kinds, NEW x \in holds, NEW y \in Passed(x),
             Within(s, y, c, kind)
      PROVE  SoundInv'
  <2>1. /\ UNCHANGED <<openings, holds, vouchers, budget>> /\ unmixed' => unmixed /\ Own(y)
        /\ \A t \in Slots : t # s => ops'[t] = ops[t]
        /\ ops'[s].hold = y
    BY <1>3 DEF Within, TypeOK
  <2>2. UNCHANGED <<openings, holds, vouchers, budget>>
    BY <1>3 DEF Within
  <2>3. unmixed' => unmixed /\ Sound(y)
    BY <1>3, OwnSound DEF Within, SoundInv
  <2>4. OpsSound'
    BY <2>1, <2>2, <2>3 DEF SoundInv, OpsSound, Sound
  <2>5. HoldsSound' /\ VouchersSound'
    BY <2>2, <2>3 DEF SoundInv, HoldsSound, VouchersSound, Bounded, Sound
  <2> QED
    BY <2>4, <2>5 DEF SoundInv
<1>4. ASSUME NEW s \in Slots, SignerRaises(s)
      PROVE  SoundInv'
  <2>1. /\ UNCHANGED <<openings, holds, vouchers, budget, unmixed>>
        /\ \A t \in Slots : ops'[t] # Idle => ops'[t] = ops[t]
    BY <1>4 DEF SignerRaises, TypeOK
  <2> QED
    BY <1>a, <1>b, <2>1
<1>5. ASSUME NEW s \in Slots, NEW returned \in BOOLEAN, SignerSigns(s, returned)
      PROVE  SoundInv'
  <2>1. PICK op \in Signing : op = ops[s]
    BY <1>5 DEF SignerSigns, TypeOK
  <2>2. PICK u : u = Updated(op)
    OBVIOUS
  <2>3. /\ openings' = openings /\ unmixed' = unmixed
        /\ budget' = [budget EXCEPT ![op.hold.channel] = @ + op.price]
        /\ \A t \in Slots : ops'[t] # Idle => ops'[t] = ops[t]
        /\ \A v \in vouchers' : v \in vouchers \/ (v.max = op.max /\ v.channel = op.hold.channel)
        /\ \A x \in holds' : x \in holds \/ x = u
    BY <1>5, <2>1, <2>2 DEF SignerSigns, TypeOK, Replace
  <2>4. op.max = op.hold.charged + op.price
    BY <1>5, <2>1 DEF SignerSigns, TotalInv, OpsWithin
  <2>5. /\ op.hold.charged \in Nat /\ op.hold.signedMax \in Nat /\ op.max \in Nat /\ op.price \in Nat
        /\ op.hold.channel \in Channels
    BY <1>0 DEF Hold
  <2>6. /\ budget[op.hold.channel] \in Nat /\ budget'[op.hold.channel] = budget[op.hold.channel] + op.price
        /\ \A d \in Channels : budget'[d] >= budget[d]
    BY <2>3, <2>5 DEF TypeOK
  <2>7. unmixed' => op.max <= budget'[op.hold.channel] /\ Sound(u)'
    <3>1. ASSUME unmixed
          PROVE  /\ op.hold.charged <= op.hold.signedMax
                 /\ op.hold.signedMax <= budget'[op.hold.channel] /\ op.max <= budget'[op.hold.channel]
      <4>1. Sound(op.hold)
        BY <1>5, <2>1, <3>1 DEF SignerSigns, SoundInv, OpsSound
      <4> QED
        BY <2>4, <2>5, <2>6, <4>1 DEF Sound
    <3>2. /\ u.charged = op.hold.charged /\ u.channel = op.hold.channel
          /\ u.signedMax \in {op.hold.signedMax, op.max} /\ u.signedMax >= op.hold.signedMax
          /\ u.signedMax \in Nat
      BY <2>2, UpdatedHold DEF Hold
    <3> QED
      BY <2>3, <2>5, <3>1, <3>2 DEF Sound
  <2> QED
    BY <1>a, <2>3, <2>6, <2>7
<1>6. ASSUME NEW x \in holds, NEW amount \in 0..AmountLimit, NEW y \in Passed(x), RecordCharge(y, amount)
      PROVE  SoundInv'
  <2>1. PICK u : u = Charged(y, amount)
    OBVIOUS
  <2>2. /\ UNCHANGED <<openings, ops, vouchers, budget>>
        /\ \A z \in holds' : z \in holds \/ z = u
        /\ amount <= y.signedMax
    BY <1>6, <2>1 DEF RecordCharge, Chargeable, Replace
  <2>3. unmixed' => unmixed /\ Sound(y)
    BY <1>6, OwnSound DEF RecordCharge, SoundInv
  <2>4. u.charged = amount /\ u.signedMax = y.signedMax /\ u.channel = y.channel
    BY <2>1, PassedHolds DEF Hold, Charged
  <2>5. unmixed' => Sound(u)'
    BY <2>2, <2>3, <2>4 DEF Sound
  <2> QED
    BY <1>a, <1>b, <2>2, <2>3, <2>5
<1>7. CASE ProcessEnds
  <2>1. /\ UNCHANGED <<openings, holds, vouchers, budget, unmixed>>
        /\ \A t \in Slots : ops'[t] = Idle
    BY <1>7 DEF ProcessEnds
  <2> QED
    BY <1>a, <1>b, <2>1
<1>8. CASE UNCHANGED vars
  BY <1>8, <1>a, <1>b DEF vars
<1> QED
  BY <1>1, <1>2, <1>3, <1>4, <1>5, <1>6, <1>7, <1>8 DEF Next, Open, Pay, Sign, Record

LEMMA HeldNext == TypeOK /\ TotalInv /\ HeldOnly /\ [Next]_vars => HeldOnly'
<1> SUFFICES ASSUME TypeOK, TotalInv, HeldOnly, [Next]_vars PROVE HeldOnly'
  OBVIOUS
<1>a. ASSUME openings \subseteq openings', \A t \in Slots : ops'[t] # Idle => ops'[t] = ops[t]
      PROVE  HeldOnly'
  BY <1>a DEF HeldOnly
<1>1. ASSUME NEW s \in Slots, NEW c \in Challenge, NEW kind \in Kinds, NEW x \in holds, NEW y \in Passed(x),
             Within(s, y, c, kind)
      PROVE  HeldOnly'
  <2>1. /\ openings' = openings /\ ops'[s].hold = y /\ ops'[s].challenge = c
        /\ \A t \in Slots : t # s => ops'[t] = ops[t]
    BY <1>1 DEF Within, TypeOK
  <2>2. /\ y.opening \in openings /\ y.opening.channel = y.channel /\ y.opening.h = y.atr /\ y.h = y.atr
        /\ c.h \in {y.atr, NoContext} /\ c.channel \in {y.channel, NoChannel}
    BY <1>1, PassedHolds DEF Within, Agrees, Binds, Asks, TotalInv, Covered
  <2>3. ASSUME NEW t \in Slots, ops'[t] # Idle
        PROVE  /\ \E o \in openings' : /\ o.channel = ops'[t].hold.channel
                                       /\ o.h = ops'[t].hold.atr /\ o.h = ops'[t].hold.h
               /\ ops'[t].challenge.h \in {ops'[t].hold.atr, NoContext}
               /\ ops'[t].challenge.channel \in {ops'[t].hold.channel, NoChannel}
    <3>1. CASE t = s
      BY <2>1, <2>2, <3>1
    <3>2. CASE t # s
      BY <2>1, <2>3, <3>2 DEF HeldOnly
    <3> QED
      BY <3>1, <3>2
  <2> QED
    BY <2>3 DEF HeldOnly
<1>2. CASE Pay
  BY <1>1, <1>2 DEF Pay
<1>3. CASE Open \/ Record
  BY <1>3, <1>a DEF Open, Opened, OpenChannel, Record, RecordCharge
<1>4. ASSUME Sign \/ ProcessEnds
      PROVE  openings' = openings /\ \A t \in Slots : ops'[t] # Idle => ops'[t] = ops[t]
  <2>1. \A s \in Slots : SignerRaises(s) =>
            openings' = openings /\ \A t \in Slots : ops'[t] # Idle => ops'[t] = ops[t]
    BY DEF SignerRaises, TypeOK
  <2>2. \A s \in Slots, returned \in BOOLEAN : SignerSigns(s, returned) =>
            openings' = openings /\ \A t \in Slots : ops'[t] # Idle => ops'[t] = ops[t]
    BY DEF SignerSigns, TypeOK
  <2> QED
    BY <1>4, <2>1, <2>2 DEF Sign, ProcessEnds
<1>5. CASE UNCHANGED vars
  BY <1>5, <1>a DEF vars
<1> QED
  BY <1>2, <1>3, <1>4, <1>5, <1>a DEF Next

LEMMA Invariance == Spec => [](TypeOK /\ Inv)
<1>1. Init => TypeOK /\ Inv
  BY TypeInit, InvInit
<1>2. TypeOK /\ Inv /\ [Next]_vars => (TypeOK /\ Inv)'
  BY TypeNext, TotalNext, SoundNext, HeldNext DEF Inv
<1> QED
  BY <1>1, <1>2, PTL DEF Spec

(* The channel state keeps its types. *)
THEOREM TypeCorrect == Spec => []TypeOK
<1> QED
  BY Invariance, PTL

(* Whatever the seller asks and reports, and whatever holds the agent       *)
(* passes at once, no voucher is for more than the prices signed for, in    *)
(* its channel while no amounts are mixed and in all of them otherwise.     *)
THEOREM BoundsTotal == Spec => []TotalBounded
<1>1. Inv => TotalBounded
  BY DEF Inv, TotalInv, VouchersWithin, SoundInv, VouchersSound, TotalBounded
<1> QED
  BY <1>1, Invariance, PTL

(* The signer is handed vouchers only of a channel the agent opened, for    *)
(* its hash and for challenges that name no other.                          *)
THEOREM HoldsChannel == Spec => []HeldOnly
<1>1. Inv => HeldOnly
  BY DEF Inv
<1> QED
  BY <1>1, Invariance, PTL

------------------------------------------------------------------------------
(* The agent that passes the latest hold, one call at a time: it keeps one  *)
(* hold per channel, and every call in progress is over a kept one.         *)
OneHold ==
    /\ \A x, y \in holds : x.channel = y.channel => x = y
    /\ \A s \in Slots : ops[s] # Idle => ops[s].hold \in holds
    /\ \A s, t \in Slots : ops[s] # Idle /\ ops[t] # Idle /\ ops[s].hold.channel = ops[t].hold.channel => s = t

InTurn == (latest => OneHold) /\ LatestCovers

LEMMA InTurnInit == Init => InTurn
  BY DEF Init, InTurn, OneHold, LatestCovers

LEMMA LatestFixed == [Next]_vars => latest' = latest
  BY DEF Next, Open, Pay, Sign, Record, Opened, OpenChannel, Within, SignerRaises, SignerSigns, RecordCharge,
         ProcessEnds, vars

LEMMA InTurnNext == TypeOK /\ TypeOK' /\ InTurn /\ [Next]_vars => InTurn'
<1> SUFFICES ASSUME TypeOK, TypeOK', InTurn, [Next]_vars, latest' = latest, latest PROVE OneHold' /\ LatestCovers'
  BY LatestFixed, ZenonT(30) DEF InTurn, LatestCovers
<1>0. OneHold /\ LatestCovers
  BY DEF InTurn
<1>a. \A x \in holds : x \in Hold
  BY DEF TypeOK
<1>1. ASSUME NEW c \in Channels, NEW p \in Prices, Opened(c, p)
      PROVE  OneHold' /\ LatestCovers'
  BY <1>0, <1>1 DEF Opened, OpeningOf, OneHold, LatestCovers
<1>2. ASSUME NEW o \in openings, NEW b \in Hashes, OpenChannel(o, b)
      PROVE  OneHold' /\ LatestCovers'
  <2> DEFINE n == Held(o, b)
  <2>1. /\ holds' = holds \cup {n} /\ n.channel = o.channel
        /\ \A x \in holds : x.channel # o.channel
        /\ UNCHANGED <<ops, vouchers>>
    BY <1>2 DEF OpenChannel, Held
  <2> QED
    BY <1>0, <2>1 DEF OneHold, LatestCovers
<1>3. ASSUME NEW s \in Slots, NEW c \in Challenge, NEW kind \in Kinds, NEW x \in holds, NEW y \in Passed(x),
             Within(s, y, c, kind)
      PROVE  OneHold' /\ LatestCovers'
  <2>1. y = x
    BY PassedHolds
  <2>2. /\ ops[s] = Idle /\ ops'[s].hold = x /\ \A t \in Slots : t # s => ops'[t] = ops[t]
        /\ UNCHANGED <<holds, vouchers>>
        /\ \A t \in Slots : ops[t] # Idle => ops[t].hold.channel # x.channel
    BY <1>3, <2>1 DEF Within, TypeOK, Busy
  <2>3. \A t \in Slots : ops'[t] # Idle => ops'[t].hold \in holds
    BY <1>0, <2>2 DEF OneHold
  <2>4. ASSUME NEW t \in Slots, NEW u \in Slots, ops'[t] # Idle, ops'[u] # Idle,
               ops'[t].hold.channel = ops'[u].hold.channel
        PROVE  t = u
    BY <1>0, <2>2, <2>4 DEF OneHold
  <2>5. LatestCovers'
    BY <1>0, <2>2 DEF LatestCovers
  <2> QED
    BY <1>0, <2>2, <2>3, <2>4, <2>5 DEF OneHold
<1>4. ASSUME NEW s \in Slots, SignerRaises(s)
      PROVE  OneHold' /\ LatestCovers'
  <2>1. /\ ops'[s] = Idle /\ \A t \in Slots : t # s => ops'[t] = ops[t]
        /\ UNCHANGED <<holds, vouchers>>
    BY <1>4 DEF SignerRaises, TypeOK
  <2> QED
    BY <1>0, <2>1 DEF OneHold, LatestCovers
<1>5. ASSUME NEW s \in Slots, NEW returned \in BOOLEAN, SignerSigns(s, returned)
      PROVE  OneHold' /\ LatestCovers'
  <2>1. PICK op \in Signing : op = ops[s]
    BY <1>5 DEF SignerSigns, TypeOK
  <2>2. PICK u : u = Updated(op)
    OBVIOUS
  <2>3. u.channel = op.hold.channel /\ u.signedMax >= op.hold.signedMax /\ u.signedMax >= op.max /\ u \in Hold
    BY <2>1, <2>2, UpdatedHold
  <2>4. ops'[s] = Idle /\ \A t \in Slots : t # s => ops'[t] = ops[t]
    BY <1>5 DEF SignerSigns, TypeOK
  <2>5. /\ vouchers' = vouchers \cup {[channel |-> op.hold.channel, h |-> op.hold.h, max |-> op.max,
                                       kind |-> op.kind, returned |-> returned]}
        /\ holds' = IF returned THEN (holds \ {op.hold}) \cup {u} ELSE holds
    BY <1>5, <2>1, <2>2 DEF SignerSigns, Replace
  <2>6. op.hold \in holds /\ \A x \in holds : x # op.hold => x.channel # u.channel
    BY <1>0, <1>5, <2>1, <2>3 DEF SignerSigns, OneHold
  <2>7. \A t \in Slots : t # s /\ ops[t] # Idle => ops[t].hold # op.hold
    BY <1>0, <1>5, <2>1 DEF SignerSigns, OneHold
  <2>8. OneHold'
    <3>1. \A x, y \in holds' : x.channel = y.channel => x = y
      BY <1>0, <2>5, <2>6 DEF OneHold
    <3>2. \A t \in Slots : ops'[t] # Idle => ops'[t].hold \in holds'
      BY <1>0, <2>4, <2>5, <2>7 DEF OneHold
    <3>3. \A t, v \in Slots :
             ops'[t] # Idle /\ ops'[v] # Idle /\ ops'[t].hold.channel = ops'[v].hold.channel => t = v
      BY <1>0, <2>4 DEF OneHold
    <3> QED
      BY <3>1, <3>2, <3>3 DEF OneHold
  <2>9. LatestCovers'
    <3> SUFFICES ASSUME NEW v \in vouchers', v.returned
                 PROVE  \E x \in holds' : x.channel = v.channel /\ v.max <= x.signedMax
      BY DEF LatestCovers
    <3>1. v \in Voucher /\ op.max \in Nat /\ op.hold \in Hold
      BY <2>1 DEF TypeOK, Signing
    <3>2. CASE v \in vouchers
      <4>1. PICK x \in holds : x.channel = v.channel /\ v.max <= x.signedMax
        BY <1>0, <3>2 DEF LatestCovers
      <4>2. CASE x \in holds'
        BY <4>1, <4>2
      <4>3. CASE x \notin holds'
        <5>1. x = op.hold /\ u \in holds'
          BY <2>5, <4>3
        <5>2. v.max <= u.signedMax
          BY <2>3, <3>1, <4>1, <5>1 DEF Voucher, Hold
        <5> QED
          BY <2>3, <4>1, <5>1, <5>2
      <4> QED
        BY <4>2, <4>3
    <3>3. CASE v \notin vouchers
      <4>1. v.channel = op.hold.channel /\ v.max = op.max /\ u \in holds'
        BY <2>5, <3>3
      <4> QED
        BY <2>3, <4>1
    <3> QED
      BY <3>2, <3>3
  <2> QED
    BY <2>8, <2>9
<1>6. ASSUME NEW x \in holds, NEW amount \in 0..AmountLimit, NEW w \in Passed(x), RecordCharge(w, amount)
      PROVE  OneHold' /\ LatestCovers'
  <2>0. w = x
    BY PassedHolds
  <2>1. PICK y : y = Charged(x, amount)
    OBVIOUS
  <2>2. y.channel = x.channel /\ y.signedMax = x.signedMax
    BY <1>a, <2>1 DEF Hold, Charged
  <2>3. /\ holds' = (holds \ {x}) \cup {y} /\ UNCHANGED <<ops, vouchers>>
        /\ \A t \in Slots : ops[t] # Idle => ops[t].hold.channel # x.channel
    BY <1>6, <2>0, <2>1 DEF RecordCharge, Replace, Busy
  <2>4. OneHold'
    BY <1>0, <2>2, <2>3 DEF OneHold
  <2>5. LatestCovers'
    BY <1>0, <2>2, <2>3 DEF LatestCovers
  <2> QED
    BY <2>4, <2>5
<1>7. CASE ProcessEnds
  <2>1. UNCHANGED <<holds, vouchers>> /\ \A t \in Slots : ops'[t] = Idle
    BY <1>7 DEF ProcessEnds
  <2> QED
    BY <1>0, <2>1 DEF OneHold, LatestCovers
<1>8. CASE UNCHANGED vars
  BY <1>0, <1>8 DEF vars, OneHold, LatestCovers
<1> QED
  BY <1>1, <1>2, <1>3, <1>4, <1>5, <1>6, <1>7, <1>8 DEF Next, Open, Pay, Sign, Record

(* The agent that passes the latest hold can record every charge the        *)
(* vouchers it got allow.                                                   *)
THEOREM CoversLatest == Spec => []LatestCovers
<1>1. Init => TypeOK /\ InTurn
  BY TypeInit, InTurnInit
<1>2. TypeOK /\ InTurn /\ [Next]_vars => (TypeOK /\ InTurn)'
  BY TypeNext, InTurnNext
<1>3. InTurn => LatestCovers
  BY DEF InTurn
<1> QED
  BY <1>1, <1>2, <1>3, PTL DEF Spec

(* The charge that agent recorded never falls, whatever the seller reports. *)
THEOREM ChargesRise == Spec => ChargeNeverFalls
<1>1. ASSUME TypeOK, Next, latest, NEW x \in holds
      PROVE  \E y \in holds' : y.channel = x.channel /\ y.charged >= x.charged
  <2>0. x \in Hold /\ x.charged \in Nat
    BY <1>1 DEF TypeOK, Hold
  <2>1. CASE x \in holds'
    BY <2>0, <2>1
  <2>2. CASE x \notin holds'
    <3>1. ASSUME NEW s \in Slots, NEW returned \in BOOLEAN, SignerSigns(s, returned)
          PROVE  \E y \in holds' : y.channel = x.channel /\ y.charged >= x.charged
      <4>1. PICK op \in Signing : op = ops[s]
        BY <1>1, <3>1 DEF SignerSigns, TypeOK
      <4>2. x = op.hold /\ Updated(op) \in holds'
        BY <1>1, <2>2, <3>1, <4>1 DEF SignerSigns, Replace
      <4> QED
        BY <2>0, <4>1, <4>2, UpdatedHold
    <3>2. ASSUME NEW z \in holds, NEW amount \in 0..AmountLimit, NEW w \in Passed(z), RecordCharge(w, amount)
          PROVE  \E y \in holds' : y.channel = x.channel /\ y.charged >= x.charged
      <4>0. w = z
        BY <1>1, PassedHolds
      <4>1. x = z /\ Charged(x, amount) \in holds' /\ amount >= x.charged
        BY <1>1, <2>2, <3>2, <4>0 DEF RecordCharge, Chargeable, Replace
      <4> QED
        BY <2>0, <4>1 DEF Hold, Charged
    <3> QED
      BY <1>1, <2>2, <3>1, <3>2 DEF Next, Open, Pay, Sign, Record, Opened, OpenChannel, Within, SignerRaises,
           ProcessEnds
  <2> QED
    BY <2>1, <2>2
<1>2. TypeOK /\ [Next]_vars =>
        [latest => \A x \in holds : \E y \in holds' : y.channel = x.channel /\ y.charged >= x.charged]_vars
  BY <1>1
<1> QED
  BY <1>2, TypeCorrect, PTL DEF Spec, ChargeNeverFalls

(***************************************************************************)
(* The server.                                                             *)
(***************************************************************************)
(* A sealed hold is one the gate returned, in a channel whose opening the   *)
(* same process returned.                                                   *)
SealsHeld ==
    \A e \in seals : e.label = "hold" =>
        /\ e.value \in holds
        /\ [key |-> e.key, label |-> "opening", value |-> e.value.opening] \in seals

(* A sealed chosen is that of an offer whose link serves what it advertises.*)
ChosenConfirmed ==
    \A e \in seals : e.label = "chosen" => \E o \in Offers : o.served = o.h /\ chosenOf(o) = e.value

SealInv ==
    /\ ~latest /\ unmixed = TRUE
    /\ SealsHeld /\ ChosenConfirmed
    /\ Custody /\ RequestAfterReceipt /\ PaidOnlyConfirmed

LEMMA SealOf == \A label, value : /\ Seal(label, value).key = key /\ Seal(label, value).label = label
                                  /\ Seal(label, value).value = value
  BY DEF Seal

(* A hold that verifies is one the gate returned, unedited. *)
LEMMA VerifiedHeld ==
    ASSUME SealsHeld, NEW x, Verifies("hold", x)
    PROVE  x \in holds /\ Verifies("opening", x.opening)
<1>1. Seal("hold", x) \in seals /\ Seal("hold", x).label = "hold" /\ Seal("hold", x).value = x
      /\ Seal("hold", x).key = key
  BY SealOf DEF Verifies
<1> QED
  BY <1>1 DEF SealsHeld, Verifies, Seal

LEMMA InitServer == ServerInit => ServerTypeOK /\ SealInv
<1> SUFFICES ASSUME ServerInit PROVE ServerTypeOK /\ SealInv
  OBVIOUS
<1>1. ServerTypeOK
  BY TypeInit, ServerAssumption DEF ServerInit, ServerTypeOK
<1>2. Custody /\ unmixed = TRUE
  BY DEF ServerInit, Init, Custody
<1>3. ~latest /\ SealsHeld /\ ChosenConfirmed /\ RequestAfterReceipt /\ PaidOnlyConfirmed
  BY DEF ServerInit, SealsHeld, ChosenConfirmed, RequestAfterReceipt, PaidOnlyConfirmed
<1> QED
  BY <1>1, <1>2, <1>3 DEF SealInv

(* A tool call is a step of the channels or leaves them alone.              *)
LEMMA ToolsStep == SealInv /\ [ServerNext]_allVars => [Next]_vars
<1> SUFFICES ASSUME SealInv, [ServerNext]_allVars PROVE [Next]_vars
  OBVIOUS
<1>1. CASE Compare
  BY <1>1 DEF Compare, AtrConfirm, AtrAgree, AtrTransact, Exchange
<1>2. CASE OpenTools
  <2>1. ASSUME NEW c \in Channels, NEW p \in Prices, Opened(c, p) PROVE Next
    BY <2>1 DEF Next, Open
  <2>2. ASSUME NEW o \in openings, NEW b \in Hashes, OpenChannel(o, b) PROVE Next
    BY <2>2 DEF Next, Open
  <2> QED
    BY <1>2, <2>1, <2>2 DEF OpenTools, AtrFinish, AtrTransactOpens, AtrChannelOpen
<1>3. CASE HoldTools
  <2>1. ASSUME NEW s \in Slots, NEW y, NEW c \in Challenge, NEW kind \in Kinds, AtrChannelWithin(s, y, c, kind)
        PROVE  Next
    <3>1. y \in holds /\ Within(s, y, c, kind)
      BY <2>1, VerifiedHeld DEF AtrChannelWithin, SealInv
    <3>2. y \in Passed(y)
      BY <3>1 DEF Passed
    <3> QED
      BY <3>1, <3>2 DEF Next, Pay
  <2>2. ASSUME NEW x, NEW amount \in 0..AmountLimit, AtrChannelRecordCharge(x, amount)
        PROVE  Next
    <3>1. x \in holds /\ RecordCharge(x, amount)
      BY <2>2, VerifiedHeld DEF AtrChannelRecordCharge, SealInv
    <3>2. x \in Passed(x)
      BY <3>1 DEF Passed
    <3> QED
      BY <3>1, <3>2 DEF Next, Record
  <2>3. ASSUME NEW s \in Slots, SignerFails(s) PROVE Next
    BY <2>3 DEF SignerFails, Next, Sign
  <2>4. ASSUME NEW s \in Slots, NEW returned \in BOOLEAN, WithinReturns(s, returned) PROVE Next
    BY <2>4 DEF WithinReturns, Next, Sign
  <2> QED
    BY <1>3, <2>1, <2>2, <2>3, <2>4 DEF HoldTools
<1>4. CASE Restart
  BY <1>4 DEF Restart, Next
<1>5. CASE UNCHANGED allVars
  BY <1>5 DEF allVars
<1> QED
  BY <1>1, <1>2, <1>3, <1>4, <1>5 DEF ServerNext

(* What a server step leaves: no hold of a channel is forgotten, no mac is  *)
(* taken back.                                                              *)
LEMMA Kept ==
    ASSUME SealInv, ServerNext
    PROVE  /\ \A x \in holds : x \in holds'
           /\ \A e \in seals : e \in seals'
<1>0. \A old, new : \A x \in holds : x \in Replace(old, new)
  BY DEF SealInv, Replace
<1>1. CASE Compare
  BY <1>1 DEF Compare, AtrConfirm, AtrAgree, AtrTransact, Exchange, Seals, vars
<1>2. CASE OpenTools
  BY <1>2 DEF OpenTools, AtrFinish, AtrTransactOpens, AtrChannelOpen, Seals, Opened, OpenChannel
<1>3. CASE HoldTools
  BY <1>0, <1>3 DEF HoldTools, AtrChannelWithin, SignerFails, WithinReturns, AtrChannelRecordCharge, Seals,
                    Within, SignerRaises, SignerSigns, RecordCharge, serverVars
<1>4. CASE Restart
  BY <1>4 DEF Restart, ProcessEnds
<1> QED
  BY <1>1, <1>2, <1>3, <1>4 DEF ServerNext

(* What a step seals: a chosen of a compared offer, an opening of transact, *)
(* or the hold a channel step returned with the opening of the passed one.  *)
LEMMA NewSeals ==
    ASSUME ServerTypeOK, SealInv, ServerNext, NEW e \in seals', e \notin seals
    PROVE  /\ e \in Sealed
           /\ e.label = "hold" =>
                 /\ e.value \in holds'
                 /\ [key |-> e.key, label |-> "opening", value |-> e.value.opening] \in seals
           /\ e.label = "chosen" => \E o \in Offers : o.served = o.h /\ chosenOf(o) = e.value
<1> USE DEF Seal
<1>k. key \in 0..MaxRestarts
  BY DEF ServerTypeOK
<1>1. ASSUME NEW o \in Offers, NEW r, AtrConfirm(o, r)
      PROVE  /\ e \in Sealed /\ e.label # "hold"
             /\ \E q \in Offers : q.served = q.h /\ chosenOf(q) = e.value
  <2>1. chosenOf(o) \in Chosen
    BY ServerAssumption DEF chosenOf, Offer, Chosen
  <2>2. e = [key |-> key, label |-> "chosen", value |-> chosenOf(o)]
    BY <1>1 DEF AtrConfirm, Seals
  <2>3. o.served = o.h
    BY <1>1 DEF AtrConfirm, Confirms
  <2> QED
    BY <1>k, <2>1, <2>2, <2>3 DEF Sealed
<1>2. ASSUME NEW c \in Channels, NEW p \in Prices, Seals("opening", OpeningOf(c, p))
      PROVE  e \in Sealed /\ e.label = "opening"
  <2>1. OpeningOf(c, p) \in Opening
    BY PriceTypes, ChannelsAssumption DEF Opening, OpeningOf
  <2>2. e = [key |-> key, label |-> "opening", value |-> OpeningOf(c, p)]
    BY <1>2 DEF Seals
  <2> QED
    BY <1>k, <2>1, <2>2 DEF Sealed
<1>3. ASSUME NEW x \in Hold, e = [key |-> key, label |-> "hold", value |-> x], x \in holds',
             Verifies("opening", x.opening)
      PROVE  /\ e \in Sealed /\ e.label = "hold" /\ e.value \in holds'
             /\ [key |-> e.key, label |-> "opening", value |-> e.value.opening] \in seals
  BY <1>k, <1>3 DEF Sealed, Verifies
<1>4. ASSUME NEW o \in openings, NEW b \in Hashes, AtrChannelOpen(o, b)
      PROVE  /\ e \in Sealed /\ e.label = "hold" /\ e.value \in holds'
             /\ [key |-> e.key, label |-> "opening", value |-> e.value.opening] \in seals
  <2>1. o \in Opening
    BY DEF ServerTypeOK, TypeOK
  <2>2. Held(o, b) \in Hold /\ Held(o, b).opening = o
    BY <2>1 DEF Opening, Hold, Held
  <2>3. Held(o, b) \in holds' /\ e = [key |-> key, label |-> "hold", value |-> Held(o, b)]
    BY <1>4 DEF AtrChannelOpen, OpenChannel, Seals
  <2> QED
    BY <1>3, <1>4, <2>2, <2>3 DEF AtrChannelOpen
<1>5. ASSUME NEW s \in Slots, NEW returned \in BOOLEAN, WithinReturns(s, returned)
      PROVE  /\ e \in Sealed /\ e.label = "hold" /\ e.value \in holds'
             /\ [key |-> e.key, label |-> "opening", value |-> e.value.opening] \in seals
  <2>1. PICK op \in Signing : op = ops[s]
    BY <1>5 DEF WithinReturns, SignerSigns, ServerTypeOK, TypeOK
  <2>2. Updated(op) \in Hold /\ Updated(op).opening = op.hold.opening
    BY UpdatedHold
  <2>3. Updated(op) \in holds' /\ e = [key |-> key, label |-> "hold", value |-> Updated(op)]
    BY <1>5, <2>1 DEF WithinReturns, SignerSigns, Replace
  <2>4. Verifies("opening", op.hold.opening)
    BY <1>5, <2>1 DEF WithinReturns, SignerSigns, SealInv, Custody, InCustody, Verifies
  <2> QED
    BY <1>3, <2>2, <2>3, <2>4
<1>6. ASSUME NEW x, NEW amount \in 0..AmountLimit, AtrChannelRecordCharge(x, amount)
      PROVE  /\ e \in Sealed /\ e.label = "hold" /\ e.value \in holds'
             /\ [key |-> e.key, label |-> "opening", value |-> e.value.opening] \in seals
  <2>1. x \in holds /\ Verifies("opening", x.opening)
    BY <1>6, VerifiedHeld DEF AtrChannelRecordCharge, SealInv
  <2>2. x \in Hold
    BY <2>1 DEF ServerTypeOK, TypeOK
  <2>3. Charged(x, amount) \in Hold /\ Charged(x, amount).opening = x.opening
    BY <2>2, ChannelsAssumption DEF Hold, Charged
  <2>4. Charged(x, amount) \in holds' /\ e = [key |-> key, label |-> "hold", value |-> Charged(x, amount)]
    BY <1>6 DEF AtrChannelRecordCharge, RecordCharge, Replace, Seals
  <2> QED
    BY <1>3, <2>1, <2>3, <2>4
<1>7. seals' # seals
  OBVIOUS
<1> QED
  BY <1>1, <1>2, <1>4, <1>5, <1>6, <1>7
  DEF ServerNext, Compare, OpenTools, HoldTools, AtrAgree, AtrTransact, Exchange, AtrFinish, AtrTransactOpens,
      AtrChannelWithin,
      SignerFails, Restart, serverVars

LEMMA TypeServer == ServerTypeOK /\ SealInv /\ [ServerNext]_allVars => ServerTypeOK'
<1> SUFFICES ASSUME ServerTypeOK, SealInv, [ServerNext]_allVars PROVE ServerTypeOK'
  OBVIOUS
<1>1. TypeOK'
  BY ToolsStep, TypeNext DEF ServerTypeOK
<1>2. CASE UNCHANGED allVars
  BY <1>1, <1>2 DEF ServerTypeOK, allVars, serverVars
<1>3. CASE ServerNext
  <2>1. \A e \in seals' : e \in Sealed
    BY <1>3, NewSeals DEF ServerTypeOK
  <2>2. key' \in 0..MaxRestarts
    BY <1>3, ServerAssumption
    DEF ServerTypeOK, ServerNext, Compare, OpenTools, HoldTools, AtrConfirm, AtrAgree, AtrTransact, Exchange,
        AtrFinish, AtrTransactOpens, AtrChannelOpen, AtrChannelWithin, SignerFails, WithinReturns,
        AtrChannelRecordCharge, Restart, serverVars
  <2>3. ASSUME NEW o \in Offers, NEW r \in Hashes \cup {NoReceipt}, AtrConfirm(o, r)
        PROVE  requests' \subseteq Offers /\ honest' \in BOOLEAN /\ UNCHANGED <<receipts, moved>>
    <3>1. honest' \in BOOLEAN
      BY <2>3, ZenonT(30) DEF AtrConfirm
    <3> QED
      BY <2>3, <3>1 DEF AtrConfirm, ServerTypeOK
  <2>4. ASSUME NEW tool \in Tools, NEW url \in Urls, NEW b \in Hashes, NEW a \in Approved \cup {NoPayment},
               NEW left \in BOOLEAN, NEW agreed \in BOOLEAN, Exchange(tool, url, b, a, left, agreed)
        PROVE  /\ receipts' \subseteq Hashes /\ UNCHANGED <<requests, honest>>
               /\ moved' \in Moved \cup {NoPayment}
    <3>1. key \in 0..MaxRestarts /\ moved \in Moved \cup {NoPayment} /\ receipts \subseteq Hashes
      BY DEF ServerTypeOK
    <3>2. a # NoPayment => [approved |-> a, url |-> url, h |-> b, tool |-> tool, key |-> key] \in Moved
      BY <3>1 DEF Moved
    <3> QED
      BY <2>4, <3>1, <3>2 DEF Exchange
  <2>5. CASE UNCHANGED <<requests, receipts, moved, honest>>
    BY <1>1, <2>1, <2>2, <2>5 DEF ServerTypeOK
  <2>6. CASE Compare
    <3>1. ASSUME NEW o \in Offers, NEW r \in Hashes \cup {NoReceipt}, AtrConfirm(o, r)
          PROVE  ServerTypeOK'
      BY <1>1, <2>1, <2>2, <2>3, <3>1 DEF ServerTypeOK
    <3>2. ASSUME NEW tool \in Tools, NEW url \in Urls, NEW b \in Hashes, NEW a \in Approved \cup {NoPayment},
                 NEW left \in BOOLEAN, NEW agreed \in BOOLEAN, Exchange(tool, url, b, a, left, agreed)
          PROVE  ServerTypeOK'
      BY <1>1, <2>1, <2>2, <2>4, <3>2 DEF ServerTypeOK
    <3>3. \A o \in Offers : o.h \in Hashes /\ (o.agreement # NoUrl => o.agreement \in Urls)
      BY ServerAssumption DEF Offer
    <3>4. \A v \in Chosen : v.agreement # NoUrl => v.agreement \in Urls
      BY DEF Chosen
    <3> QED
      BY <2>6, <3>1, <3>2, <3>3, <3>4 DEF Compare, AtrAgree, AtrTransact, Tools
  <2>7. CASE OpenTools \/ HoldTools \/ Restart
    BY <2>5, <2>7 DEF OpenTools, HoldTools, AtrFinish, AtrTransactOpens, AtrChannelOpen, AtrChannelWithin,
        SignerFails, WithinReturns, AtrChannelRecordCharge, Restart, serverVars
  <2> QED
    BY <1>3, <2>6, <2>7 DEF ServerNext
<1> QED
  BY <1>2, <1>3

(* A hold in custody stays so until the process ends. *)
LEMMA CustodyStays ==
    ASSUME SealInv, ServerNext, key' = key, NEW x, InCustody(x)
    PROVE  InCustody(x)'
<1>1. x \in holds'
  BY Kept DEF InCustody
<1>2. Seal("hold", x)' = Seal("hold", x) /\ Seal("opening", x.opening)' = Seal("opening", x.opening)
  BY DEF Seal
<1>3. Seal("hold", x) \in seals' /\ Seal("opening", x.opening) \in seals'
  BY Kept DEF InCustody
<1> QED
  BY <1>1, <1>2, <1>3 DEF InCustody

LEMMA CustodyNext == ServerTypeOK /\ SealInv /\ [ServerNext]_allVars => Custody'
<1> SUFFICES ASSUME ServerTypeOK, SealInv, [ServerNext]_allVars PROVE Custody'
  OBVIOUS
<1>0. ops \in [Slots -> Signing \cup {Idle}]
  BY DEF ServerTypeOK, TypeOK
<1>1. CASE UNCHANGED allVars
  BY <1>1 DEF SealInv, Custody, InCustody, Seal, allVars, vars, serverVars
<1>2. CASE Restart
  BY <1>2 DEF Restart, ProcessEnds, Custody
<1>3. ASSUME ServerNext, key' = key, \A t \in Slots : ops'[t] # Idle => ops'[t] = ops[t]
      PROVE  Custody'
  <2>1. ASSUME NEW t \in Slots, ops'[t] # Idle
        PROVE  \E x : x = ops'[t].hold /\ InCustody(x)'
    BY <1>3, <2>1, CustodyStays DEF SealInv, Custody
  <2> QED
    BY <2>1 DEF Custody
<1>4. ASSUME ServerNext, NEW s \in Slots, NEW y, NEW c \in Challenge, NEW kind \in Kinds,
             AtrChannelWithin(s, y, c, kind)
      PROVE  Custody'
  <2>1. InCustody(y)
    BY <1>4, VerifiedHeld DEF AtrChannelWithin, SealInv, InCustody, Verifies
  <2>2. ops'[s].hold = y /\ key' = key /\ \A t \in Slots : t # s => ops'[t] = ops[t]
    BY <1>0, <1>4 DEF AtrChannelWithin, Within, serverVars
  <2>3. ASSUME NEW t \in Slots, ops'[t] # Idle
        PROVE  \E x : x = ops'[t].hold /\ InCustody(x)'
    <3>1. CASE t = s
      BY <1>4, <2>1, <2>2, <3>1, CustodyStays
    <3>2. CASE t # s
      BY <1>4, <2>2, <2>3, <3>2, CustodyStays DEF SealInv, Custody
    <3> QED
      BY <3>1, <3>2
  <2> QED
    BY <2>3 DEF Custody
<1>5. CASE Compare \/ OpenTools
  <2>1. ServerNext /\ UNCHANGED <<ops, key>>
    BY <1>5 DEF ServerNext, Compare, OpenTools, AtrConfirm, AtrAgree, AtrTransact, Exchange, AtrFinish,
        AtrTransactOpens, AtrChannelOpen, Opened, OpenChannel, vars
  <2> QED
    BY <1>3, <2>1
<1>6. CASE HoldTools
  <2>1. ASSUME NEW s \in Slots, SignerFails(s) \/ \E returned \in BOOLEAN : WithinReturns(s, returned)
        PROVE  key' = key /\ \A t \in Slots : ops'[t] # Idle => ops'[t] = ops[t]
    BY <1>0, <2>1 DEF SignerFails, WithinReturns, SignerRaises, SignerSigns, serverVars
  <2>2. ASSUME NEW x, NEW amount, AtrChannelRecordCharge(x, amount)
        PROVE  key' = key /\ \A t \in Slots : ops'[t] # Idle => ops'[t] = ops[t]
    BY <2>2 DEF AtrChannelRecordCharge, RecordCharge
  <2>3. ServerNext
    BY <1>6 DEF ServerNext
  <2> QED
    BY <1>3, <1>4, <1>6, <2>1, <2>2, <2>3 DEF HoldTools
<1> QED
  BY <1>1, <1>2, <1>5, <1>6 DEF ServerNext

LEMMA AgreementNext ==
    ServerTypeOK /\ SealInv /\ [ServerNext]_allVars => RequestAfterReceipt' /\ PaidOnlyConfirmed'
<1> SUFFICES ASSUME ServerTypeOK, SealInv, [ServerNext]_allVars PROVE RequestAfterReceipt' /\ PaidOnlyConfirmed'
  OBVIOUS
<1>0. RequestAfterReceipt /\ PaidOnlyConfirmed
  BY DEF SealInv
<1>1. CASE UNCHANGED allVars
  BY <1>0, <1>1 DEF RequestAfterReceipt, PaidOnlyConfirmed, allVars, serverVars
<1>2. ASSUME ServerNext, moved' = moved
      PROVE  PaidOnlyConfirmed'
  BY <1>0, <1>2, Kept DEF PaidOnlyConfirmed
<1>3. ASSUME NEW o \in Offers, NEW r \in Hashes \cup {NoReceipt}, AtrConfirm(o, r), ServerNext
      PROVE  RequestAfterReceipt' /\ PaidOnlyConfirmed'
  <2>1. RequestAfterReceipt'
    <3>1. honest' => honest /\ (o.agreement = NoUrl \/ r \in receipts \cup {NoReceipt})
      BY <1>3, ZenonT(30) DEF AtrConfirm
    <3>2. receipts' = receipts /\ \A q \in requests' :
              q \in requests \/ (q = o /\ o.agreement # NoUrl /\ r # NoReceipt /\ r = o.h)
      BY <1>3 DEF AtrConfirm, isReceiptFor
    <3> QED
      BY <1>0, <3>1, <3>2 DEF RequestAfterReceipt
  <2>2. moved' = moved
    BY <1>3 DEF AtrConfirm
  <2> QED
    BY <1>2, <1>3, <2>1, <2>2
<1>4. ASSUME NEW tool, NEW url, NEW b, NEW a, NEW left, NEW agreed, Exchange(tool, url, b, a, left, agreed), ServerNext,
             \E o \in Offers :
                 /\ o.served = o.h /\ o.agreement = url
                 /\ tool = "atr_agree" => [key |-> key, label |-> "chosen", value |-> chosenOf(o)] \in seals
                 /\ tool = "atr_transact" => o.h = b
      PROVE  RequestAfterReceipt' /\ PaidOnlyConfirmed'
  <2>1. RequestAfterReceipt'
    BY <1>0, <1>4 DEF Exchange, RequestAfterReceipt
  <2>2. CASE moved' = moved
    BY <1>2, <1>4, <2>1, <2>2
  <2>3. CASE moved' # moved
    <3>1. /\ a = [url |-> url, h |-> b] /\ seals' = seals
          /\ moved' = [approved |-> a, url |-> url, h |-> b, tool |-> tool, key |-> key]
      BY <1>4, <2>3 DEF Exchange
    <3>2. /\ moved'.approved = [url |-> moved'.url, h |-> moved'.h]
          /\ moved'.url = url /\ moved'.h = b /\ moved'.tool = tool /\ moved'.key = key
      BY <3>1
    <3> QED
      BY <1>4, <2>1, <3>1, <3>2 DEF PaidOnlyConfirmed
  <2> QED
    BY <2>2, <2>3
<1>5. CASE ServerNext /\ UNCHANGED <<requests, receipts, moved, honest>>
  BY <1>0, <1>2, <1>5 DEF RequestAfterReceipt
<1>6. CASE Compare
  <2>0. ServerNext
    BY <1>6 DEF ServerNext
  <2>1. ASSUME NEW v \in Chosen, NEW b, NEW a, NEW left, NEW agreed, AtrAgree(v, b, a, left, agreed)
        PROVE  RequestAfterReceipt' /\ PaidOnlyConfirmed'
    <3>1. PICK o \in Offers : o.served = o.h /\ chosenOf(o) = v
      BY <2>1, SealOf DEF AtrAgree, Verifies, SealInv, ChosenConfirmed
    <3>2. o.agreement = v.agreement
      BY <3>1 DEF chosenOf
    <3> QED
      BY <1>4, <2>0, <2>1, <3>1, <3>2 DEF AtrAgree, Verifies, Seal
  <2>2. ASSUME NEW o \in Offers, NEW a, NEW left, NEW agreed, AtrTransact(o, a, left, agreed)
        PROVE  RequestAfterReceipt' /\ PaidOnlyConfirmed'
    BY <1>4, <2>0, <2>2 DEF AtrTransact, Confirms
  <2> QED
    BY <1>3, <1>6, <2>0, <2>1, <2>2 DEF Compare
<1>7. CASE OpenTools \/ HoldTools \/ Restart
  BY <1>5, <1>7 DEF ServerNext, OpenTools, HoldTools, AtrFinish, AtrTransactOpens, AtrChannelOpen, AtrChannelWithin,
      SignerFails, WithinReturns, AtrChannelRecordCharge, Restart, serverVars
<1> QED
  BY <1>1, <1>6, <1>7 DEF ServerNext

(* No hold that verifies has its amounts mixed. *)
LEMMA UnmixedNext == SealInv /\ [ServerNext]_allVars => unmixed' = TRUE
<1> SUFFICES ASSUME SealInv, [ServerNext]_allVars PROVE unmixed' = TRUE
  OBVIOUS
<1>1. unmixed = TRUE /\ SealsHeld
  BY DEF SealInv
<1>2. \A y : Verifies("hold", y) => Own(y)
  BY <1>1, VerifiedHeld DEF Own
<1>3. ASSUME NEW s, NEW y, NEW c, NEW kind, AtrChannelWithin(s, y, c, kind)
      PROVE  unmixed' = TRUE
  BY <1>1, <1>2, <1>3 DEF AtrChannelWithin, Within
<1>4. ASSUME NEW y, NEW amount, AtrChannelRecordCharge(y, amount)
      PROVE  unmixed' = TRUE
  BY <1>1, <1>2, <1>4 DEF AtrChannelRecordCharge, RecordCharge
<1>5. CASE unmixed' = unmixed
  BY <1>1, <1>5
<1>6. CASE Compare \/ OpenTools \/ Restart \/ UNCHANGED allVars
  <2>1. CASE Compare \/ UNCHANGED allVars
    <3>1. UNCHANGED vars
      BY <2>1 DEF Compare, AtrConfirm, AtrAgree, AtrTransact, Exchange, allVars
    <3> QED
      BY <1>5, <3>1 DEF vars
  <2>2. CASE OpenTools \/ Restart
    BY <1>5, <2>2 DEF OpenTools, AtrFinish, AtrTransactOpens, AtrChannelOpen, Opened, OpenChannel, Restart, ProcessEnds
  <2> QED
    BY <1>6, <2>1, <2>2
<1>7. CASE HoldTools
  BY <1>3, <1>4, <1>5, <1>7 DEF HoldTools, SignerFails, SignerRaises, WithinReturns, SignerSigns
<1> QED
  BY <1>6, <1>7 DEF ServerNext

LEMMA SealNext == ServerTypeOK /\ SealInv /\ [ServerNext]_allVars => SealInv'
<1> SUFFICES ASSUME ServerTypeOK, SealInv, [ServerNext]_allVars PROVE SealInv'
  OBVIOUS
<1>1. SealsHeld'
  <2>1. CASE UNCHANGED allVars
    BY <2>1 DEF SealInv, SealsHeld, allVars, vars, serverVars
  <2>2. CASE ServerNext
    BY <2>2, Kept, NewSeals DEF SealInv, SealsHeld
  <2> QED
    BY <2>1, <2>2
<1>2. ~latest'
  BY ToolsStep, LatestFixed, ZenonT(30) DEF SealInv
<1>3. ChosenConfirmed'
  <2>1. CASE UNCHANGED allVars
    BY <2>1 DEF SealInv, ChosenConfirmed, allVars, serverVars
  <2>2. CASE ServerNext
    BY <2>2, NewSeals DEF SealInv, ChosenConfirmed
  <2> QED
    BY <2>1, <2>2
<1> QED
  BY <1>1, <1>2, <1>3, UnmixedNext, CustodyNext, AgreementNext DEF SealInv

LEMMA SealInvariance == ServerSpec => [](ServerTypeOK /\ SealInv)
<1>1. ServerTypeOK /\ SealInv /\ [ServerNext]_allVars => (ServerTypeOK /\ SealInv)'
  BY TypeServer, SealNext
<1> QED
  BY <1>1, InitServer, PTL DEF ServerSpec

------------------------------------------------------------------------------
(* The server's state keeps its types. *)
THEOREM ServerTypeCorrect == ServerSpec => []ServerTypeOK
<1> QED
  BY SealInvariance, PTL

(* A voucher is asked for only over a hold, of an opening, that this very   *)
(* process returned.                                                        *)
THEOREM KeepsCustody == ServerSpec => []Custody
<1>1. SealInv => Custody
  BY DEF SealInv
<1> QED
  BY <1>1, SealInvariance, PTL

(* While the agent passes receipts the tools returned, a request that needs *)
(* an agreement waits for one over the same ATR.                            *)
THEOREM WaitsForReceipt == ServerSpec => []RequestAfterReceipt
<1>1. SealInv => RequestAfterReceipt
  BY DEF SealInv
<1> QED
  BY <1>1, SealInvariance, PTL

(* Agreement payments leave, by either tool, only as approved and only to   *)
(* the URLs of compared offers.                                             *)
THEOREM PaysConfirmed == ServerSpec => []PaidOnlyConfirmed
<1>1. SealInv => PaidOnlyConfirmed
  BY DEF SealInv
<1> QED
  BY <1>1, SealInvariance, PTL

(* The channel tools are the channels of Channels: every step of a tool is  *)
(* a step of a channel over holds the gate returned, or none.               *)
THEOREM Implements == ServerSpec => ImplementsChannels
<1>1. ServerInit => Init
  BY DEF ServerInit
<1>2. SealInv /\ [ServerNext]_allVars => [Next]_vars
  BY ToolsStep
<1> QED
  BY <1>1, <1>2, SealInvariance, PTL DEF ServerSpec, Spec, ImplementsChannels

(* What the tools sign in a channel is bounded by the prices signed for in  *)
(* it, however the agent edits its holds and however often the server       *)
(* restarts: the seal lets no mixed amounts through.                        *)
THEOREM ServerBoundsTotal == ServerSpec => []Bounded
<1>1. SealInv /\ TotalBounded => Bounded
  BY DEF SealInv, TotalBounded
<1> QED
  BY <1>1, SealInvariance, Implements, BoundsTotal, PTL DEF ImplementsChannels
==============================================================================
