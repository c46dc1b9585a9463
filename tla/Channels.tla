------------------------------- MODULE Channels -------------------------------
(***************************************************************************)
(* The buyer's channel steps (_channels.py; channels.ts): open_channel,    *)
(* within and record_charge over holds.  A hold is plain JSON the agent    *)
(* keeps: every hold the gate returned may be passed again, an older one   *)
(* too, to several within calls at once, and with one member, an amount or *)
(* any other, taken from another hold.  The challenges and the reported    *)
(* charges are the seller's, who may say anything.  A decline returns its  *)
(* code and changes nothing, so it is not a step.                          *)
(***************************************************************************)
EXTENDS Integers

CONSTANTS
    Channels,       \* the channels transact can open
    Sessions,       \* those of an MPP session; the others are x402 batch channels
    Hashes,         \* ATR hashes
    HashOf,         \* the hash a channel's id and opening commit to
    Prices,         \* the amounts a challenge can ask
    AmountLimit,    \* the bindings build no voucher of this amount or more
    Slots,          \* the within calls the agent can have in progress at once
    MaxCalls        \* bound: the calls the agent makes

ASSUME ChannelsAssumption ==
    /\ Sessions \subseteq Channels
    /\ HashOf \in [Channels -> Hashes]
    /\ Prices \subseteq Nat
    /\ AmountLimit \in Nat
    /\ MaxCalls \in Nat

VARIABLES
    openings,   \* the channel openings transact returned
    holds,      \* the holds the agent keeps
    ops,        \* per slot, the within call waiting for the signer
    vouchers,   \* every voucher the signer signed, and whether the gate returned it
    budget,     \* per channel, the sum of the prices the signer signed vouchers for
    total,      \* the sum of those prices over the channels
    unmixed,    \* whether every hold passed had one kept hold's channel and amounts
    calls,      \* how many calls the agent has made
    latest      \* whether the agent passes only the latest hold, one call at a time

vars == <<openings, holds, ops, vouchers, budget, total, unmixed, calls, latest>>

------------------------------------------------------------------------------
Greater(a, b) == IF a >= b THEN a ELSE b

Opening == [channel : Channels, h : Hashes, max : Nat]
Hold == [channel : Channels, h : Hashes, atr : Hashes, opening : Opening, charged : Nat, signedMax : Nat]

(* A challenge: the hash it names and the channel the payment it asks for   *)
(* names, a named session channel or the one a batch option derives.        *)
NoContext == "no-context"
NoChannel == "no-channel"
OtherChannel == "unopened"
Challenge ==
    [h : Hashes \cup {NoContext}, channel : Channels \cup {NoChannel, OtherChannel}, price : Prices]

Kinds == {"voucher", "refund", "close"}
Idle == [stage |-> "idle"]
Signing == [stage : {"sign"}, hold : Hold, kind : Kinds, max : Nat, price : Nat, challenge : Challenge]
Voucher == [channel : Channels, h : Hashes, max : Nat, kind : Kinds, returned : BOOLEAN]

Init ==
    /\ openings = {}
    /\ holds = {}
    /\ ops = [s \in Slots |-> Idle]
    /\ vouchers = {}
    /\ budget = [c \in Channels |-> 0]
    /\ total = 0
    /\ unmixed = TRUE
    /\ calls = 0
    /\ latest \in BOOLEAN

Busy(x) == \E s \in Slots : ops[s] # Idle /\ ops[s].hold.channel = x.channel

(* The agent keeps every hold, or with latest the latest hold in place of   *)
(* the one it passed.                                                       *)
Replace(old, new) == (IF latest THEN holds \ {old} ELSE holds) \cup {new}

(* A hold as the agent passes it: as returned, or with one member another   *)
(* hold's.                                                                  *)
Passed(x) ==
    IF latest THEN {x}
    ELSE UNION { {x, [x EXCEPT !.channel = y.channel], [x EXCEPT !.h = y.h],
                  [x EXCEPT !.atr = y.atr], [x EXCEPT !.opening = y.opening],
                  [x EXCEPT !.charged = y.charged], [x EXCEPT !.signedMax = y.signedMax]} : y \in holds }

(* A passed hold with the channel and the amounts of one kept hold.         *)
Own(y) == \E x \in holds : x.channel = y.channel /\ x.charged = y.charged /\ x.signedMax = y.signedMax

Call == calls < MaxCalls /\ calls' = calls + 1

------------------------------------------------------------------------------
OpeningOf(c, p) == [channel |-> c, h |-> HashOf[c], max |-> IF c \in Sessions THEN 0 ELSE p]

(* transact signs a channel's opening, with the first voucher of a batch    *)
(* channel for the price: a batch opening for a zero price is not built.    *)
(* The same seller's offer for the same ATR opens the same channel again.   *)
Opened(c, p) ==
    /\ Call
    /\ c \in Sessions \/ p > 0
    /\ openings' = openings \cup {OpeningOf(c, p)}
    /\ budget' = [budget EXCEPT ![c] = @ + OpeningOf(c, p).max]
    /\ total' = total + OpeningOf(c, p).max
    /\ UNCHANGED <<holds, ops, vouchers, unmixed, latest>>

(* The pairing reads the hash of the bytes, b, from the opening. *)
Binds(o, b) == o.h = b

Held(o, b) == [channel |-> o.channel, h |-> b, atr |-> b, opening |-> o, charged |-> 0, signedMax |-> o.max]

OpenChannel(o, b) ==
    /\ Call
    /\ Binds(o, b)
    /\ latest => \A x \in holds : x.channel # o.channel
    /\ holds' = holds \cup {Held(o, b)}
    /\ UNCHANGED <<openings, ops, vouchers, budget, total, unmixed, latest>>

(* Mutant of Agrees: the held opening's channel is not compared. *)
AgreesOnHash(x) == x.h = x.atr /\ Binds(x.opening, x.atr)

(* within re-derives the hash and the channel from the hold. *)
Agrees(x) ==
    /\ x.h = x.atr
    /\ Binds(x.opening, x.atr)
    /\ x.opening.channel = x.channel

(* The challenge is for the held hash and the held channel.  A session      *)
(* challenge may name neither.                                              *)
Asks(c, x) ==
    /\ c.h = x.atr \/ (x.channel \in Sessions /\ c.h = NoContext)
    /\ c.channel = x.channel \/ (x.channel \in Sessions /\ c.channel = NoChannel)

(* No pairing builds a session's partial refund. *)
Builds(x, kind) == kind = "refund" => x.channel \notin Sessions

(* Mutant of Amount: a voucher for what the price adds to the charge. *)
AmountOfRest(x, c, kind) == (IF kind = "voucher" THEN c.price ELSE 0) - x.charged

Amount(x, c, kind) == x.charged + (IF kind = "voucher" THEN c.price ELSE 0)

Within(s, x, c, kind) ==
    /\ Call
    /\ ops[s] = Idle
    /\ latest => ~Busy(x)
    /\ Agrees(x)
    /\ Asks(c, x)
    /\ Builds(x, kind)
    /\ Amount(x, c, kind) < AmountLimit
    /\ ops' = [ops EXCEPT ![s] = [stage |-> "sign", hold |-> x, kind |-> kind, max |-> Amount(x, c, kind),
                                  price |-> IF kind = "voucher" THEN c.price ELSE 0, challenge |-> c]]
    /\ unmixed' = (unmixed /\ Own(x))
    /\ UNCHANGED <<openings, holds, vouchers, budget, total, latest>>

SignerRaises(s) ==
    /\ ops[s] # Idle
    /\ ops' = [ops EXCEPT ![s] = Idle]
    /\ UNCHANGED <<openings, holds, vouchers, budget, total, unmixed, calls, latest>>

(* The process that runs the gate ends: no call in progress returns. *)
ProcessEnds ==
    /\ ops' = [s \in Slots |-> Idle]
    /\ UNCHANGED <<openings, holds, vouchers, budget, total, unmixed, calls, latest>>

(* Mutant of Updated: the last voucher's amount, whatever was signed before.*)
UpdatedToLast(op) == [op.hold EXCEPT !.signedMax = op.max]

(* The hold after a voucher of op was signed. *)
Updated(op) == [op.hold EXCEPT !.signedMax = Greater(op.hold.signedMax, op.max)]

(* The signer signs, and the gate returns the payment with the new hold, or *)
(* drops it: the answer does not complete the payment, or the payment is of *)
(* another kind, hash or channel.                                           *)
SignerSigns(s, returned) ==
    /\ ops[s] # Idle
    /\ ops' = [ops EXCEPT ![s] = Idle]
    /\ vouchers' = vouchers \cup {[channel |-> ops[s].hold.channel, h |-> ops[s].hold.h, max |-> ops[s].max,
                                   kind |-> ops[s].kind, returned |-> returned]}
    /\ budget' = [budget EXCEPT ![ops[s].hold.channel] = @ + ops[s].price]
    /\ total' = total + ops[s].price
    /\ holds' = IF returned THEN Replace(ops[s].hold, Updated(ops[s])) ELSE holds
    /\ UNCHANGED <<openings, unmixed, calls, latest>>

(* Mutants of Chargeable: one of its two comparisons is missing. *)
ChargeableUnsigned(x, amount) == amount >= x.charged
ChargeableLower(x, amount) == amount <= x.signedMax

Chargeable(x, amount) == x.charged <= amount /\ amount <= x.signedMax

Charged(x, amount) == [x EXCEPT !.charged = amount]

(* The agent records a cumulative charge the seller reported: the other     *)
(* members of the hold are not read.                                        *)
RecordCharge(x, amount) ==
    /\ Call
    /\ latest => ~Busy(x)
    /\ Chargeable(x, amount)
    /\ holds' = Replace(x, Charged(x, amount))
    /\ unmixed' = (unmixed /\ Own(x))
    /\ UNCHANGED <<openings, ops, vouchers, budget, total, latest>>

------------------------------------------------------------------------------
Open ==
    \/ \E c \in Channels, p \in Prices : Opened(c, p)
    \/ \E o \in openings, b \in Hashes : OpenChannel(o, b)

Pay == \E s \in Slots, c \in Challenge, kind \in Kinds :
           \E x \in holds : \E y \in Passed(x) : Within(s, y, c, kind)

Sign == \E s \in Slots : SignerRaises(s) \/ \E returned \in BOOLEAN : SignerSigns(s, returned)

Record == \E x \in holds, amount \in 0..AmountLimit : \E y \in Passed(x) : RecordCharge(y, amount)

Next == Open \/ Pay \/ Sign \/ Record \/ ProcessEnds

Spec == Init /\ [][Next]_vars

------------------------------------------------------------------------------
(* Properties. *)

TypeOK ==
    /\ openings \subseteq Opening
    /\ holds \subseteq Hold
    /\ ops \in [Slots -> Signing \cup {Idle}]
    /\ vouchers \subseteq Voucher
    /\ budget \in [Channels -> Nat]
    /\ total \in Nat
    /\ unmixed \in BOOLEAN
    /\ calls \in 0..MaxCalls
    /\ latest \in BOOLEAN

(* No voucher, refund or close is signed for more than the prices signed    *)
(* for in its channel.                                                      *)
Bounded == \A v \in vouchers : v.max <= budget[v.channel]

(* Whatever challenges and charges the seller sends, and whatever old holds *)
(* the agent passes to whatever calls at once, what is signed is bounded in *)
(* each channel as long as each hold's channel and amounts are one hold's.  *)
(* The amounts of a hold are not checked (within, record_charge): one with  *)
(* the amounts of another channel's hold can sign above its own channel's   *)
(* prices, and never above the prices signed for in all of them.            *)
TotalBounded ==
    /\ \A v \in vouchers : v.max <= total
    /\ unmixed => Bounded

(* The signer is handed a voucher only in a channel an opening of the agent *)
(* opened, under the hash that opening carries, for a challenge that names  *)
(* no other channel and no other hash: a hold with the channel, the hash,   *)
(* the terms or the opening of another channel's hold signs nothing.        *)
HeldOnly ==
    \A s \in Slots : ops[s] # Idle =>
        LET op == ops[s] IN
        /\ \E o \in openings : o.channel = op.hold.channel /\ o.h = op.hold.atr /\ o.h = op.hold.h
        /\ op.challenge.h \in {op.hold.atr, NoContext}
        /\ op.challenge.channel \in {op.hold.channel, NoChannel}

(* An agent that passes the latest hold, one call at a time, can record any *)
(* charge the vouchers it got allow: the hold's signedMax covers them all.  *)
LatestCovers ==
    latest => \A v \in vouchers : v.returned =>
        \E x \in holds : x.channel = v.channel /\ v.max <= x.signedMax

(* That agent's recorded charge never falls. *)
ChargeNeverFalls ==
    [][latest => \A x \in holds : \E y \in holds' : y.channel = x.channel /\ y.charged >= x.charged]_vars
==============================================================================
