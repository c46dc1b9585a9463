------------------------------ MODULE StarknetRails ------------------------------
(***************************************************************************)
(* The x402 pairing on Starknet (x402_exact_starknet.py).  The account     *)
(* signs an outside execution whose nonce is the hash's low 250 bits; the  *)
(* whole hash is the unsigned one the payment echoes, so bound reads it    *)
(* only when the signed nonce agrees.  A nonce is the hash whose bits it   *)
(* is, two hashes differing in them.                                       *)
(***************************************************************************)
EXTENDS X402

CONSTANTS None, Hashes

VARIABLES stage, pairing, option, choice, payment, form, served, built, answer, told

ID == "x402/exact/starknet"
Pairings == {ID}
PublicProof(p) == TRUE

(***************************************************************************)
(* Options.                                                                *)
(***************************************************************************)
HonestOptions(p) ==
    {[scheme |-> "exact", network |-> "starknet", extra |-> "object", method |-> "absent", flow |-> "absent",
      asset |-> "felt", payTo |-> "felt", feePayer |-> "felt", amount |-> "paid", timeout |-> "seconds"]}

OptionForms ==
    [scheme |-> {"upto"}, network |-> {"unknown", "other"}, extra |-> {"absent"},
     method |-> {"default", "other"}, flow |-> {"authorization", "other"},
     asset |-> {"malformed"}, payTo |-> {"malformed"}, feePayer |-> {"malformed", "zero", "any-caller", "payer"},
     amount |-> {"zero", "2^256"}, timeout |-> {"malformed", "2^53-1"}]

Options(p) == UNION {OneOff(o, OptionForms) : o \in HonestOptions(p)}

Check(o) ==
    First(<<When(o.scheme # "exact" \/ o.network = "other", "x402/option-not-this-pairing"),
            When(o.extra # "object", "starknet/option-malformed"),
            When(o.method = "other" \/ o.flow = "other", "x402/option-not-this-pairing"),
            When(o.network = "unknown", "starknet/network-malformed"),
            When("malformed" \in {o.asset, o.payTo, o.feePayer}, "starknet/felt-malformed"),
            When(o.feePayer \in {"zero", "any-caller"}, "starknet/caller-forbidden"),
            When(o.amount # "paid" \/ o.timeout = "malformed", "starknet/option-malformed")>>)

Served(p, o) == Check(o)

(***************************************************************************)
(* build.  The gate gives the time.                                        *)
(***************************************************************************)
Choices(p) == OneOff(Choice("H1", "payer"), ChoiceForms({"account-malformed", "time-malformed", "fee-payer"}))
HonestChoices(p) == {Choice(h, "payer") : h \in Hashes}

(* The filter knows neither who pays nor when: the payer's own account may  *)
(* not execute its payment, and the execution must end at a safe integer.   *)
BuildOnly(p, o, h) == o.feePayer = "payer" \/ o.timeout = "2^53-1"

OutsideExecution(o) == When(o.timeout = "2^53-1", "starknet/option-malformed")

BuiltStarknet(o, c) ==
    First(<<When(c.h = "malformed", "x402/payload-malformed"),
            When(c.choice # "object", "starknet/option-malformed"),
            When(c.given = "account-malformed", "starknet/felt-malformed"),
            When(c.given = "time-malformed", "starknet/option-malformed"),
            Chosen(c, Check(o)),
            When(o.feePayer = "payer" \/ c.given = "fee-payer", "starknet/caller-forbidden"),
            OutsideExecution(o)>>)

Built(p, o, c) == First(<<FirstOption(c), BuiltStarknet(o, c)>>)

(***************************************************************************)
(* Payments: the account's signature of the typed data it was given.       *)
(***************************************************************************)
HonestAnswer(p) == "felts"
Answers(p, o) == {"felts", "no-felt", "33-felts", "not-felts", "not-text"}

CompletedStarknet(given) == When(given # "felts", "starknet/signature-malformed")

Completed(p, o, c, given) ==
    First(<<When(given = "not-text", "x402/signature-malformed"), CompletedStarknet(given), WithIdentifier(c)>>)

TypedData(h) == [from |-> "felt", typed |-> "object", size |-> "16-KiB", domain |-> "domain", chain |-> "option",
                 nonce |-> h]

TypedDataForms ==
    [from |-> {"malformed"}, typed |-> {"absent"}, size |-> {"over-16-KiB"},
     domain |-> {"absent", "other-name", "other-version"},
     chain |-> {"option-short-string", "other", "malformed"}, nonce |-> {"H2", "malformed"}]

Paid(p, o, c, given) == PaymentWith(c, o, TypedData(c.h))

(* The signature is the account's, of its address and the typed data whole. *)
Signed(p) == DOMAIN TypedData("H1")

Altered(p, paid) == Variants(paid, OptionForms, TypedDataForms, Signed(p))

ChainIdValue(t) == t.chain \in {"option", "option-short-string"}

SignsHash(t) ==
    When(\/ t.typed # "object" \/ t.size # "16-KiB" \/ t.domain # "domain" \/ ~ChainIdValue(t)
         \/ t.nonce = "malformed", "starknet/typed-data-malformed")

BoundStarknet(paid) ==
    First(<<PresentedWith(paid, Check(paid.accepted)),
            When(paid.payload.from # "felt", "starknet/felt-malformed"),
            SignsHash(paid.payload),
            When(LegalContextOf(paid) # "ok", "starknet/no-legal-context"),
            When(paid.envelope.context # paid.payload.nonce, "starknet/nonce-not-bound"),
            paid.envelope.context>>)

Bound(p, paid) == BoundStarknet(paid)

Told(p, paid) == Broadcaster(paid, "payee", ShapeCodes)

INSTANCE Payment
================================================================================
