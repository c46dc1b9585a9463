------------------------------ MODULE CardanoRails ------------------------------
(***************************************************************************)
(* The x402 pairing on Cardano (x402_exact_cardano.py, with the CBOR of    *)
(* _cbor_spans.py).  The payer's wallet builds the transaction, whose      *)
(* auxiliary data its signed body commits to; the hash is two lines of the *)
(* CIP-20 message there, a marker and its digits.                          *)
(***************************************************************************)
EXTENDS X402

CONSTANTS None, Hashes

VARIABLES stage, pairing, option, choice, payment, form, served, built, answer, told

ID == "x402/exact/cardano"
Pairings == {ID}
PublicProof(p) == TRUE

(***************************************************************************)
(* Options, on a network of either namespace.                              *)
(***************************************************************************)
HonestOptions(p) ==
    {[scheme |-> "exact", network |-> network, extra |-> extra, method |-> "absent", flow |-> "absent",
      amount |-> "paid", timeout |-> "seconds"] :
          network \in {"cardano", "cip34"}, extra \in {"absent", "object"}}

OptionForms ==
    [scheme |-> {"upto"}, network |-> {"unknown", "other"}, extra |-> {"malformed"},
     method |-> {"default", "script", "masumi", "other"}, flow |-> {"authorization", "other"},
     amount |-> {"zero", "79-digits"}, timeout |-> {"malformed"}]

Options(p) == UNION {OneOff(o, OptionForms) : o \in HonestOptions(p)}

OptionCheck(o) ==
    First(<<When(o.scheme # "exact" \/ o.network = "other", "x402/option-not-this-pairing"),
            When(o.network = "unknown", "cardano/network-malformed"),
            When(\/ o.extra = "malformed"
                 \/ o.extra = "object" /\ (o.method = "other" \/ o.flow = "other")
                 \/ o.amount # "paid" \/ o.timeout # "seconds", "x402/option-not-this-pairing")>>)

Served(p, o) == OptionCheck(o)

(***************************************************************************)
(* build takes nothing of the buyer.                                       *)
(***************************************************************************)
Choices(p) == OneOff(Choice("H1", "nothing"), ChoiceForms({}))
HonestChoices(p) == {Choice(h, "nothing") : h \in Hashes}

BuildOnly(p, o, h) == FALSE

BuiltCardano(o, c) ==
    First(<<When(c.h = "malformed", "x402/payload-malformed"),
            When(c.choice # "object", "x402/not-v2"),
            Chosen(c, OptionCheck(o))>>)

Built(p, o, c) == First(<<FirstOption(c), BuiltCardano(o, c)>>)

(***************************************************************************)
(* Payments: the wallet's transaction and its nonce.  The message is the   *)
(* hash of its two lines, or what is wrong with them.                      *)
(***************************************************************************)
HonestAnswer(p) ==
    [transaction |-> "wire", nonce |-> "text", cbor |-> "definite", body |-> "fields", ttl |-> "slot",
     aux |-> "committed", metadata |-> "tagged", message |-> "asked"]

AnswerForms ==
    [transaction |-> {"absent", "malformed", "too-large"}, nonce |-> {"absent"},
     cbor |-> {"indefinite", "trailing", "level-65", "not-UTF-8"},
     body |-> {"three-items", "validity-no-bool", "key-twice", "key-no-number"},
     ttl |-> {"absent", "no-number"}, aux |-> {"absent", "hash-short", "not-committed"},
     metadata |-> {"map", "array", "none"},
     message |-> {"H2", "none", "digits-upper", "marker-upper", "marker-twice", "marker-twice-in-another-case",
                  "label-twice", "key-twice"}]

Answers(p, o) == OneOff(HonestAnswer(p), AnswerForms)

(* auxiliary_data: the message the wallet is asked to attach.               *)
AuxiliaryData(given, h) == [given EXCEPT !.message = IF @ = "asked" THEN h ELSE @]

Paid(p, o, c, given) == PaymentWith(c, o, AuxiliaryData(given, c.h))

ReadsItem(t) == t.cbor \in {"definite", "indefinite"}

(* The hash is read from one message only: a second label or key, and a     *)
(* second line that reads as the marker to anyone, make it ambiguous.       *)
MetadataOf(t) == t.metadata # "none"
Ambiguous(t) == t.message \in {"label-twice", "key-twice", "marker-twice", "marker-twice-in-another-case"}

Carrier(t) ==
    First(<<When(MetadataOf(t) /\ Ambiguous(t), "cardano/ambiguous"),
            When(~MetadataOf(t) \/ t.message \notin Hashes, "cardano/hash-not-carried"),
            t.message>>)

DecodedBytes(t) ==
    First(<<When(~ReadsItem(t) \/ t.body # "fields" \/ t.ttl = "no-number", "cardano/tx-malformed"),
            When(t.aux = "absent", "cardano/aux-missing"),
            When(t.aux = "hash-short", "cardano/tx-malformed"),
            When(t.aux = "not-committed", "cardano/aux-hash-mismatch"),
            Carrier(t)>>)

DecodedCardano(t) ==
    First(<<When(t.transaction = "too-large", "cardano/tx-too-large"),
            When(t.transaction = "malformed", "cardano/tx-malformed"),
            DecodedBytes(t)>>)

PresentedTx(paid) ==
    First(<<PresentedWith(paid, OptionCheck(paid.accepted)),
            When("absent" \in {paid.payload.transaction, paid.payload.nonce}, "x402/payload-malformed"),
            DecodedCardano(paid.payload)>>)

(* Reference takes no transaction without a TTL, whatever it carries.       *)
ReferenceRefuses(paid) == paid.payload.ttl = "absent"

CompletedCardano(paid, h) ==
    When(PresentedTx(paid) # h \/ ReferenceRefuses(paid), "x402/signed-not-bound")

Completed(p, o, c, given) ==
    First(<<When("absent" \in {given.transaction, given.nonce}, "x402/signature-malformed"),
            CompletedCardano(Paid(p, o, c, given), c.h),
            WithIdentifier(c)>>)

(* The witnesses sign the body, which the auxiliary data hash to.           *)
Signed(p) == DOMAIN HonestAnswer(p) \ {"transaction", "nonce"}

Altered(p, paid) == Variants(paid, OptionForms, AnswerForms, Signed(p))

Bound(p, paid) == PresentedTx(paid)

Told(p, paid) == Broadcaster(paid, "payee", ShapeCodes)

INSTANCE Payment
================================================================================
