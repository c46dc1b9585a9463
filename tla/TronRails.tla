-------------------------------- MODULE TronRails --------------------------------
(***************************************************************************)
(* The x402 pairing on Tron (x402_exact_tron_lcp_trc20_memo.py and the     *)
(* wire of _tron_proto.py): the payer signs the id of a TRC-20 transfer,   *)
(* whose memo is the hash's LCP string.  Bytes that java-tron would write  *)
(* otherwise are refused, so a payment has one reading.                    *)
(***************************************************************************)
EXTENDS X402, TLC

CONSTANTS None, Hashes

VARIABLES stage, pairing, option, choice, payment, form, served, built, answer, told

ID == "x402/exact/tron/lcp-trc20-memo"
Pairings == {ID}
PublicProof(p) == TRUE

(***************************************************************************)
(* Options.                                                                *)
(***************************************************************************)
HonestOptions(p) ==
    {[scheme |-> "exact", network |-> "tron", extra |-> "object", method |-> "lcp-trc20-memo", flow |-> flow,
      asset |-> "address", payTo |-> "address", amount |-> "paid", timeout |-> "seconds"] :
        flow \in {"absent", "upfront"}}

OptionForms ==
    [scheme |-> {"upto"}, network |-> {"other", "malformed", "2^53"}, extra |-> {"absent"}, method |-> {"absent"},
     flow |-> {"authorization", "other"}, asset |-> {"checksum-wrong"}, payTo |-> {"malformed"},
     amount |-> {"zero", "2^256"}, timeout |-> {"malformed", "86341"}]

Options(p) == UNION {OneOff(o, OptionForms) : o \in HonestOptions(p)}

TronAddress(address) == address = "address"

Check(o) ==
    First(<<When(o.scheme # "exact" \/ o.network = "other" \/ o.extra # "object"
                    \/ o.method # "lcp-trc20-memo" \/ o.flow = "other",
                 "x402/option-not-this-pairing"),
            When(o.network # "tron", "tron/network-malformed"),
            When(~TronAddress(o.asset) \/ ~TronAddress(o.payTo), "tron/address-malformed"),
            When(o.amount # "paid" \/ o.timeout # "seconds", "tron/option-malformed")>>)

Served(p, o) == Check(o)

(***************************************************************************)
(* build.  The buyer gives a recent block and a fee limit, the gate its    *)
(* clock in milliseconds.                                                  *)
(***************************************************************************)
Choices(p) ==
    OneOff(Choice("H1", "inputs"),
           ChoiceForms({"missing", "payer-malformed", "fee-limit-0", "fee-limit-over", "block-2^63",
                        "block-id-malformed", "time-zero", "time-near-2^63"}))
HonestChoices(p) == {Choice(h, "inputs") : h \in Hashes}

BuildOnly(p, o, h) == FALSE

BuiltTron(o, c) ==
    First(<<When(c.h = "malformed", "x402/payload-malformed"),
            When(c.choice # "object", "x402/option-malformed"),
            When(c.given = "payer-malformed", "tron/address-malformed"),
            When(c.given \in {"fee-limit-0", "fee-limit-over"}, "tron/fee-limit"),
            When(c.given \in {"block-2^63", "block-id-malformed", "time-zero"}, "tron/tx-malformed"),
            Chosen(c, Check(o)),
            When(c.given = "time-near-2^63", "tron/tx-malformed")>>)

(* The piece reads the block id too, before build does.                     *)
Built(p, o, c) ==
    First(<<FirstOption(c),
            When(c.given \in {"missing", "block-id-malformed"}, "x402/input-missing"),
            BuiltTron(o, c)>>)

(***************************************************************************)
(* Payments: the transaction and its signature, whose last byte is v.      *)
(***************************************************************************)
HonestAnswer(p) == "v-27"
Answers(p, o) == {"v-27", "v-0", "v-2", "64-bytes", "not-hex"}

CompletedTron(given) == When(given \notin {"v-27", "v-0"}, "tron/signature-malformed")

Completed(p, o, c, given) ==
    First(<<When(given \in {"64-bytes", "not-hex"}, "x402/signature-malformed"),
            CompletedTron(given),
            WithIdentifier(c)>>)

(* encode_tron_raw: the fields in ascending order, defaults left out.       *)
Raw(h) ==
    [raw |-> "fields", contracts |-> "one", contract |-> "fields", kind |-> "trigger", value |-> "fields",
     url |-> "TriggerSmartContract", trigger |-> "fields", written |-> "canonical", call |-> "transfer",
     memo |-> h]

Transaction(h) == [text |-> "hex", outer |-> "raw-and-signatures", signatures |-> "one"] @@ Raw(h)

TransactionForms ==
    [text |-> {"absent", "upper-hex", "8194-digits", "empty"}, outer |-> {"short", "raw-twice", "result"},
     signatures |-> {"none", "two", "six", "64-bytes"},
     raw |-> {"short", "unknown-field", "time-2^63"}, contracts |-> {"none", "two"},
     contract |-> {"short", "permission"}, kind |-> {"transfer", "no-value"}, value |-> {"short", "unknown-field"},
     url |-> {"other"}, trigger |-> {"short", "call-value"},
     written |-> {"out-of-order", "default-written", "field-twice", "long-varint"},
     call |-> {"approve", "69-bytes"},
     memo |-> {"none", "H2", "H2-upper", "byte-order-mark", "not-UTF-8"}]

Paid(p, o, c, given) == PaymentWith(c, o, Transaction(c.h))

(* The key signs the id, the digest of the raw transaction.                 *)
Signed(p) == DOMAIN Raw("H1")

Altered(p, paid) == Variants(paid, OptionForms, TransactionForms, Signed(p))

(* _fields_of: a message whose bytes end in a field.                        *)
FieldsOf(message) == message # "short"

(* decode_raw: only the fields of a TRC-20 transfer, and one contract.      *)
DecodedRaw(t) ==
    First(<<When(~FieldsOf(t.raw) \/ t.raw # "fields", "tron/tx-malformed"),
            When(t.contracts # "one", "tron/contracts"),
            When(~FieldsOf(t.contract) \/ t.contract # "fields", "tron/tx-malformed"),
            When(t.kind # "trigger", "tron/not-trigger"),
            When(~FieldsOf(t.value) \/ t.value # "fields", "tron/tx-malformed"),
            When(t.url # "TriggerSmartContract", "tron/not-trigger"),
            When(~FieldsOf(t.trigger) \/ t.trigger # "fields", "tron/tx-malformed"),
            When(t.written # "canonical", "tron/raw-not-canonical")>>)

DecodedTx(t) ==
    First(<<When(t.text = "8194-digits", "tron/tx-too-large"),
            When(t.text # "hex", "tron/tx-malformed"),
            When(~FieldsOf(t.outer) \/ t.outer # "raw-and-signatures", "tron/tx-malformed"),
            When(t.signatures \notin {"one", "two"}, "tron/signature-malformed"),
            DecodedRaw(t)>>)

(* from_lcp_string reads the hash's digits in either case.                  *)
MemoHash(t) ==
    IF t.memo \in Hashes THEN t.memo
    ELSE IF t.memo = "H2-upper" THEN "H2" ELSE "tron/memo-not-lcp"

Bound(p, paid) ==
    First(<<PresentedWith(paid, Check(paid.accepted)),
            When(paid.payload.text = "absent", "x402/payload-malformed"),
            DecodedTx(paid.payload),
            When(paid.payload.call # "transfer", "tron/not-transfer"),
            MemoHash(paid.payload)>>)

Told(p, paid) == Broadcaster(paid, "payee", ShapeCodes)

INSTANCE Payment
================================================================================
