------------------------------ MODULE AlgorandRails ------------------------------
(***************************************************************************)
(* The x402 pairing on Algorand (x402_exact_algorand.py, _algorand.py).    *)
(* The payer signs an asset transfer whose note is the hash's LCP string.  *)
(* The entry it is sent in is msgpack, which two programs read: the        *)
(* facilitator, and algod, to which the facilitator passes the bytes on.   *)
(* Neither reads like the other, so an entry is read only when both accept *)
(* it and would write the same transaction back.                           *)
(***************************************************************************)
EXTENDS X402

CONSTANTS None, Hashes

VARIABLES stage, pairing, option, choice, payment, form, served, built, answer, told

ID == "x402/exact/algorand"
Pairings == {ID}
PublicProof(p) == TRUE

(***************************************************************************)
(* Options.  Without an extra there is no fee payer.                       *)
(***************************************************************************)
HonestOptions(p) ==
    {[scheme |-> "exact", network |-> "algorand", extra |-> extra, method |-> "absent", flow |-> "absent",
      feePayer |-> "address", asset |-> "u64", payTo |-> "address", amount |-> "paid", timeout |-> "seconds"] :
        extra \in {"absent", "object"}}

OptionForms ==
    [scheme |-> {"upto"}, network |-> {"other", "malformed"}, extra |-> {"malformed"}, method |-> {"present"},
     flow |-> {"authorization", "upfront"}, feePayer |-> {"absent", "checksum-wrong"},
     asset |-> {"0", "malformed", "2^64"}, payTo |-> {"checksum-wrong"}, amount |-> {"zero", "2^64"},
     timeout |-> {"malformed"}]

Options(p) == UNION {OneOff(o, OptionForms) : o \in HonestOptions(p)}

DecodesAddress(address) == address = "address"

Check(o) ==
    First(<<When(o.network = "other" \/ o.scheme # "exact", "none"),
            When(o.extra = "malformed", "avm/option-malformed"),
            When(o.network # "algorand", "avm/network-malformed"),
            When(o.extra = "object"
                    /\ (o.method # "absent" \/ o.flow = "upfront"
                          \/ (o.feePayer # "absent" /\ ~DecodesAddress(o.feePayer))),
                 "avm/option-malformed"),
            When(o.asset \in {"malformed", "2^64"} \/ ~DecodesAddress(o.payTo), "avm/option-malformed"),
            When(o.amount # "paid" \/ o.timeout # "seconds", "avm/option-malformed")>>)

Served(p, o) == Check(o)

FeePaid(o) == o.extra = "object" /\ o.feePayer # "absent"

(***************************************************************************)
(* build.  The buyer gives algod's suggested parameters.                   *)
(***************************************************************************)
Choices(p) ==
    OneOff(Choice("H1", "inputs"),
           ChoiceForms({"missing", "payer-malformed", "round-negative", "genesis-id-surrogate", "genesis-malformed",
                        "genesis-elsewhere", "round-2^64-1", "fee-2^64", "genesis-id-long"}))
HonestChoices(p) == {Choice(h, "inputs") : h \in Hashes}

(* The filter serves asset 0, which no transfer names.                      *)
BuildOnly(p, o, h) == o.asset = "0"

Axfer(o) == When(o.asset = "0", "avm/option-malformed")

BuiltAlgorand(o, c) ==
    First(<<When(c.h = "malformed", "x402/payload-malformed"),
            When(c.choice # "object", "avm/option-malformed"),
            When(c.given \in {"payer-malformed", "round-negative", "genesis-id-surrogate"}, "avm/option-malformed"),
            When(c.given = "genesis-malformed", "avm/network-mismatch"),
            Chosen(c, Check(o)),
            When(c.given = "genesis-elsewhere", "avm/network-mismatch"),
            When(c.given \in {"round-2^64-1", "fee-2^64"}, "avm/option-malformed"),
            Axfer(o),
            When(c.given = "genesis-id-long", "avm/option-malformed")>>)

Built(p, o, c) ==
    First(<<FirstOption(c), When(c.given = "missing", "x402/input-missing"), BuiltAlgorand(o, c)>>)

(***************************************************************************)
(* Payments: the group, the payment's place in it, and its entry: how the  *)
(* bytes are written, and the transaction they hold.                       *)
(***************************************************************************)
HonestAnswer(p) == "64-bytes"
Answers(p, o) == {"64-bytes", "65-bytes", "not-hex"}

Signature64(given) == When(given # "64-bytes", "x402/signature-malformed")

Completed(p, o, c, given) == First(<<Signature64(given), WithIdentifier(c)>>)

Group(h) ==
    [group |-> "list", index |-> "payer", entry |-> "base64", bytes |-> "msgpack", written |-> "canonical",
     type |-> "axfer", member |-> "own", genesis |-> "id", hash |-> "present", note |-> h]

GroupForms(o) ==
    [group |-> {"absent", "none", "17"},
     index |-> {"absent", "past-the-end"} \cup IF FeePaid(o) THEN {"fee-payer"} ELSE {},
     entry |-> {"no-text", "8193-characters", "not-base64"},
     bytes |-> {"short", "trailing", "33-levels", "unused-byte"},
     written |-> {"out-of-order", "note-as-text", "note-twice", "note-as-a-list", "txn-twice", "txn-in-two-halves",
                  "txn-as-a-list", "another-member", "key-as-a-list", "sender-cut", "hash-cut", "threshold-wide-zero"},
     type |-> {"pay", "none"}, member |-> {"another-type"}, genesis |-> {"not-UTF-8"}, hash |-> {"absent"},
     note |-> {"none", "H2", "H2-upper", "not-UTF-8", "4097-bytes", "other"}]

Paid(p, o, c, given) == PaymentWith(c, o, Group(c.h))

(* The payer signs the canonical bytes, whatever bytes hold them.           *)
Signed(p) == {"type", "member", "genesis", "hash", "note"}

Altered(p, paid) == Variants(paid, OptionForms, GroupForms(paid.accepted), Signed(p))

Unpacks(t) == t.bytes = "msgpack"

(***************************************************************************)
(* algod: a struct decodes into what an earlier occurrence left, a fixed   *)
(* array is padded or cut, bytes may be a list of numbers.                 *)
(***************************************************************************)
DecodesInto(t) == t.written \notin {"txn-as-a-list", "another-member"}

(* WellFormed's rules of a transaction's type.                              *)
WellTyped(t) == t.type # "none" /\ t.member = "own"

Marshal(t) ==
    [txn |-> IF t.written = "txn-in-two-halves" THEN "both-halves" ELSE "the-last",
     hash |-> IF t.written = "hash-cut" THEN "padded" ELSE "whole",
     threshold |-> "left-out",
     note |-> t.note]

(***************************************************************************)
(* The facilitator: the last of a repeated member, and bytes of whatever   *)
(* length they are written in.                                             *)
(***************************************************************************)
KeysReadable(t) == t.written # "key-as-a-list"

FacilitatorReads(t) ==
    /\ t.written \notin {"note-as-a-list", "sender-cut"}
    /\ t.genesis = "id"
    /\ t.hash = "present"

FacilitatorEncoding(t) ==
    [txn |-> "the-last",
     hash |-> IF t.written = "hash-cut" THEN "cut" ELSE "whole",
     threshold |-> IF t.written = "threshold-wide-zero" THEN "zero" ELSE "left-out",
     note |-> t.note]

ReadSigned(t) ==
    First(<<When(~Unpacks(t) \/ ~DecodesInto(t) \/ ~WellTyped(t), "avm/txn-malformed"),
            When(t.type # "axfer", "avm/not-axfer"),
            When(~KeysReadable(t) \/ ~FacilitatorReads(t) \/ Marshal(t) # FacilitatorEncoding(t),
                 "avm/txn-malformed")>>)

PaymentEntry(t) ==
    First(<<When(t.entry # "base64", "avm/txn-malformed"),
            ReadSigned(t),
            When(t.note = "4097-bytes", "avm/txn-malformed")>>)

(* from_lcp_string reads the hash's digits in either case.                  *)
Carrier(t) ==
    First(<<When(t.group = "absent", "avm/txn-malformed"),
            When(t.group # "list", "avm/group-too-large"),
            When(t.index \in {"absent", "past-the-end"}, "avm/index-out-of-range"),
            When(t.index = "fee-payer", "avm/not-axfer"),
            PaymentEntry(t),
            IF t.note \in Hashes THEN t.note ELSE IF t.note = "H2-upper" THEN "H2" ELSE "avm/note-not-lcp">>)

Bound(p, paid) == First(<<PresentedWith(paid, Check(paid.accepted)), Carrier(paid.payload)>>)

Told(p, paid) == Broadcaster(paid, "payee", ShapeCodes)

INSTANCE Payment
================================================================================
