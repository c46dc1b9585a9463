------------------------------ MODULE PolkadotRails ------------------------------
(***************************************************************************)
(* The x402 pairing on Polkadot Asset Hub                                  *)
(* (x402_exact_polkadot_lcp_assets_remark.py, with _scale.py and _ss58.py). *)
(* The payer signs one extrinsic whose call batches the transfer and a     *)
(* remark of the hash's LCP string.  The extrinsic's extensions are not    *)
(* decoded: the call is what it ends with.                                 *)
(***************************************************************************)
EXTENDS X402, TLC

CONSTANTS None, Hashes

VARIABLES stage, pairing, option, choice, payment, form, served, built, answer, told

ID == "x402/exact/polkadot/lcp-assets-remark"
Pairings == {ID}
PublicProof(p) == TRUE

(***************************************************************************)
(* Options.                                                                *)
(***************************************************************************)
HonestOptions(p) ==
    {[scheme |-> "exact", network |-> "asset-hub", extra |-> "object", method |-> "lcp-assets-remark",
      flow |-> flow, asset |-> "u32", amount |-> "paid", timeout |-> "seconds", payTo |-> "account"] :
        flow \in {"absent", "upfront"}}

OptionForms ==
    [scheme |-> {"upto"}, network |-> {"relay", "other"}, extra |-> {"absent"}, method |-> {"absent"},
     flow |-> {"authorization", "other"}, asset |-> {"malformed", "2^32"}, amount |-> {"zero", "2^128"},
     timeout |-> {"malformed", "3601"}, payTo |-> {"malformed", "checksum-wrong"}]

Options(p) == UNION {OneOff(o, OptionForms) : o \in HonestOptions(p)}

Ss58Decodes(address) == address = "account"

Check(o) ==
    First(<<When(o.network = "other" \/ o.scheme # "exact", "none"),
            When(o.network = "relay", "polkadot/network-unsupported"),
            When(o.extra # "object" \/ o.method # "lcp-assets-remark" \/ o.flow = "other",
                 "polkadot/option-malformed"),
            When(o.asset # "u32" \/ o.amount # "paid" \/ o.timeout # "seconds", "polkadot/option-malformed"),
            When(~Ss58Decodes(o.payTo), "polkadot/address-malformed")>>)

Served(p, o) == Check(o)

(***************************************************************************)
(* build.                                                                  *)
(***************************************************************************)
Choices(p) == OneOff(Choice("H1", "nothing"), ChoiceForms({}))
HonestChoices(p) == {Choice(h, "nothing") : h \in Hashes}

BuildOnly(p, o, h) == FALSE

BuiltPolkadot(o, c) ==
    First(<<When(c.h = "malformed", "x402/payload-malformed"),
            When(c.choice # "object", "polkadot/option-malformed"),
            Chosen(c, Check(o))>>)

Built(p, o, c) == First(<<FirstOption(c), BuiltPolkadot(o, c)>>)

(* The call, as the bytes decode_profile_call reads.                        *)
ProfileCall(h) ==
    [head |-> "batch_all", asset |-> "u32", dest |-> "Id", paid |-> "u128", second |-> "remark_with_event",
     length |-> "77", remark |-> h]

ProfileCallForms ==
    [head |-> {"batch"}, asset |-> {"2^32", "not-shortest"}, dest |-> {"Index", "short"}, paid |-> {"2^128"},
     second |-> {"remark"}, length |-> {"76", "trailing"},
     remark |-> {"H2", "H2-upper", "byte-order-mark", "not-UTF-8"}]

(***************************************************************************)
(* Payments: the signed extrinsic, and beside it the call.                 *)
(***************************************************************************)
HonestAnswer(p) ==
    [bytes |-> "hex", size |-> "4096", prefix |-> "shortest", version |-> "0x84", address |-> "Id",
     signature |-> "64", suffix |-> "the-call"]

AnswerForms ==
    [bytes |-> {"empty", "not-hex"}, size |-> {"4097"}, prefix |-> {"other-length", "not-shortest"},
     version |-> {"0x04"}, address |-> {"Index"}, signature |-> {"65", "variant-4", "short"},
     suffix |-> {"another-call", "over-the-signature", "inside-another-call"}]

Answers(p, o) == OneOff(HonestAnswer(p), AnswerForms)

(* compact_at: a length in its shortest mode.                               *)
Compact(t) == t.prefix # "not-shortest"

SplitSigned(t) ==
    First(<<When(t.size # "4096", "polkadot/extrinsic-too-large"),
            When(~Compact(t) \/ t.prefix = "other-length", "polkadot/extrinsic-malformed"),
            When(t.version # "0x84", "polkadot/not-signed-v4"),
            When(t.address # "Id", "polkadot/address-not-id"),
            When(t.signature \notin {"64", "65"}, "polkadot/signature-malformed")>>)

(* The bytes after the call's start decide; what is before it may be more   *)
(* of a longer call.                                                        *)
WithSuffix(t) ==
    First(<<SplitSigned(t),
            When(t.suffix \in {"another-call", "over-the-signature"}, "polkadot/call-not-suffix")>>)

Completed(p, o, c, given) ==
    First(<<When(given.bytes # "hex", "x402/signature-malformed"), WithSuffix(given), WithIdentifier(c)>>)

Payload(given, h) == [extrinsic |-> "lower-hex", call |-> "lower-hex"] @@ given @@ ProfileCall(h)
PayloadForms ==
    [extrinsic |-> {"absent", "upper-hex"}, call |-> {"absent", "upper-hex"}] @@ AnswerForms @@ ProfileCallForms

Paid(p, o, c, given) == PaymentWith(c, o, Payload(given, c.h))

(* The payer signs the call and what precedes it, not the text of either.   *)
Signed(p) == {"version", "address", "signature", "suffix"} \cup DOMAIN ProfileCall("H1")

Altered(p, paid) == Variants(paid, OptionForms, PayloadForms, Signed(p))

DecodedProfileCall(t) ==
    When(t.head # "batch_all" \/ t.asset # "u32" \/ t.dest # "Id" \/ t.paid # "u128"
            \/ t.second # "remark_with_event" \/ t.length # "77",
         "polkadot/call-not-profile")

(* The chain hashes the remark's bytes: the hash in any other bytes is none. *)
RemarkCarrier(t) == IF t.remark \in Hashes THEN t.remark ELSE "polkadot/remark-not-lcp"

Bound(p, paid) ==
    First(<<PresentedWith(paid, Check(paid.accepted)),
            When(paid.payload.extrinsic # "lower-hex" \/ paid.payload.bytes = "not-hex",
                 "polkadot/extrinsic-malformed"),
            When(paid.payload.size # "4096", "polkadot/extrinsic-too-large"),
            When(paid.payload.call # "lower-hex", "polkadot/call-not-profile"),
            When(paid.payload.bytes = "empty", "polkadot/extrinsic-malformed"),
            WithSuffix(paid.payload),
            DecodedProfileCall(paid.payload),
            RemarkCarrier(paid.payload)>>)

Told(p, paid) == Broadcaster(paid, "payee", ShapeCodes)

INSTANCE Payment
================================================================================
