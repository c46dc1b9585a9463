-------------------------------- MODULE NearRails --------------------------------
(***************************************************************************)
(* The x402 pairing on NEAR (x402_exact_near.py and the wire of            *)
(* _borsh_near.py): the payer signs a delegate action for one ft_transfer, *)
(* whose memo argument is the hash's LCP string.  The arguments are read   *)
(* only as the token contract reads them.                                  *)
(***************************************************************************)
EXTENDS X402

CONSTANTS None, Hashes

VARIABLES stage, pairing, option, choice, payment, form, served, built, answer, told

ID == "x402/exact/near"
Pairings == {ID}
PublicProof(p) == TRUE

(***************************************************************************)
(* Options.                                                                *)
(***************************************************************************)
HonestOptions(p) ==
    {[scheme |-> "exact", network |-> "near", extra |-> extra, method |-> "absent", flow |-> "absent",
      asset |-> "id", payTo |-> "id", amount |-> "paid", timeout |-> "seconds"] : extra \in {"absent", "object"}}

OptionForms ==
    [scheme |-> {"upto"}, network |-> {"unknown", "other"}, extra |-> {"malformed"},
     method |-> {"present"}, flow |-> {"authorization", "other"}, asset |-> {"malformed"},
     payTo |-> {"malformed"}, amount |-> {"zero", "2^128"}, timeout |-> {"malformed"}]

Options(p) == UNION {OneOff(o, OptionForms) : o \in HonestOptions(p)}

IsTransferAmount(o) == o.amount = "paid"

Check(o) ==
    First(<<When(o.scheme # "exact" \/ o.network = "other", "x402/option-not-this-pairing"),
            When(o.extra = "malformed", "near/option-malformed"),
            When(o.extra = "object" /\ (o.method # "absent" \/ o.flow \notin {"absent", "authorization"}),
                 "x402/option-not-this-pairing"),
            When(o.network # "near", "near/network-malformed"),
            When("malformed" \in {o.asset, o.payTo}, "near/option-malformed"),
            When(~IsTransferAmount(o), "near/option-malformed"),
            When(o.timeout # "seconds", "near/option-malformed")>>)

Served(p, o) == Check(o)

(***************************************************************************)
(* build.  The buyer gives its key, the key's nonce and the final height.  *)
(***************************************************************************)
Choices(p) ==
    OneOff(Choice("H1", "inputs"),
           ChoiceForms({"missing", "other-key", "nonce-2^64-1", "height-2^64", "height-2^64-1"}))
HonestChoices(p) == {Choice(h, "inputs") : h \in Hashes}

BuildOnly(p, o, h) == FALSE

FtTransferArgs(o) == When(o.payTo # "id" \/ ~IsTransferAmount(o), "near/option-malformed")

BuiltNear(o, c) ==
    First(<<When(c.h = "malformed", "x402/payload-malformed"),
            When(c.choice # "object", "x402/option-malformed"),
            When(c.given \in {"other-key", "nonce-2^64-1", "height-2^64"}, "x402/option-malformed"),
            Chosen(c, Check(o)),
            When(c.given = "height-2^64-1", "x402/option-malformed"),
            FtTransferArgs(o)>>)

Built(p, o, c) ==
    First(<<FirstOption(c), When(c.given = "missing", "x402/input-missing"), BuiltNear(o, c)>>)

(***************************************************************************)
(* Payments: the signed delegate action.                                   *)
(***************************************************************************)
HonestAnswer(p) == [keyType |-> "ed25519", bytes |-> "64"]

(* "64-high" has a last byte of 0x20 or more, which nearcore does not read. *)
Answers(p, o) ==
    [keyType : {"ed25519", "secp256k1", "other"}, bytes : {"64", "64-high", "65", "absent"}]

CompletedNear(given) ==
    When([keyType |-> given.keyType, bytes |-> given.bytes] \notin
            {[keyType |-> "ed25519", bytes |-> "64"], [keyType |-> "secp256k1", bytes |-> "65"]},
         "x402/signature-malformed")

Completed(p, o, c, given) ==
    First(<<When(given.keyType = "other" \/ given.bytes = "absent", "x402/signature-malformed"),
            CompletedNear(given),
            WithIdentifier(c)>>)

Delegate(h) ==
    [sda |-> "wire", accounts |-> "ids", actions |-> "one", action |-> "call", rest |-> "whole",
     method |-> "ft_transfer", args |-> "json", receiver |-> "id", memo |-> h]

DelegateForms ==
    [sda |-> {"absent", "malformed", "too-large"}, accounts |-> {"not-ids", "not-UTF-8"},
     actions |-> {"none", "two"}, action |-> {"transfer"}, rest |-> {"short", "trailing", "signature-high"},
     method |-> {"ft_transfer_call"},
     args |-> {"too-large", "not-UTF-8", "byte-order-mark", "not-an-object", "memo-twice", "lone-surrogate",
               "amount-malformed"},
     receiver |-> {"malformed"}, memo |-> {"absent", "H2", "H2-upper", "other"}]

Paid(p, o, c, given) == PaymentWith(c, o, Delegate(c.h))

(* The key signs the delegate action whole.                                 *)
Signed(p) == DOMAIN Delegate("H1")

Altered(p, paid) == Variants(paid, OptionForms, DelegateForms, Signed(p))

(* decode_signed_delegate, in the order nearcore reads the bytes.           *)
DecodedDelegate(t) ==
    First(<<When(t.accounts # "ids", "near/sda-malformed"),
            When(t.actions # "one", "near/actions"),
            When(t.action # "call", "near/not-ft-transfer"),
            When(t.rest # "whole", "near/sda-malformed")>>)

(* _token_reads, beside the text's own form: what serde's reader takes.     *)
TokenReads(t) ==
    t.args \notin {"memo-twice", "lone-surrogate", "amount-malformed"} /\ t.receiver = "id"

(* from_lcp_string reads the hash's digits in either case.                  *)
MemoOf(t) ==
    First(<<When(t.args \in {"too-large", "not-UTF-8", "byte-order-mark", "not-an-object"} \/ ~TokenReads(t),
                 "near/args-malformed"),
            When(t.memo = "absent", "near/memo-missing"),
            When(t.memo = "other", "near/memo-not-lcp"),
            IF t.memo = "H2-upper" THEN "H2" ELSE t.memo>>)

NearCarrier(t) ==
    First(<<When(t.sda = "too-large", "near/sda-too-large"),
            When(t.sda = "malformed", "near/sda-malformed"),
            DecodedDelegate(t),
            When(t.method # "ft_transfer", "near/not-ft-transfer"),
            MemoOf(t)>>)

Bound(p, paid) ==
    First(<<PresentedWith(paid, Check(paid.accepted)),
            When(paid.payload.sda = "absent", "x402/payload-malformed"),
            NearCarrier(paid.payload)>>)

Told(p, paid) == Broadcaster(paid, "payee", ShapeCodes)

INSTANCE Payment
================================================================================
