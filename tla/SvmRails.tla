-------------------------------- MODULE SvmRails --------------------------------
(***************************************************************************)
(* The x402 pairings on Solana (x402_exact_solana.py, x402_upto_solana.py, *)
(* x402_batch_settlement_solana.py and the wire of _svm.py).  The hash     *)
(* rides as the option's extra.memo, which the payer's one transaction     *)
(* carries as its one Memo instruction; a batch channel's opening carries  *)
(* the seller's binding memo beside it.                                    *)
(***************************************************************************)
EXTENDS X402, TLC

CONSTANTS None, Hashes

VARIABLES stage, pairing, option, choice, payment, form, served, built, answer, told

Exact == "x402/exact/solana"
Upto == "x402/upto/solana"
Batch == "x402/batch-settlement/solana"
Pairings == {Exact, Upto, Batch}
PublicProof(p) == TRUE

(***************************************************************************)
(* Options.                                                                *)
(***************************************************************************)
Scheme(p) == CASE p = Exact -> "exact" [] p = Upto -> "upto" [] p = Batch -> "batch-settlement"

HonestOptions(p) ==
    {[scheme |-> Scheme(p), network |-> "solana", asset |-> "key", payTo |-> "key", amount |-> "paid",
      timeout |-> "seconds", extra |-> "object", feePayer |-> "key", receiverAuthorizer |-> "key",
      withdrawDelay |-> "delay", tokenProgram |-> "token", flow |-> "absent",
      voucherSigner |-> "absent", memo |-> h] : h \in Hashes}

OptionForms ==
    [scheme |-> {"exact", "upto", "batch-settlement", "other"}, network |-> {"other"},
     asset |-> {"malformed"}, payTo |-> {"malformed", "other"}, amount |-> {"zero", "2^64", "malformed"},
     timeout |-> {"malformed"}, extra |-> {"malformed"}, feePayer |-> {"malformed", "other", "invoked"},
     receiverAuthorizer |-> {"malformed", "other"},
     withdrawDelay |-> {"zero", "below-timeout", "2^32", "malformed"},
     tokenProgram |-> {"token-2022", "other"}, flow |-> {"escrow", "authorization", "other"},
     voucherSigner |-> {"client", "other"}, memo |-> {"H1", "H2", "other", "absent", "long", "upper"}]

Options(p) == UNION {OneOff(o, OptionForms) : o \in HonestOptions(p)}

(* The filters: pairs, and payable.                                         *)
Keys(o, members) == \A k \in members : o[k] # "malformed"

ExactPairs(o) ==
    /\ o.scheme = "exact" /\ o.network = "solana"
    /\ Keys(o, {"asset", "payTo", "extra", "feePayer"})
    /\ o.memo # "long"

UptoPairs(o) ==
    /\ o.scheme = "upto" /\ o.network = "solana"
    /\ Keys(o, {"asset", "payTo", "extra", "feePayer", "receiverAuthorizer"})
    /\ o.withdrawDelay \notin {"zero", "malformed"}
    /\ o.tokenProgram # "other"
    /\ o.memo # "long"
    /\ o.flow \in {"absent", "escrow"}

BatchPairs(o) ==
    /\ o.scheme = "batch-settlement" /\ o.network = "solana"
    /\ Keys(o, {"asset", "payTo", "extra", "feePayer", "receiverAuthorizer"})
    /\ o.voucherSigner # "other"
    /\ o.tokenProgram # "other"
    /\ o.withdrawDelay = "delay"
    /\ o.flow \in {"absent", "authorization"}
    /\ o.memo # "long"

Payable(o) == o.amount = "paid" /\ o.timeout = "seconds"
BatchPayable(o) == o.amount \in {"zero", "paid"} /\ o.timeout = "seconds"

Filter(pairs, payable) == First(<<When(~pairs, "none"), When(~payable, "x402/option-malformed")>>)

Served(p, o) ==
    CASE p = Exact -> Filter(ExactPairs(o), Payable(o))
      [] p = Upto -> Filter(UptoPairs(o), Payable(o))
      [] p = Batch -> Filter(BatchPairs(o), BatchPayable(o))

(***************************************************************************)
(* build.  The buyer gives the payer, the token program, the blockhash and *)
(* the compute budget, and the channel's nonce, slot and deposit.          *)
(***************************************************************************)
Choices(p) ==
    OneOff(Choice("H1", "inputs"), ChoiceForms({"missing", "malformed", "token-2022"}))

HonestChoices(p) == {Choice(h, "inputs") : h \in Hashes}

(* The token program of the choice, which must be the channel option's.     *)
GivenProgram(c) == IF c.given = "token-2022" THEN "token-2022" ELSE "token"

(* compile_v0 refuses an invoked program that pays the fee.                 *)
Uncompiled(o) == When(o.feePayer = "invoked", "svm/input-malformed")

SvmMessage(o) == Uncompiled(o)

(* The grace period of an opening is a u32.                                 *)
OpenInstruction(o) == When(o.withdrawDelay = "2^32", "svm/input-malformed")

ChannelMessage(o) == First(<<OpenInstruction(o), Uncompiled(o)>>)

(* A memo is the option's own; the hash it must spell, the gate's; and the  *)
(* token program the buyer read, the mint's.                                *)
BuildOnly(p, o, h) ==
    \/ o.memo # h
    \/ o.feePayer = "invoked"
    \/ p # Exact /\ (o.tokenProgram # "token" \/ o.withdrawDelay = "2^32")

ExactBuilt(o, c) ==
    First(<<When(c.h = "malformed", "x402/payload-malformed"),
            When(c.choice # "object", "x402/not-v2"),
            When(c.given = "malformed", "svm/input-malformed"),
            Chosen(c, Served(Exact, o)),
            When(o.memo # c.h, "svm/carrier-mismatch"),
            SvmMessage(o)>>)

UptoBuilt(o, c) ==
    First(<<When(c.h = "malformed", "x402/payload-malformed"),
            When(c.choice # "object", "x402/not-v2"),
            When(c.given = "malformed", "svm/input-malformed"),
            Chosen(c, Served(Upto, o)),
            When(o.memo # c.h, "svm/carrier-mismatch"),
            When(o.tokenProgram # GivenProgram(c), "svm/input-malformed"),
            ChannelMessage(o)>>)

BatchBuilt(o, c) ==
    First(<<When(c.h = "malformed", "x402/payload-malformed"),
            When(c.choice # "object", "x402/not-v2"),
            When(c.given = "malformed", "svm/input-malformed"),
            Chosen(c, Served(Batch, o)),
            When(o.memo # c.h, "svm/carrier-mismatch"),
            When(o.tokenProgram # GivenProgram(c), "svm/input-malformed"),
            ChannelMessage(o)>>)

Built(p, o, c) ==
    First(<<FirstOption(c),
            When(c.given = "missing", "x402/input-missing"),
            CASE p = Exact -> ExactBuilt(o, c)
              [] p = Upto -> UptoBuilt(o, c)
              [] p = Batch -> BatchBuilt(o, c)>>)

(***************************************************************************)
(* Payments: the transaction and, in a channel, its config and voucher.    *)
(***************************************************************************)
HonestAnswer(p) == "signed"
Answers(p, o) == {"signed", "malformed"}

SignedWire(given) == When(given # "signed", "x402/signature-malformed")

Completed(p, o, c, given) == First(<<SignedWire(given), WithIdentifier(c)>>)

(* The channel's address, derived from its config and the fee payer.        *)
ChannelPda(config, o) == ToString(<<config, o.feePayer>>)

ExactPayload(o) ==
    [transaction |-> "wire", nonceAccount |-> "static", memos |-> "one", memo |-> o.memo,
     instruction |-> "transfer"]

UptoPayload(o) == [ExactPayload(o) EXCEPT !.instruction = "open"]

BatchPayload(o) ==
    [transaction |-> "wire", nonceAccount |-> "static", memos |-> "one", memo |-> o.memo, instruction |-> "open",
     type |-> "deposit", config |-> "config", voucher |-> ChannelPda("config", o),
     binding |-> "one", channel |-> ChannelPda("config", o)]

Paid(p, o, c, given) ==
    PaymentWith(c, o, CASE p = Exact -> ExactPayload(o)
                        [] p = Upto -> UptoPayload(o)
                        [] p = Batch -> BatchPayload(o))

PayloadForms ==
    [transaction |-> {"absent", "malformed", "undecodable", "too-large"}, nonceAccount |-> {"table"},
     memos |-> {"none", "two"}, memo |-> {"H1", "H2", "other", "bytes", "upper"},
     instruction |-> {"transfer", "open", "top_up", "request_close", "two"},
     type |-> {"voucher", "refund", "other"}, config |-> {"other", "malformed"},
     voucher |-> {"absent", "other"}, binding |-> {"none", "two"}, channel |-> {"other"}]

Signed(p) == {"transaction", "nonceAccount", "memos", "memo", "instruction", "binding", "channel"}

Altered(p, paid) == Variants(paid, OptionForms, PayloadForms, Signed(p))

(* wire_of reads the text, decode_svm_tx the bytes.                         *)
DecodedTx(t) == When(t.transaction = "undecodable", "svm/tx-malformed")

Wire(t) ==
    First(<<When(t.transaction \in {"absent", "malformed"}, "svm/tx-malformed"),
            When(t.transaction = "too-large", "svm/tx-too-large"),
            DecodedTx(t)>>)

StaticNonce(t) == When(t.nonceAccount = "table", "svm/nonce-account-not-static")

(* svm_carrier: the one memo is a hash's LCP string, exactly.               *)
MemoCarrier(t) ==
    First(<<When(t.memo = "bytes", "svm/memo-not-utf8"),
            When(t.memo = "other", "svm/memo-not-lcp"),
            When(t.memo = "upper", "svm/carrier-not-canonical")>>)

Carrier(t) == First(<<When(t.memos # "one", "svm/memo-count"), MemoCarrier(t)>>)

Mismatch(o, t) == When(t.memo # o.memo, "svm/carrier-mismatch")

(* channel_instruction, of a transaction that opens, tops up or closes.     *)
Instruction(t) ==
    First(<<When(t.instruction = "transfer", "svm/no-channel-instruction"),
            When(t.instruction = "two", "svm/channel-instruction")>>)

ExactBound(o, t) ==
    First(<<Wire(t), StaticNonce(t), Carrier(t), Mismatch(o, t), t.memo>>)

UptoBound(o, t) ==
    First(<<Wire(t), StaticNonce(t), Carrier(t), Mismatch(o, t),
            When(t.instruction # "open", "x402/not-an-opening"),
            t.memo>>)

(* _ref: the config's channel is the voucher's and the instruction's.       *)
Ref(o, t) ==
    First(<<When(t.config = "malformed", "x402/payload-malformed"),
            When(t.voucher \notin {"absent", ChannelPda(t.config, o)}, "svm/channel-id-mismatch"),
            When(t.channel # ChannelPda(t.config, o), "svm/channel-id-mismatch")>>)

BatchBound(o, t) ==
    First(<<When(t.type # "deposit", "x402/not-an-opening"),
            When(t.transaction = "absent", "x402/payload-malformed"),
            Wire(t), StaticNonce(t), Instruction(t),
            When(t.instruction # "open", "x402/not-an-opening"),
            When(t.memos # "one" \/ t.binding # "one", "svm/memo-count"),
            MemoCarrier(t), Mismatch(o, t), Ref(o, t),
            t.memo>>)

Bound(p, paid) ==
    First(<<PresentedWith(paid, Served(p, paid.accepted)),
            CASE p = Exact -> ExactBound(paid.accepted, paid.payload)
              [] p = Upto -> UptoBound(paid.accepted, paid.payload)
              [] p = Batch -> BatchBound(paid.accepted, paid.payload)>>)

(* The kind channel_kind reads of the payload.                              *)
PayloadKind(t) ==
    CASE t.type \in {"voucher", "refund"} -> "ok"
      [] t.type = "deposit" ->
            First(<<When(Wire(t) # "ok", "x402/payload-malformed"), Instruction(t),
                    When(t.instruction = "request_close", "x402/channel-kind-unknown")>>)
      [] OTHER -> "x402/channel-kind-unknown"

(* batch_broadcaster: a deposit's content is bound's to read.               *)
BatchTold(t, kind) ==
    CASE kind = "x402/channel-kind-unknown" -> "x402/not-an-opening"
      [] kind = "ok" \/ t.type = "deposit" -> "payee"
      [] OTHER -> kind

Told(p, paid) ==
    First(<<Shape(paid, ShapeCodes),
            IF p = Batch THEN BatchTold(paid.payload, PayloadKind(paid.payload)) ELSE "payee">>)

INSTANCE Payment
================================================================================
