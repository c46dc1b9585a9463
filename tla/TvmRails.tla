-------------------------------- MODULE TvmRails --------------------------------
(***************************************************************************)
(* The x402 pairing on TON (x402_exact_tvm.py, with the messages of        *)
(* _ton_tlb.py and the cells of _ton_cell.py).  The option itself carries  *)
(* the hash, as the forward payload of the transfer the payer's W5 wallet  *)
(* signs; bound reads it from the signed transfer, and holds the option's  *)
(* to be the same cell.  What the message rules are read at is the         *)
(* configuration of the option's network.                                  *)
(***************************************************************************)
EXTENDS X402

CONSTANTS None, Hashes

VARIABLES stage, pairing, option, choice, payment, form, served, built, answer, told

ID == "x402/exact/tvm"
Pairings == {ID}
PublicProof(p) == TRUE

(***************************************************************************)
(* Options.  A forward payload is the hash of its comment.                 *)
(***************************************************************************)
HonestOptions(p) ==
    {[scheme |-> "exact", network |-> "tvm", extra |-> "object", method |-> "absent", flow |-> "absent",
      asset |-> "address", payTo |-> "address", sponsored |-> "true", forwardTon |-> "absent",
      response |-> "absent", amount |-> "paid", timeout |-> "seconds", forwardPayload |-> h] : h \in Hashes}

OptionForms ==
    [scheme |-> {"upto"}, network |-> {"other", "unknown"}, extra |-> {"absent", "malformed"},
     method |-> {"present"}, flow |-> {"authorization", "upfront"}, asset |-> {"malformed"},
     payTo |-> {"workchain-128"}, sponsored |-> {"false"}, forwardTon |-> {"amount", "2^120-1"},
     response |-> {"address", "malformed"}, amount |-> {"zero", "2^120"},
     timeout |-> {"malformed", "2^32-1", "2^32"}, forwardPayload |-> {"H1", "H2", "absent", "no-bag", "other"}]

Options(p) == UNION {OneOff(o, OptionForms) : o \in HonestOptions(p)}

RawAddress(address) == address = "address"

Check(o) ==
    First(<<When(o.scheme # "exact" \/ o.network = "other", "x402/option-not-this-pairing"),
            When(o.extra = "malformed", "tvm/option-malformed"),
            When(o.extra = "object" /\ (o.method = "present" \/ o.flow = "upfront"),
                 "x402/option-not-this-pairing"),
            When(o.network # "tvm", "tvm/network-malformed"),
            When(~RawAddress(o.asset) \/ ~RawAddress(o.payTo), "tvm/option-malformed"),
            When(o.extra # "object" \/ o.sponsored # "true" \/ o.forwardTon = "2^120-1"
                    \/ (o.response # "absent" /\ ~RawAddress(o.response)),
                 "tvm/option-malformed"),
            When(o.amount # "paid" \/ o.timeout \notin {"seconds", "2^32-1"}, "tvm/option-malformed")>>)

Served(p, o) == Check(o)

(***************************************************************************)
(* Bags of cells: the bytes' layout, then the cells as TON makes them,     *)
(* each to the later ones, and the limits on both.                         *)
(***************************************************************************)
LayoutOf(bag) == bag \notin {"header-malformed", "two-roots", "span-wrong", "checksum-wrong"}

BagOf(bag) ==
    First(<<When(bag \in {"absent", "no-bag"}, "tvm/boc-malformed"),
            When(bag = "over-8-KiB", "tvm/boc-too-large"),
            When(~LayoutOf(bag), "tvm/boc-malformed")>>)

(* CellChecker: an exotic cell in its type's form.                          *)
CellMakes(bag) == bag \notin {"exotic-form-wrong", "depth-over-1024"}

CellsOf(bag) == CellMakes(bag) /\ bag \notin {"reference-back", "stored-hash-wrong", "cache-bit-wrong"}

RootIn(bag) ==
    First(<<When(~CellsOf(bag), "tvm/boc-malformed"),
            When(bag \in {"513-cells", "33-levels"}, "tvm/boc-too-large")>>)

BagForms ==
    {"no-bag", "over-8-KiB", "header-malformed", "two-roots", "span-wrong", "checksum-wrong", "exotic-form-wrong",
     "depth-over-1024", "reference-back", "stored-hash-wrong", "cache-bit-wrong", "513-cells", "33-levels"}

(***************************************************************************)
(* build.  The buyer gives its wallet's numbers, the Jetton wallet and the *)
(* value to attach, and the state init of a wallet not yet deployed: the   *)
(* fault of its bag or of what the bag holds.                              *)
(***************************************************************************)
Inits == {"init", "init-left-over", "init-libraries", "init-prefix-9", "init-of-another-wallet"}

Choices(p) ==
    OneOff(Choice("H1", "inputs"),
           ChoiceForms({"missing", "wallet-malformed", "seqno-2^32", "attach-2^120", "wallet-on-workchain-5",
                        "time-near-2^32", "attach-too-low"} \cup Inits \cup BagForms))
HonestChoices(p) == {Choice(h, given) : h \in Hashes, given \in {"inputs", "init"}}

(* The filter does not read the forward payload, nor the clock.             *)
BuildOnly(p, o, h) == o.forwardPayload # h \/ o.timeout = "2^32-1"

IsStateInit(init) == init # "init-left-over"
DeploysFrom(init) == init \notin {"init-libraries", "init-prefix-9", "init-of-another-wallet"}

BuiltTvm(o, c) ==
    First(<<When(c.h = "malformed", "x402/payload-malformed"),
            When(c.choice # "object" \/ c.given \in {"wallet-malformed", "seqno-2^32", "attach-2^120"},
                 "x402/option-malformed"),
            When(c.given \in BagForms, BagOf(c.given)),
            Chosen(c, Check(o)),
            When(BagOf(o.forwardPayload) # "ok", "tvm/carrier-mismatch"),
            When(c.given \in {"wallet-on-workchain-5", "time-near-2^32"} \/ o.timeout = "2^32-1",
                 "x402/option-malformed"),
            When(c.given = "attach-too-low", "tvm/value-too-low"),
            When(o.forwardPayload # c.h, "tvm/carrier-mismatch"),
            When(c.given \in BagForms, RootIn(c.given)),
            When(c.given \in Inits /\ ~(IsStateInit(c.given) /\ DeploysFrom(c.given)), "x402/option-malformed")>>)

Built(p, o, c) == First(<<FirstOption(c), When(c.given = "missing", "x402/input-missing"), BuiltTvm(o, c)>>)

(***************************************************************************)
(* Payments: the settlement message's bag, the message, and in its body    *)
(* the signed request, whose one action sends the transfer.                *)
(***************************************************************************)
HonestAnswer(p) == "64-bytes"
Answers(p, o) == {"64-bytes", "65-bytes", "not-hex"}

Completed(p, o, c, given) ==
    First(<<When(given # "64-bytes", "x402/signature-malformed"), WithIdentifier(c)>>)

Settlement(h) ==
    [boc |-> "bag", message |-> "sent", request |-> "signed", actions |-> "some", list |-> "one", mode |-> "3",
     out |-> "sent", transfer |-> "transfer", place |-> "reference", comment |-> h]

MessageForms ==
    {"external", "source-another-account", "destination-anycast", "destination-on-workchain-5", "value-long",
     "extra-currency", "flags-4", "init-left-over", "init-of-1025-reads", "body-exotic", "three-proofs", "short"}

SettlementForms ==
    [boc |-> {"absent"} \cup BagForms, message |-> MessageForms,
     request |-> {"another-op", "639-bits", "fields-short"}, actions |-> {"none", "more-in-the-request"},
     list |-> {"exotic", "two", "another-action"}, mode |-> {"3+16", "4", "64+128"}, out |-> MessageForms,
     transfer |-> {"another-op", "short"}, place |-> {"inline"},
     comment |-> {"H2", "H2-upper", "in-two-cells", "byte-order-mark", "not-UTF-8", "other"}]

Paid(p, o, c, given) == PaymentWith(c, o, Settlement(c.h))

(* The wallet's key signs the request, not the message around it.           *)
Signed(p) == DOMAIN Settlement("H1") \ {"boc", "message"}

Altered(p, paid) == Variants(paid, OptionForms, SettlementForms, Signed(p))

(* A source is the sender's, where the sender is known.                     *)
MsgAddress(m, known) ==
    /\ m \notin {"destination-anycast", "destination-on-workchain-5"}
    /\ known => m # "source-another-account"

Validates(m) == m \notin {"init-left-over", "init-of-1025-reads", "extra-currency", "body-exotic"}
MerkleDepth(m) == m # "three-proofs"

(* message_of: what TON's action phase would send.                          *)
MessageOf(m, known) ==
    /\ m \notin {"external", "short", "value-long", "flags-4"}
    /\ MsgAddress(m, known) /\ Validates(m) /\ MerkleDepth(m)

SendMessage(t) ==
    First(<<When(t.list = "exotic", "tvm/boc-malformed"), When(t.list # "one", "tvm/actions")>>)

(* Mode +16 is set aside.                                                   *)
SendsWith(t) == t.mode \in {"3", "3+16"}

JettonPayload(t) ==
    First(<<When(t.transfer # "transfer", "tvm/not-jetton-transfer"),
            When(t.place = "inline", "tvm/payload-not-lcp")>>)

(* The comment's digits may be in either case.                              *)
CommentHash(t) ==
    IF t.comment \in Hashes THEN t.comment
    ELSE IF t.comment = "H2-upper" THEN "H2" ELSE "tvm/payload-not-lcp"

CarrierIn(t) ==
    First(<<When(~MessageOf(t.message, FALSE), "tvm/boc-malformed"),
            When(t.request # "signed", "tvm/not-w5-signed"),
            When(t.actions # "some", "tvm/actions"),
            SendMessage(t),
            When(~SendsWith(t) \/ ~MessageOf(t.out, TRUE), "tvm/not-jetton-transfer"),
            JettonPayload(t),
            CommentHash(t)>>)

BoundTvm(o, t) ==
    First(<<When(t.boc = "absent", "x402/payload-malformed"),
            BagOf(t.boc),
            When(BagOf(o.forwardPayload) # "ok", "tvm/carrier-mismatch"),
            RootIn(t.boc),
            When(CarrierIn(t) \notin Hashes, CarrierIn(t)),
            When(o.forwardPayload # t.comment, "tvm/carrier-mismatch"),
            CarrierIn(t)>>)

Bound(p, paid) ==
    First(<<PresentedWith(paid, Check(paid.accepted)), BoundTvm(paid.accepted, paid.payload)>>)

Told(p, paid) == Broadcaster(paid, "payee", ShapeCodes)

INSTANCE Payment
================================================================================
