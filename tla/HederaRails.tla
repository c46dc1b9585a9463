------------------------------- MODULE HederaRails -------------------------------
(***************************************************************************)
(* The x402 pairings on Hedera (x402_exact_hedera.py and the wire of       *)
(* _hedera_proto.py): a transfer's memo is the hash's LCP string, inside   *)
(* the body the payer signs; a transfer executor's authorization carries   *)
(* no hash, and the one read is the unsigned one the payment echoes.       *)
(***************************************************************************)
EXTENDS X402

CONSTANTS None, Hashes

VARIABLES stage, pairing, option, choice, payment, form, served, built, answer, told

Exact == "x402/exact/hedera"
Executor == "x402/exact/hedera/transfer-executor"
Pairings == {Exact, Executor}
PublicProof(p) == p = Exact

(***************************************************************************)
(* Options.                                                                *)
(***************************************************************************)
HonestOptions(p) ==
    {[scheme |-> "exact", network |-> "hedera", asset |-> asset, payTo |-> "entity", amount |-> "paid",
      timeout |-> "seconds", extra |-> "object", feePayer |-> "entity", executors |-> "entities",
      method |-> IF p = Executor THEN "transferExecutor" ELSE "absent"] : asset \in {"hbar", "token"}}

OptionForms ==
    [scheme |-> {"upto"}, network |-> {"unknown", "other"}, asset |-> {"malformed"},
     payTo |-> {"malformed", "other"}, amount |-> {"zero", "2^63"},
     timeout |-> {"malformed", "2^53-1"}, extra |-> {"malformed"}, feePayer |-> {"malformed", "other"},
     executors |-> {"none", "malformed", "17"},
     method |-> {"absent", "null", "cryptoTransfer", "transferExecutor", "other"}]

Options(p) == UNION {OneOff(o, OptionForms) : o \in HonestOptions(p)}

OnHedera(o) == o.scheme = "exact" /\ o.network \in {"hedera", "unknown"}

Named(o) ==
    /\ o.network = "hedera"
    /\ o.extra = "object"
    /\ "malformed" \notin {o.asset, o.payTo}

Servable(o) == Named(o) /\ o.amount = "paid" /\ o.timeout # "malformed"

(* A null method is a value; an absent one is cryptoTransfer.               *)
MethodOf(o) == IF o.extra = "object" THEN o.method ELSE "absent"

ExecutorsOf(o) == o.extra = "object" /\ o.executors = "entities"

CheckExact(o) ==
    First(<<When(~OnHedera(o) \/ MethodOf(o) = "transferExecutor", "none"),
            When(MethodOf(o) \notin {"absent", "cryptoTransfer"}, "hedera/option-malformed"),
            When(~Servable(o) \/ o.feePayer = "malformed", "hedera/option-malformed")>>)

CheckExecutor(o) ==
    First(<<When(~OnHedera(o) \/ MethodOf(o) \in {"absent", "cryptoTransfer"}, "none"),
            When(MethodOf(o) # "transferExecutor", "hedera/option-malformed"),
            When(~Servable(o) \/ ~ExecutorsOf(o), "hedera/option-malformed")>>)

Served(p, o) == IF p = Exact THEN CheckExact(o) ELSE CheckExecutor(o)

(***************************************************************************)
(* build.                                                                  *)
(***************************************************************************)
Choices(p) == OneOff(Choice("H1", "inputs"), ChoiceForms({"missing", "malformed"}))
HonestChoices(p) == {Choice(h, "inputs") : h \in Hashes}

(* The filter takes any safe timeout, and the executor's build needs the    *)
(* sum of it and the time to be safe.                                       *)
BuildOnly(p, o, h) == p = Executor /\ o.timeout = "2^53-1"

ValidBuildInputs(c) == When(c.given = "malformed", "hedera/option-malformed")

ExactBuilt(o, c) ==
    First(<<When(c.h = "malformed", "x402/payload-malformed"),
            When(c.choice # "object", "hedera/option-malformed"),
            ValidBuildInputs(c),
            Chosen(c, CheckExact(o))>>)

ExecutorBuilt(o, c) ==
    First(<<When(c.h = "malformed", "x402/payload-malformed"),
            When(c.choice # "object" \/ c.given = "malformed", "hedera/option-malformed"),
            Chosen(c, CheckExecutor(o)),
            When(o.timeout = "2^53-1", "hedera/option-malformed")>>)

(* The gate gives the executor's time; the buyer, the transfer's inputs.    *)
Built(p, o, c) ==
    First(<<FirstOption(c),
            When(p = Exact /\ c.given = "missing", "x402/input-missing"),
            IF p = Exact THEN ExactBuilt(o, c) ELSE ExecutorBuilt(o, c)>>)

(***************************************************************************)
(* Payments: a key and its signature of the body, or an authorization.     *)
(***************************************************************************)
HonestAnswer(p) ==
    IF p = Exact THEN [key |-> "key", signature |-> "64-bytes"]
    ELSE [payer |-> "entity", executor |-> "offered", authorization |-> "hex"]

AnswerForms(p) ==
    IF p = Exact THEN [key |-> {"absent", "short"}, signature |-> {"absent", "short"}]
    ELSE [payer |-> {"absent", "malformed"}, executor |-> {"absent", "malformed", "other"},
          authorization |-> {"absent", "malformed", "long"}]

Answers(p, o) == OneOff(HonestAnswer(p), AnswerForms(p))

CompleteWith(given) == When("short" \in {given.key, given.signature}, "hedera/tx-malformed")

ExecutorPayload(t) ==
    When(\/ t.payer \in {"absent", "malformed"} \/ t.executor \in {"absent", "malformed"}
         \/ t.authorization # "hex", "hedera/executor-malformed")

ExecutorCompleted(given) ==
    First(<<ExecutorPayload(given),
            When(given.executor # "offered", "hedera/executor-not-offered")>>)

Completed(p, o, c, given) ==
    First(<<When(\E m \in DOMAIN given : given[m] = "absent", "x402/signature-malformed"),
            IF p = Exact THEN CompleteWith(given) ELSE ExecutorCompleted(given),
            WithIdentifier(c)>>)

(* The body, alone or in a list of transactions, of the one memo.           *)
WrittenBody(h) == [transaction |-> "wire", list |-> "one", id |-> "id", memo |-> h]

Paid(p, o, c, given) == PaymentWith(c, o, IF p = Exact THEN WrittenBody(c.h) ELSE given)

PayloadForms ==
    [transaction |-> {"absent", "malformed", "field-repeated", "field-unterminated", "too-large", "deprecated"},
     list |-> {"same", "empty", "17", "other-ids", "other-memos"}, id |-> {"malformed", "alias"},
     memo |-> {"empty", "H2", "H2-upper", "other", "long"},
     payer |-> {"malformed", "other"}, executor |-> {"malformed", "other"},
     authorization |-> {"malformed", "long", "other"}]

(* The signature covers each body of a list, and every node's must be the   *)
(* payer's; the list itself is unsigned.                                    *)
Signed(p) ==
    IF p = Exact THEN {"transaction", "id", "memo"} ELSE {"payer", "executor", "authorization"}

Altered(p, paid) == Variants(paid, OptionForms, PayloadForms, Signed(p))

AccountOf(t) == t.id = "alias"

BodyOf(t) == When(t.id = "malformed" \/ AccountOf(t) \/ t.memo = "long", "hedera/tx-malformed")

TransactionOf(t) ==
    First(<<When(t.transaction = "deprecated", "hedera/deprecated-fields"), BodyOf(t)>>)

(* A field that must appear once does, and a varint ends within ten bytes.  *)
ReadsFields(t) == t.transaction \notin {"field-repeated", "field-unterminated"}

(* Every body of a list shares the id and the memo.                         *)
DecodedTx(t) ==
    First(<<When(t.transaction = "too-large", "hedera/tx-too-large"),
            When(~ReadsFields(t) \/ t.list \in {"empty", "17"}, "hedera/tx-malformed"),
            TransactionOf(t),
            When(t.list \in {"other-ids", "other-memos"}, "hedera/list-inconsistent")>>)

(* from_lcp_string reads the hash's digits in either case.                  *)
FromLcpString(memo) ==
    CASE memo \in Hashes -> memo
      [] memo = "H2-upper" -> "H2"
      [] OTHER -> "hedera/memo-not-lcp"

ExactBound(t) ==
    First(<<When(t.transaction \in {"absent", "malformed"}, "hedera/tx-malformed"),
            DecodedTx(t),
            When(t.memo = "empty", "hedera/no-memo"),
            FromLcpString(t.memo)>>)

ExecutorBound(paid) ==
    First(<<ExecutorPayload(paid.payload),
            When(LegalContextOf(paid) # "ok", "hedera/no-legal-context"),
            paid.envelope.context>>)

Bound(p, paid) ==
    First(<<PresentedWith(paid, Served(p, paid.accepted)),
            IF p = Exact THEN ExactBound(paid.payload) ELSE ExecutorBound(paid)>>)

Told(p, paid) == Broadcaster(paid, "payee", ShapeCodes)

INSTANCE Payment
================================================================================
