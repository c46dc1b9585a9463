-------------------------------- MODULE EvmRails --------------------------------
(***************************************************************************)
(* The x402 pairings on EVM (x402_exact_eip155_eip3009.py, x402_evm.py and *)
(* the typed data of _evm.py): where each puts the hash, and how bound     *)
(* reads it back.  EIP-3009 and Permit2 carry it as the signed nonce; the  *)
(* escrow's auth-capture as the salt its signed nonce commits to, or as    *)
(* the salt's own preimage when the option binds an authorizer or a        *)
(* policy; ERC-7710 in the leaf delegation's salt, or unsigned.            *)
(***************************************************************************)
EXTENDS X402, TLC

CONSTANTS None, Hashes

VARIABLES stage, pairing, option, choice, payment, form, served, built, answer, told

ExactEip3009 == "x402/exact/eip155/eip3009"
ExactPermit2 == "x402/exact/eip155/permit2"
UptoPermit2 == "x402/upto/eip155/permit2"
ExactErc7710 == "x402/exact/eip155/erc7710"
ExactErc7710Salt == "x402/exact/eip155/erc7710/salt"
CaptureEip3009 == "x402/auth-capture/eip155/eip3009"
CapturePermit2 == "x402/auth-capture/eip155/permit2"

Captures == {CaptureEip3009, CapturePermit2}
Delegations == {ExactErc7710, ExactErc7710Salt}
Permits == {ExactPermit2, UptoPermit2}
Pairings == Captures \cup Delegations \cup Permits \cup {ExactEip3009}

Scheme(p) ==
    IF p \in Captures THEN "auth-capture" ELSE IF p = UptoPermit2 THEN "upto" ELSE "exact"

(* A payment under ERC-7710's unsigned level proves no hash.                *)
PublicProof(p) == p # ExactErc7710

(***************************************************************************)
(* Options.                                                                *)
(***************************************************************************)
Method(p) ==
    IF p \in {ExactEip3009, CaptureEip3009} THEN "eip3009"
    ELSE IF p \in Delegations THEN "erc7710" ELSE "permit2"

HonestOption(p) ==
    [scheme |-> Scheme(p), network |-> "listed", asset |-> "address", payTo |-> "address",
     amount |-> "paid", timeout |-> "seconds", extra |-> "object", method |-> Method(p),
     flow |-> "absent", name |-> "named", version |-> "named", facilitator |-> "address",
     escrow |-> "absent", autoCapture |-> "absent", captureAuthorizer |-> "address",
     feeRecipient |-> "address", receiverAuthorizer |-> "absent", policy |-> "absent",
     captureDeadline |-> "uint48", refundDeadline |-> "uint48", minFeeBps |-> "uint16",
     maxFeeBps |-> "uint16"]

(* An escrow's option that binds an authorizer, and one its charge settles. *)
HonestOptions(p) ==
    {HonestOption(p)} \cup
    (IF p \in Captures
     THEN {[HonestOption(p) EXCEPT !.receiverAuthorizer = "address"],
           [HonestOption(p) EXCEPT !.receiverAuthorizer = "address", !.flow = "authorization"]}
     ELSE {})

OptionForms ==
    LET Address == {"address", "absent", "malformed"} IN
    [scheme |-> {"exact", "upto", "auth-capture", "other"},
     network |-> {"unlisted", "other"}, asset |-> {"malformed"}, payTo |-> {"malformed", "other"},
     amount |-> {"zero", "2^120", "2^256"}, timeout |-> {"malformed", "2^48"},
     extra |-> {"absent", "malformed"}, method |-> {"absent", "eip3009", "permit2", "erc7710", "other"},
     flow |-> {"authorization", "upfront", "escrow", "other"},
     name |-> {"empty", "absent"}, version |-> {"empty", "absent"}, facilitator |-> {"malformed"},
     escrow |-> {"v1-1", "v1-0", "other"}, autoCapture |-> {"true"},
     captureAuthorizer |-> Address, feeRecipient |-> Address,
     receiverAuthorizer |-> Address \cup {"zero", "other"}, policy |-> Address \cup {"zero"},
     captureDeadline |-> {"absent", "wide"}, refundDeadline |-> {"absent", "wide"},
     minFeeBps |-> {"absent", "wide"}, maxFeeBps |-> {"absent", "wide"}]

Extra(o, member) == IF o.extra = "object" THEN o[member] ELSE "absent"

Places(o) == o.network # "other" /\ {o.asset, o.payTo} \cap {"malformed"} = {}

(* A positive amount below 2^256, and a positive time bound.                *)
Amount(o) == o.amount \in {"paid", "2^120"}
Timeout(o) == o.timeout \in {"seconds", "2^48"}

(* The EIP-3009 exact filter.                                               *)
PassesEip3009(o) ==
    /\ o.scheme = "exact"
    /\ o.network # "other"
    /\ o.extra # "malformed"
    /\ Extra(o, "method") \in {"absent", "eip3009"}
    /\ Extra(o, "flow") \in {"absent", "authorization", "upfront"}

PayableEip3009(o) ==
    /\ Extra(o, "name") = "named" /\ Extra(o, "version") = "named"
    /\ {o.asset, o.payTo} \cap {"malformed"} = {}
    /\ Amount(o) /\ Timeout(o)

RequiredTerms ==
    {"captureAuthorizer", "captureDeadline", "refundDeadline", "feeRecipient", "minFeeBps",
     "maxFeeBps", "name", "version"}

(* option_filter: the pairing an option names, a refusal, or "none".        *)
NamedExact(o) ==
    IF Extra(o, "method") \in {"absent", "eip3009"}
    THEN IF PassesEip3009(o) THEN ExactEip3009 ELSE "none"
    ELSE First(<<When(~Places(o), "none"),
                 When(Extra(o, "flow") \notin {"absent", "authorization", "upfront"}, "none"),
                 When(o.method = "permit2", ExactPermit2),
                 When(o.method = "erc7710", ExactErc7710),
                 "none">>)

NamedCapture(o) ==
    First(<<When(~Places(o), "none"),
            When(\E k \in RequiredTerms : Extra(o, k) = "absent", "x402/option-malformed"),
            When(Extra(o, "escrow") = "other", "x402/escrow-not-canonical"),
            When(Extra(o, "flow") \notin {"absent", "escrow", "authorization"}, "x402/flow-not-carried"),
            When(Extra(o, "autoCapture") = "true", "x402/flow-not-carried"),
            When(Extra(o, "method") \in {"absent", "eip3009"}, CaptureEip3009),
            When(Extra(o, "method") = "permit2", CapturePermit2),
            "none">>)

Named(o) ==
    First(<<When(o.extra = "malformed", "none"),
            CASE o.scheme = "exact" -> NamedExact(o)
              [] o.scheme = "upto" ->
                    First(<<When(~Places(o), "none"),
                            When(Extra(o, "facilitator") # "address", "x402/facilitator-missing"),
                            UptoPermit2>>)
              [] o.scheme = "auth-capture" -> NamedCapture(o)
              [] OTHER -> "none">>)

(* The addresses absent or present, zero when absent.                       *)
OrZero(o, member) == IF o[member] = "absent" THEN "zero" ELSE o[member]

(* The escrow terms an option fixes.                                        *)
Terms(o) ==
    /\ o.captureAuthorizer = "address" /\ o.feeRecipient = "address"
    /\ o.receiverAuthorizer # "malformed" /\ o.policy # "malformed"
    /\ o.captureDeadline = "uint48" /\ o.refundDeadline = "uint48"
    /\ o.amount # "2^120"
    /\ o.minFeeBps = "uint16" /\ o.maxFeeBps = "uint16"
    /\ o.flow = "authorization" => OrZero(o, "receiverAuthorizer") # "zero"

(* The option binds the salt to an authorizer or a policy.                  *)
Binds(o) == \E k \in {"receiverAuthorizer", "policy"} : OrZero(o, k) # "zero"

Payable(p, o) ==
    /\ Amount(o) /\ Timeout(o)
    /\ p \in Captures => /\ o.name = "named" /\ o.version = "named"
                         /\ o.timeout # "2^48"
                         /\ Terms(o)

OptionPairing(p) == IF p = ExactErc7710Salt THEN ExactErc7710 ELSE p

ServedAs(p, o, named) ==
    CASE named = OptionPairing(p) -> When(~Payable(p, o), "x402/option-malformed")
      [] named \notin Pairings /\ o.scheme = Scheme(p) -> named
      [] OTHER -> "none"

(* The pairing's option filter.                                             *)
Served(p, o) ==
    IF p = ExactEip3009
    THEN First(<<When(~PassesEip3009(o), "none"), When(~PayableEip3009(o), "x402/option-malformed")>>)
    ELSE ServedAs(p, o, Named(o))

(***************************************************************************)
(* Payments.  A digest is named by what it digests.                        *)
(***************************************************************************)
Commitment(o, h) == ToString(<<OrZero(o, "receiverAuthorizer"), OrZero(o, "policy"), h>>)

Salt(o, h) == IF Binds(o) THEN Commitment(o, h) ELSE h

(* payment_hash of the option's terms with payer zero; it digests neither   *)
(* the authorizer nor the policy, which the salt commits to.                *)
SignatureNonce(o, salt, expiry) ==
    ToString(<<o.network, IF o.escrow = "v1-0" THEN "v1-0" ELSE "v1-1", o.captureAuthorizer, o.payTo,
               o.asset, o.amount, expiry, o.captureDeadline, o.refundDeadline, o.minFeeBps,
               o.maxFeeBps, o.feeRecipient, salt>>)

(* No fault of an option is left to build.                                  *)
BuildOnly(p, o, h) == FALSE

(* What every build reads first: H, then the choice's payer and time, then  *)
(* its document and option.  An expiry is a uint48 for the escrow.          *)
ChoiceOf(p, o, c) ==
    First(<<When(c.h = "malformed", "x402/payload-malformed"),
            When(c.choice # "object", "x402/not-v2"),
            When(c.given = "malformed", "x402/option-malformed"),
            Chosen(c, Served(p, o))>>)

Eip3009Built(o, c) == ChoiceOf(ExactEip3009, o, c)

Permit2Built(p, o, c) == ChoiceOf(p, o, c)

(* The salt level's options are the unsigned level's.                       *)
Erc7710Built(o, c) == ChoiceOf(ExactErc7710, o, c)

CaptureBuilt(p, o, c) ==
    First(<<ChoiceOf(p, o, c), When(c.given = "late", "x402/option-malformed")>>)

Built(p, o, c) ==
    First(<<FirstOption(c),
            CASE p = ExactEip3009 -> Eip3009Built(o, c)
              [] p \in Permits -> Permit2Built(p, o, c)
              [] p \in Delegations -> Erc7710Built(o, c)
              [] p \in Captures -> CaptureBuilt(p, o, c)>>)

Options(p) == UNION {OneOff(o, OptionForms) : o \in HonestOptions(p)}
(* The choice gives the payer's address and the time.                       *)
Choices(p) == OneOff(Choice("H1", "now"), ChoiceForms({"malformed", "late"}))
HonestChoices(p) == {Choice(h, "now") : h \in Hashes}

(* What the signer hands back: a signature, or a delegation.  No reference  *)
(* manager is deployed on an unlisted chain.                                *)
HonestAnswer(p) ==
    IF p \in Delegations
    THEN [manager |-> "reference", delegator |-> "address", delegation |-> "salted"]
    ELSE [signature |-> "signed"]

AnswerForms(p) ==
    IF p \in Delegations
    THEN [manager |-> {"other", "malformed"}, delegator |-> {"malformed"},
          delegation |-> {"malformed", "undecodable", "empty", "salted-H2"}]
    ELSE [signature |-> {"malformed", "short"}]

Erc7710Completed(given) ==
    First(<<When("malformed" \in {given.manager, given.delegator}, "x402/payload-malformed"),
            When(given.delegation = "malformed", "x402/permission-context-malformed")>>)

SignatureCompleted(given) == When(given.signature # "signed", "x402/signature-malformed")

Completed(p, o, c, given) ==
    First(<<IF p \in Delegations THEN Erc7710Completed(given) ELSE SignatureCompleted(given),
            WithIdentifier(c)>>)

Answers(p, o) ==
    {a \in OneOff(HonestAnswer(p), AnswerForms(p)) :
        p = ExactErc7710Salt /\ o.network = "unlisted" => a.manager # "reference"}

(* The salt of the leaf the payer's wallet signed.                          *)
Leaf(h, delegation) ==
    CASE delegation = "salted" -> h
      [] delegation = "salted-H2" -> "H2"
      [] OTHER -> delegation

Eip3009Payload(h) == [signature |-> "signed", nonce |-> h, terms |-> "strings"]

Permit2Payload(p, h) ==
    [signature |-> "signed", nonce |-> h, terms |-> "strings",
     spender |-> p, facilitator |-> IF p = UptoPermit2 THEN "address" ELSE "absent"]

Erc7710Payload(h, given) ==
    [manager |-> given.manager, delegator |-> given.delegator, leaf |-> Leaf(h, given.delegation)]

CapturePayload(o, h) ==
    [signature |-> "signed", terms |-> "strings", from |-> "payer", expiry |-> "uint48",
     salt |-> Salt(o, h), saltNonce |-> IF Binds(o) THEN h ELSE "absent",
     nonce |-> SignatureNonce(o, Salt(o, h), "uint48")]

Payload(p, o, h, given) ==
    CASE p = ExactEip3009 -> Eip3009Payload(h)
      [] p \in Permits -> Permit2Payload(p, h)
      [] p \in Delegations -> Erc7710Payload(h, given)
      [] p \in Captures -> CapturePayload(o, h)

Paid(p, o, c, given) == PaymentWith(c, o, Payload(p, o, c.h, given))

PayloadForms ==
    LET Hash == {"absent", "malformed", "H1", "H2"} IN
    [signature |-> {"malformed", "short"}, nonce |-> Hash, terms |-> {"malformed"},
     spender |-> {ExactPermit2, UptoPermit2, "other"}, facilitator |-> {"absent", "address"},
     from |-> {"malformed"}, expiry |-> {"malformed", "other", "2^48"}, salt |-> Hash,
     saltNonce |-> Hash, manager |-> {"other", "malformed"}, delegator |-> {"malformed"},
     leaf |-> Hash \cup {"undecodable", "empty"}]

(* The payload's members the payer's signature covers: the typed data's, or *)
(* the delegation's.  The salt is covered only through the nonce, the       *)
(* saltNonce never.                                                         *)
Eip3009Signed == {"signature", "nonce", "terms", "from", "expiry"}
Permit2Signed == {"signature", "nonce", "terms", "from", "expiry", "spender", "facilitator"}
DelegationSigned == {"manager", "leaf"}

Signed(p) ==
    IF p \in Delegations THEN DelegationSigned
    ELSE IF Method(p) = "eip3009" THEN Eip3009Signed ELSE Permit2Signed

Altered(p, paid) == Variants(paid, OptionForms, PayloadForms, Signed(p))

Hashlike(value) == value \notin {"absent", "malformed"}

Erc7710Presented(payload) ==
    When("malformed" \in {payload.manager, payload.delegator} \/ ~Hashlike(payload.leaf),
         "x402/payload-malformed")

(* The unsigned level reads the legal context the payment echoes.           *)
Erc7710Bound(paid) ==
    First(<<Erc7710Presented(paid.payload),
            When(LegalContextOf(paid) # "ok", "x402/no-legal-context"),
            paid.envelope.context>>)

IsReferenceManager(manager, network) == manager = "reference" /\ network = "listed"

DecodedContext(leaf) == When(leaf = "undecodable", "x402/permission-context-malformed")

Erc7710SaltBound(o, payload) ==
    First(<<Erc7710Presented(payload),
            When(~IsReferenceManager(payload.manager, o.network), "x402/manager-not-reference"),
            DecodedContext(payload.leaf),
            When(payload.leaf = "empty", "x402/delegation-empty"),
            payload.leaf>>)

Eip3009Bound(payload) ==
    First(<<When(payload.terms # "strings" \/ payload.nonce = "absent", "x402/payload-malformed"),
            When(payload.signature = "malformed", "x402/signature-malformed"),
            When(~Hashlike(payload.nonce), "x402/payload-malformed"),
            payload.nonce>>)

Permit2Bound(p, payload) ==
    First(<<When(payload.signature = "malformed", "x402/signature-malformed"),
            When(payload.terms # "strings" \/ payload.nonce = "absent", "x402/payload-malformed"),
            When(payload.spender # p, "x402/spender-not-proxy"),
            When(p = UptoPermit2 /\ payload.facilitator = "absent", "x402/payload-malformed"),
            When(~Hashlike(payload.nonce), "x402/nonce-malformed"),
            payload.nonce>>)

(* Mutant of CaptureBound: the salt is read without the nonce it makes.   *)
CaptureBoundUnsigned(o, payload) ==
    First(<<When(payload.signature = "malformed", "x402/signature-malformed"),
            When(~Hashlike(payload.salt), "x402/salt-malformed"),
            When(Binds(o) /\ ~Hashlike(payload.saltNonce), "x402/salt-malformed"),
            When(Binds(o) /\ payload.salt # Commitment(o, payload.saltNonce), "x402/salt-not-bound"),
            When(~Binds(o) /\ payload.saltNonce # "absent", "x402/salt-not-bound"),
            When(payload.terms # "strings" \/ payload.nonce = "absent" \/ payload.from = "malformed"
                 \/ payload.expiry \in {"malformed", "2^48"}, "x402/payload-malformed"),
            IF Binds(o) THEN payload.saltNonce ELSE payload.salt>>)

(* The salt must be the commitment of the saltNonce where the option binds, *)
(* and stand alone where it does not; the signed nonce must be the one      *)
(* rebuilt from the option and the salt.                                    *)
CaptureBound(o, payload) ==
    First(<<When(payload.signature = "malformed", "x402/signature-malformed"),
            When(~Hashlike(payload.salt), "x402/salt-malformed"),
            When(Binds(o) /\ ~Hashlike(payload.saltNonce), "x402/salt-malformed"),
            When(Binds(o) /\ payload.salt # Commitment(o, payload.saltNonce), "x402/salt-not-bound"),
            When(~Binds(o) /\ payload.saltNonce # "absent", "x402/salt-not-bound"),
            When(payload.terms # "strings" \/ payload.nonce = "absent" \/ payload.from = "malformed"
                 \/ payload.expiry \in {"malformed", "2^48"}, "x402/payload-malformed"),
            When(payload.nonce # SignatureNonce(o, payload.salt, payload.expiry), "x402/nonce-not-payment"),
            IF Binds(o) THEN payload.saltNonce ELSE payload.salt>>)

Bound(p, paid) ==
    First(<<When(p = ExactEip3009 /\ paid.envelope.version # "2", "x402/not-v2"),
            When(p = ExactEip3009 /\ paid.envelope.refused # "absent", "x402/payload-malformed"),
            PresentedWith(paid, Served(p, paid.accepted)),
            CASE p = ExactEip3009 -> Eip3009Bound(paid.payload)
              [] p \in Permits -> Permit2Bound(p, paid.payload)
              [] p = ExactErc7710 -> Erc7710Bound(paid)
              [] p = ExactErc7710Salt -> Erc7710SaltBound(paid.accepted, paid.payload)
              [] p \in Captures -> CaptureBound(paid.accepted, paid.payload)>>)

Told(p, paid) == 
    Broadcaster(paid, "payee",
                [ShapeCodes EXCEPT !.refused = IF p = ExactEip3009 THEN "x402/payload-malformed" ELSE "ok"])

INSTANCE Payment
================================================================================
