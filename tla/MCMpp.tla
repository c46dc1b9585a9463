--------------------------------- MODULE MCMpp ---------------------------------
(***************************************************************************)
(* MPP challenges for TLC: of every method a request that offers, and it    *)
(* with every one and every two of its members in another form; and pairs   *)
(* of challenges with their ids, opaques, sizes and realms changed.         *)
(***************************************************************************)
EXTENDS Mpp

FormsRead ==
    [k \in {"r.amount", "r.currency", "r.recipient", "r.externalId", "r.subscriptionExpires", "d.chainId",
            "d.permit2Address", "d.permit2Contract", "d.escrowContract", "d.accessKey", "d.operator",
            "d.channelProgram", "d.recentSlot", "d.invoiceId", "d.destinationTag", "d.sourceTag", "d.originNetwork",
            "d.metadata", "d.contractAddress", "d.contractName", "d.feePayerKey", "d.decimals", "d.tokenProgram",
            "i.currency", "i.expiry", "i.paymentHash", "paymentHash", "splits.accounts", "methodDetails", "jcs",
            "u.profile"} |-> {"absent", "good", "bad"}]
    @@ [k \in {"d.channelId", "d.sessionSnapshot", "d.memo", "d.memos", "r.description", "u.other", "d.splits",
               "d.credentialTypes", "d.supportedModes", "i.d"} |-> {"absent", "good"}]
    @@ [k \in {"d.feePayer", "d.confidential"} |-> {"absent", "bad", "true"}]
    @@ "d.network" :> {"absent", "good", "bad", "localnet"} @@ "d.recentBlockhash" :> {"absent", "good", "bad"}
        @@ "d.sessionProtocol" :> {"absent", "bad", "v1", "v2"}
        @@ "d.voucherSigner" :> {"absent", "bad", "client", "operator"}
        @@ "i" :> {"absent", "good", "bad", "undecodable"} @@ "i.h" :> {"good", "bad"}
        @@ "r.periodUnit" :> {"bad", "day", "week"} @@ "r.periodCount" :> {"bad", "good", "mid", "long"}
        @@ "r.channelId" :> {"absent", "empty", "good"} @@ "u.type" :> {"bad", "evm", "gateway", "solana", "stacks"}

Currencies == {"good", "sol", "issued", "bad", "absent"}

(* The members each method's check reads, with the form each has in the     *)
(* request varied.                                                          *)
Reads(good, absent, others) == others @@ [k \in good |-> "good"] @@ [k \in absent |-> "absent"]

Pay == {"r.amount", "r.currency", "r.recipient"}
Invoice == {"paymentHash", "i.h", "i.paymentHash", "i.currency", "i.expiry"}
SolanaOwn == {"r.externalId", "d.feePayer", "d.feePayerKey", "d.splits", "d.confidential", "d.recentBlockhash",
              "d.tokenProgram"}

Keys == {"mpp/charge/evm", "mpp/charge/tempo", "mpp/session/evm", "mpp/session/tempo", "mpp/subscription/tempo",
         "mpp/charge/lightning", "mpp/session/lightning", "mpp/charge/hedera", "mpp/session/hedera",
         "mpp/charge/solana", "mpp/session/solana", "mpp/charge/stellar", "mpp/charge/xrpl", "mpp/session/xrpl",
           "mpp/charge/nearintents",
         "mpp/charge/card", "mpp/charge/stripe", "mpp/subscription/stripe", "mpp/charge/usdc"}

BaseOf(key) ==
    CASE key = "mpp/charge/evm" ->
            Reads(Pay \cup {"d.credentialTypes", "d.splits", "d.chainId"}, {"d.permit2Address", "r.externalId"}, <<>>)
      [] key = "mpp/charge/tempo" ->
            Reads(Pay \cup {"d.splits"}, {"d.chainId", "d.memo", "d.supportedModes", "d.feePayer"}, <<>>)
      [] key = "mpp/session/evm" ->
            Reads(Pay \cup {"d.escrowContract", "d.chainId", "d.credentialTypes"},
                  {"d.channelId", "d.sessionSnapshot", "d.permit2Contract"}, <<>>)
      [] key = "mpp/session/tempo" ->
            Reads(Pay \cup {"d.escrowContract", "d.chainId"},
                  {"d.channelId", "d.sessionSnapshot", "d.sessionProtocol", "d.operator"}, <<>>)
      [] key = "mpp/subscription/tempo" ->
            Reads(Pay \cup {"d.accessKey", "r.subscriptionExpires", "d.chainId", "r.periodCount"}, {},
                  "r.periodUnit" :> "day")
      [] key = "mpp/charge/lightning" -> Reads(Invoice \cup {"i"}, {"i.d", "r.description", "d.network"}, <<>>)
      [] key = "mpp/session/lightning" -> Reads(Invoice, {"i", "i.d", "r.description", "d.network"}, <<>>)
      [] key = "mpp/charge/hedera" -> Reads(Pay \cup {"splits.accounts", "d.splits", "d.chainId"}, {}, <<>>)
      [] key = "mpp/session/hedera" -> Reads(Pay \cup {"d.escrowContract", "d.chainId"}, {"d.channelId"}, <<>>)
      [] key = "mpp/charge/solana" -> Reads(Pay \cup {"d.network", "d.decimals"}, SolanaOwn, <<>>)
      [] key = "mpp/session/solana" ->
            Reads(Pay \cup {"d.network", "d.channelProgram", "d.recentBlockhash", "d.recentSlot"},
                  {"d.channelId", "d.voucherSigner", "d.operator"}, <<>>)
      [] key = "mpp/charge/stellar" -> Reads(Pay \cup {"d.network"}, {"d.feePayer"}, <<>>)
      [] key = "mpp/charge/xrpl" ->
            Reads(Pay \cup {"d.network"}, {"d.invoiceId", "d.destinationTag", "d.sourceTag", "d.memos"}, <<>>)
      [] key = "mpp/session/xrpl" -> Reads(Pay \cup {"d.network"}, {"r.channelId", "d.channelId"}, <<>>)
      [] key = "mpp/charge/nearintents" -> Reads({"d.originNetwork"}, {"r.externalId"}, <<>>)
      [] key = "mpp/charge/card" -> Reads({}, {"r.externalId"}, <<>>)
      [] key \in {"mpp/charge/stripe", "mpp/subscription/stripe"} -> Reads({}, {"d.metadata"}, <<>>)
      [] key = "mpp/charge/usdc" ->
            Reads(Pay \cup {"d.chainId", "d.network", "d.contractAddress", "d.contractName", "jcs", "u.profile"},
                  SolanaOwn \cup {"u.other", "d.decimals"}, "u.type" :> "evm")

Base == [key \in Keys |-> BaseOf(key)]

Whole(m) == m @@ Reads({"methodDetails"}, Members \ {"methodDetails"}, <<>>)

Request(key, m, splits, types) ==
    [m |-> Whole(m), amount |-> 4, splits |-> IF m["d.splits"] = "good" THEN splits ELSE <<>>,
     types |-> IF "good" \in {m["d.credentialTypes"], m["d.supportedModes"]} THEN types ELSE <<>>]

Challenge(key, q, expires) ==
    [key |-> key, q |-> q, expires |-> expires, shape |-> TRUE, realm |-> "good", request |-> "good",
     opaque |-> [form |-> "absent", h |-> Absent, link |-> "absent", agreement |-> "absent"],
     id |-> [h |-> Absent, dot |-> FALSE, string |-> FALSE], size |-> "small"]

Splits == {<<1, 2>>, <<1, 3>>, <<0, 3>>, <<2, 3>>, <<1, 1, 1>>, <<>>}
TypesOf(key) ==
    IF key = "mpp/charge/tempo" THEN {<<"pull">>, <<"push">>, <<"pull", "push">>}
    ELSE IF key = "mpp/session/evm" THEN {<<"hash">>, <<"permit2", "hash">>, <<"transaction">>}
    ELSE IF key = "mpp/charge/evm"
    THEN {<<"permit2", "transaction", "authorization", "hash">>, <<"authorization">>, <<"permit2">>, <<"other">>}
    ELSE {<<>>}
Most(key) == CHOOSE t \in TypesOf(key) : \A u \in TypesOf(key) : Len(u) <= Len(t)

FormsOf(k) == IF k = "r.currency" THEN Currencies
              ELSE IF k = "r.amount" THEN FormsRead[k] \cup {"decimals", "wide"}
              ELSE IF k = "r.recipient" THEN FormsRead[k] \cup {"muxed", "none", "invoked"}
              ELSE IF k = "d.feePayerKey" THEN FormsRead[k] \cup {"invoked"} ELSE FormsRead[k]

(* ----------------------------------------------------------- challenges *)

One(key, size) ==
    [Challenge(key, Request(key, Whole([Base[key] EXCEPT !["r.amount"] = "good"]), <<1, 2>>,
                            Most(key)), "good") EXCEPT !.size = size]

ChallengeDocuments ==
    {<<One("mpp/charge/evm", s), One("mpp/charge/evm", "small")>> : s \in {"small", "edge", "padded"}}
    \cup {<<One("mpp/charge/evm", "small"), One("mpp/charge/evm", "small"), One("mpp/charge/evm", "small")>>}
    \cup {<<One(k, "small"), One(j, "small")>> : k, j \in {"mpp/subscription/tempo", "mpp/charge/tempo"}}

(* What reaches the buyer in a challenge's place: one of another agreement, *)
(* id, link, size, realm or request.                                        *)
ChallengeChanges(ch) ==
    {[ch EXCEPT !.opaque.h = h] : h \in Hashes \cup {Absent}}
    \cup {[ch EXCEPT !.opaque.h = h, !.id = challenge_id(h, d)] : h \in Hashes, d \in BOOLEAN}
    \cup {[ch EXCEPT !.opaque.link = l] : l \in {"absent", "https2", "other-scheme", "bad"}}
    \cup {[ch EXCEPT !.opaque.agreement = a] : a \in {"absent", "https", "https2", "other-scheme"}}
    \cup {[ch EXCEPT !.opaque.form = f] : f \in {"absent", "bad"}}
    \cup {[ch EXCEPT !.realm = "unencodable"], [ch EXCEPT !.request = "bad"], [ch EXCEPT !.shape = FALSE],
          [ch EXCEPT !.expires = "absent"], [ch EXCEPT !.id.string = FALSE], [ch EXCEPT !.size = "padded"]}

(* ------------------------------------------------------------- requests *)

Expires == {"absent", "good", "bad"}
SplitsOf(key) == IF key \in {"mpp/charge/evm", "mpp/charge/tempo", "mpp/charge/hedera"} THEN Splits ELSE {<<1, 2>>}

(* Every request of key with one member in another form, with every expires,*)
(* every list of splits and every list of types; and with two.              *)
Varied(key) ==
    LET base == Base[key]
        one == UNION {{[base EXCEPT ![j] = f] : f \in FormsOf(j)} : j \in DOMAIN base}
        two == UNION {{[base EXCEPT ![j] = f, ![k] = g] : f \in FormsOf(j), g \in FormsOf(k)} : j, k \in DOMAIN base}
    IN  (one \X Expires \X SplitsOf(key) \X TypesOf(key))
            \cup (one \X {"past", "far"} \X {<<1, 2>>} \X {Most(key)})
            \cup (two \X {"good"} \X {<<1, 2>>} \X {Most(key)})

RequestDocuments ==
    UNION {{<<Challenge(key, Request(key, Whole(v[1]), v[3], v[4]), v[2])>> : v \in Varied(key)} : key \in Keys}

(* The whole of the two.  A constant given in a cfg is evaluated at every   *)
(* use; this, once.                                                         *)
AllDocuments == ChallengeDocuments \cup RequestDocuments
MCDocuments == AllDocuments

ChangedRequests == {ch.q : ch \in UNION {ToSet(d) : d \in ChallengeDocuments}}
MCChanges(ch) == IF ch.q \in ChangedRequests THEN ChallengeChanges(ch) ELSE {}
AnyAgreement == {"absent", "https"}

(* A Hedera charge whose challenge has members that are not MPP's.          *)
HederaDocuments == {<<One("mpp/charge/hedera", s)>> : s \in {"small", "padded"}}
NoAgreement == {"absent"}
==============================================================================
