---------------------------------- MODULE Mpp ----------------------------------
(***************************************************************************)
(* One MPP payment at the level of its challenge: the seller checks and     *)
(* places a document of challenges, the buyer reads it, a buyer piece       *)
(* chooses (pieces/_mpp.py), the pairing's build holds the challenge, its   *)
(* complete echoes it, and bound holds the echo.  The document may be       *)
(* changed on its way, and the caller may change the challenge it chose     *)
(* between build and complete.                                              *)
(***************************************************************************)
EXTENDS MppChallenge

CONSTANTS
    Documents,          \* the sequences of challenges the seller may issue, unplaced
    Changes(_),         \* what a challenge may be changed to
    Links,              \* the links, or "absent", the seller places
    Agreements          \* the agreement URLs, or "absent", the seller places

ASSUME DocumentsAssumption == Documents \subseteq Seq(Challenges)
ASSUME PlacedAssumption == Links \subseteq Urls /\ Agreements \subseteq Urls

(* The pairings whose piece the buyer signs for, on its account's network.  *)
ConfirmOnly == {"mpp/charge/card", "mpp/charge/stripe", "mpp/subscription/stripe", "mpp/charge/nearintents"}

(* Those whose build writes the challenge's expires into what is signed.    *)
SignsExpires ==
    {"mpp/charge/evm/authorization", "mpp/charge/evm/permit2", "mpp/charge/tempo/memo", "mpp/charge/tempo/push",
     "mpp/charge/usdc/evm", "mpp/charge/stellar", "mpp/session/evm", "mpp/session/tempo"}

VARIABLES
    stage,      \* "issue", "placed", "read", "chosen", "request", "payment" or "done"
    doc,        \* the document
    issued,     \* the pairings each challenge was named for, as issued
    offer,      \* what read returned
    pairing,    \* the pairing the piece chose for
    mine,       \* the challenge it chose, the caller's own
    held,       \* the snapshot build holds
    echo,       \* the challenge the credential echoes
    code        \* the last refusal, or "none"

vars == <<stage, doc, issued, offer, pairing, mine, held, echo, code>>

Init ==
    /\ stage = "issue"
    /\ doc = <<>> /\ issued = <<>>
    /\ offer = Unread
    /\ pairing = "none" /\ mine = <<>> /\ held = <<>> /\ echo = <<>> /\ code = "none"

(* The seller checks each challenge, as issued, and issues those that offer *)
(* something.                                                               *)
Issue(d) ==
    /\ stage = "issue"
    /\ \E checked \in {[i \in DOMAIN d |-> check_challenge(d[i], FALSE, FALSE)]} :
          /\ \A i \in DOMAIN d : checked[i].code = "none"
          /\ issued' = [i \in DOMAIN d |-> checked[i].names]
    /\ doc' = d
    /\ stage' = "issued"
    /\ UNCHANGED <<offer, pairing, mine, held, echo, code>>

(* The seller's node writes the invoice of a challenge that has none: of    *)
(* its payment hash and currency, valid as long as it, without a d field.   *)
Invoiced(m) ==
    IF m["i"] # "absent" THEN m
    ELSE [m EXCEPT !["i"] = "good", !["i.h"] = "good", !["i.d"] = "absent", !["i.paymentHash"] = "good",
                   !["i.currency"] = "good", !["i.expiry"] = "good"]

(* The seller writes the LCP members and the id, and its node the invoice.  *)
Placed(ch, h, link, agreement) ==
    [ch EXCEPT !.opaque = [form |-> "map", h |-> h, link |-> link, agreement |-> agreement],
               !.id = challenge_id(h, ch.key # "mpp/subscription/tempo"),
               !.q.m = IF ch.key \in {"mpp/charge/lightning", "mpp/session/lightning"} THEN Invoiced(@) ELSE @]

Place(h, link, agreement) ==
    /\ stage = "issued"
    /\ doc' = [i \in DOMAIN doc |-> Placed(doc[i], h, link, agreement)]
    /\ stage' = "placed"
    /\ UNCHANGED <<issued, offer, pairing, mine, held, echo, code>>

(* One challenge reaches the buyer changed.                                 *)
Change(i, ch) ==
    /\ stage = "placed"
    /\ doc' = [doc EXCEPT ![i] = ch]
    /\ stage' = "changed"
    /\ UNCHANGED <<issued, offer, pairing, mine, held, echo, code>>

Read ==
    /\ stage \in {"placed", "changed"}
    /\ offer' = read(doc)
    /\ code' = offer'.code
    /\ stage' = IF offer'.code = "none" THEN "read" ELSE "done"
    /\ UNCHANGED <<doc, issued, pairing, mine, held, echo>>

(* The pairings whose challenge names no network to compare with the        *)
(* account's: a card's and Stripe's, which take any account, and those whose*)
(* invoice or Gateway sources are taken to be the account's.                *)
Unnetworked ==
    {"mpp/charge/card", "mpp/charge/stripe", "mpp/subscription/stripe", "mpp/charge/usdc/gateway",
     "mpp/charge/lightning", "mpp/session/lightning"}

(* The network a piece compares with the account's: Hedera's charge takes   *)
(* the account's where the challenge names none.                            *)
PieceNetwork(p, ch, account) ==
    IF p = "mpp/charge/hedera" THEN HederaNetwork(ch.q, account)
    ELSE IF p \in Unnetworked THEN account ELSE network(ch)

Offered(checked) == IF checked.code = "none" THEN checked.names ELSE {}
pairings_of_placed(ch) == Offered(check_challenge(ch, TRUE, TRUE))

Pays(p, ch, account) == p \in pairings_of_placed(ch) /\ PieceNetwork(p, ch, account) = account

(* The first challenge that offers p on the account's network.              *)
Choose(p, account) ==
    /\ stage = "read"
    /\ \E i \in DOMAIN offer.challenges :
          /\ Pays(p, offer.challenges[i], account)
          /\ \A k \in 1..(i - 1) : ~Pays(p, offer.challenges[k], account)
          /\ mine' = offer.challenges[i]
    /\ pairing' = p
    /\ stage' = "chosen"
    /\ UNCHANGED <<doc, issued, offer, held, echo, code>>

(* The member of the request that carries H, which the seller's server      *)
(* writes after placement, and the refusal of one that carries no H, or     *)
(* another.  The Lightning invoice is there once it is placed.              *)
CarrierCode(p) ==
    CASE p \in {"mpp/charge/solana", "mpp/charge/usdc/solana"} -> "svm/carrier-mismatch"
      [] p = "mpp/charge/stellar" -> "stellar/carrier-mismatch"
      [] p = "mpp/charge/xrpl" -> "xrpl/carrier-mismatch"
      [] p \in {"mpp/charge/lightning", "mpp/session/lightning"} -> "mpp/carrier-not-challenge"
      [] OTHER -> "none"

HasCarrier(p, q) ==
    CASE p \in {"mpp/charge/solana", "mpp/charge/usdc/solana"} -> Has(q, "r.externalId")
      [] p = "mpp/charge/stellar" -> q.m["r.recipient"] = "muxed"
      [] p = "mpp/charge/xrpl" -> Has(q, "d.invoiceId")
      [] OTHER -> TRUE

(* ours is whether what the carrier holds is this H.                        *)
CarrierFault(p, ch, ours) == IF ours /\ HasCarrier(p, ch.q) THEN "none" ELSE CarrierCode(p)

(* What a caller may fund an EVM session with, of what the challenge lists. *)
Fundings(ch) ==
    IF ch.key = "mpp/session/evm" /\ Has(ch.q, "d.credentialTypes") THEN ToSet(ch.q.types) ELSE {"hash"}

(* The payments whose typed data holds the challenge's expires, a uint256.  *)
TypesExpires(p, funding) ==
    \/ p \in {"mpp/charge/evm/authorization", "mpp/charge/evm/permit2", "mpp/charge/usdc/evm"}
    \/ p = "mpp/session/evm" /\ funding # "hash"

(* A program the message invokes that is its fee payer, or is paid sol, as  *)
(* the recipient or as a split's, which the recipient's form stands for.    *)
PaysProgram(q) ==
    \/ q.m["d.feePayer"] = "true" /\ q.m["d.feePayerKey"] = "invoked"
    \/ q.m["r.currency"] = "sol" /\ q.m["r.recipient"] = "invoked"

(* What is signed cannot hold a value of the challenge: "past" is before    *)
(* 1970, no uint256; "far", more ledgers of 5 seconds away than a u32.      *)
EncodingFault(p, ch, funding) ==
    IF p = "mpp/charge/usdc/evm" /\ ch.q.m["r.amount"] = "wide" THEN "evm/amount-malformed"
    ELSE IF TypesExpires(p, funding) /\ ch.expires = "past" THEN "evm/field-malformed"
    ELSE IF p = "mpp/charge/stellar" /\ ch.expires = "far" THEN "stellar/tx-malformed"
    ELSE IF p \in {"mpp/charge/solana", "mpp/charge/usdc/solana"} /\ PaysProgram(ch.q) THEN "svm/input-malformed"
    ELSE "none"

SigningFault(p, ch, ours, funding) ==
    IF p \in ConfirmOnly THEN "mpp/nothing-to-sign"
    ELSE IF p \in SignsExpires /\ ch.expires = "absent" THEN "mpp/expires-required"
    ELSE IF p = "mpp/charge/stellar" THEN Or(EncodingFault(p, ch, funding), CarrierFault(p, ch, ours))
    ELSE Or(CarrierFault(p, ch, ours), EncodingFault(p, ch, funding))

BuildFault(p, ch, ours, funding) == Or(chosen_for(ch, offer.h, p), SigningFault(p, ch, ours, funding))

Build(ours, funding) ==
    /\ stage = "chosen"
    /\ code' = BuildFault(pairing, mine, ours, funding)
    /\ held' = IF code' = "none" THEN challenge_snapshot(mine) ELSE held
    /\ stage' = IF code' = "none" THEN "request" ELSE "done"
    /\ UNCHANGED <<doc, issued, offer, pairing, mine, echo>>

(* The caller changes its own challenge while the payer signs.              *)
ChangeMine(ch) ==
    /\ stage = "request" /\ mine \in ToSet(offer.challenges)
    /\ mine' = ch
    /\ UNCHANGED <<stage, doc, issued, offer, pairing, held, echo, code>>

(* What the credential echoes: the snapshot, measured; the Hedera charge's  *)
(* piece writes the credential itself, of the caller's own challenge.       *)
EchoMine(p) == mine
EchoLast(p) == Last(offer.challenges)
Echo(p) == IF p = "mpp/charge/hedera" THEN mine ELSE held

measured(ch) == Within(ch.size, TRUE)

Complete ==
    /\ stage = "request"
    /\ echo' = Echo(pairing)
    /\ code' = IF pairing = "mpp/charge/hedera" \/ measured(echo') THEN "none" ELSE "mpp/credential-malformed"
    /\ stage' = IF code' = "none" THEN "payment" ELSE "done"
    /\ UNCHANGED <<doc, issued, offer, pairing, mine, held>>

(* bound's hold of the echoed challenge.                                    *)
Bound ==
    /\ stage = "payment"
    /\ code' = held_for(echo, TRUE, pairing)
    /\ stage' = "bound"
    /\ UNCHANGED <<doc, issued, offer, pairing, mine, held, echo>>

IssuedNames == UNION {issued[i] : i \in DOMAIN issued}
Named ==
    {"eip155:1", TEMPO_DEFAULT_CHAIN, TEMPO_V1_DEFAULT_CHAIN, "solana:mainnet", "xrpl:0", "hedera:mainnet",
     "stellar:pubnet", "stacks:1"}
Networks ==
    ({network(offer.challenges[i]) : i \in DOMAIN offer.challenges} \cap (Named \cup {"origin:1"}))
        \cup {"hedera:mainnet", "hedera:testnet"}

Next ==
    \/ \E d \in Documents : Issue(d)
    \/ \E h \in Hashes, link \in Links, agreement \in Agreements : Place(h, link, agreement)
    \/ \E i \in DOMAIN doc : \E ch \in Changes(doc[i]) \cap Challenges : Change(i, ch)
    \/ Read
    \/ \E p \in IssuedNames : \E account \in Networks : Choose(p, account)
    \/ stage = "chosen" /\ \E ours \in BOOLEAN, funding \in Fundings(mine) : Build(ours, funding)
    \/ stage = "request" /\ \E ch \in Changes(mine) \cap Challenges : ChangeMine(ch)
    \/ Complete
    \/ Bound

Spec == Init /\ [][Next]_vars

(***************************************************************************)
(* Properties.                                                             *)
(***************************************************************************)

(* What the seller was told a challenge offers is what the buyer finds in   *)
(* it once it is placed and nothing changed it: placing the LCP members,    *)
(* the id and the invoice takes no pairing away and adds none.              *)
OffersSame(i) == pairings_of_placed(doc[i]) = issued[i]

(* A challenge whose pairing the buyer signs for is one whose network reads,*)
(* but for Solana's localnet, which has no name, the Gateway, whose source  *)
(* is the buyer's, and Lightning: the second read of a request, params_of's,*)
(* refuses none the first took.                                             *)
NetworkReads(ch) ==
    LET signed == pairings_of_placed(ch) \ (ConfirmOnly \cup Unnetworked \cup {"mpp/charge/hedera"})
    IN  signed # {} /\ ch.q.m["d.network"] # "localnet" => network(ch) \in Named

(* A placed challenge offers what it was issued for, and names a network to *)
(* pay it on (check_challenge twice, and params_of).                        *)
PlacedOffersSame == stage = "placed" => \A i \in DOMAIN doc : OffersSame(i) /\ NetworkReads(doc[i])

(* One agreement: every challenge of an offer names the offer's hash and    *)
(* link, and the offer's agreement URL or none (read).                      *)
OneOffer ==
    \A i \in DOMAIN offer.challenges :
        /\ offer.challenges[i].opaque.h = offer.h
        /\ offer.challenges[i].opaque.link = offer.link
        /\ offer.challenges[i].opaque.agreement \in {"absent", offer.agreement}
        /\ challenge_id_h(offer.challenges[i]) = offer.h

(* A challenge over the size bound even without the members that are not MPP's. *)
Oversize(ch) == ~Within(challenge_snapshot(ch).size, FALSE)

(* Every transfer an EVM, Tempo or Hedera charge is split into, the         *)
(* recipient's remainder among them, is above zero, and they sum to the     *)
(* amount: nothing of the amount is lost or paid twice.                     *)
Transfers(p, q) ==
    IF p = "mpp/charge/hedera" THEN hedera_charge_legs(q) ELSE <<q.amount - SumOf(q.splits)>> \o q.splits

SplitsSum(p, q) ==
    p \in {"mpp/charge/evm/permit2", "mpp/charge/tempo/memo", "mpp/charge/tempo/push", "mpp/charge/hedera"} =>
        SumOf(Transfers(p, q)) = q.amount /\ q.amount - SumOf(q.splits) \in Nat \ {0}

(* What the filter leaves to build: a carrier without this H, and a value   *)
(* that what is signed cannot hold.                                         *)
LeftToBuild(p, ch) == {CarrierCode(p)} \cup {EncodingFault(p, ch, funding) : funding \in Fundings(ch)}

(* No piece chooses a challenge its pairing's build refuses, for anything   *)
(* but the challenge's size, the carrier of H that the seller's server      *)
(* writes after placement, an amount or expires that what is signed cannot  *)
(* hold, or a program paid as an account (mpp_charge_solana.py:136-137,     *)
(* mpp_charge_stellar.py:104-111, mpp_charge_xrpl.py:91-92,                 *)
(* lightning.py:317-318, _mpp_evm.py:53-59, _svm.py:453-470): the filter    *)
(* that names the pairings makes every other check of the challenge alone   *)
(* that build makes; and what build holds splits into payable transfers.    *)
ChosenBuilds ==
    /\ code \notin {"none", "mpp/nothing-to-sign"} /\ pairing # "none" /\ held = <<>> =>
            Oversize(mine) \/ code \in LeftToBuild(pairing, mine)
    /\ stage = "request" => SplitsSum(pairing, held.q)

(* Whatever becomes of the caller's challenge after build, the credential   *)
(* complete gives is one bound takes, and bound reads the offer's hash      *)
(* (chosen_held's own comment).                                             *)
EchoIsTaken ==
    stage = "bound" => code = "none" /\ challenge_id_h(echo) = offer.h
==============================================================================
