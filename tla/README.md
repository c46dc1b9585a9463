# The buyer gate in TLA+

Integra's agentic terms let an agent pay a seller under an agreement: the *ATR*, a document whose SHA-256 hash H the
seller's offer advertises. The buyer gate fetches the document, compares its hash, signs a payment that carries H, and
returns the payment only when H can be read from it. This directory models the gate and the payments it makes, checks
the models with TLC, and proves what matters most with TLAPS. The gate exists in Python (`src/agentic-terms-py`) and
TypeScript (`src/agentic-terms`), written to behave alike; the modules translate the Python source, and where the two
differ (the runtime's timer) the difference is a constant. The MCP server and its fetch are TypeScript only.

## The system

| Component | Source | State it keeps | Operations | Hard behaviour |
| --- | --- | --- | --- | --- |
| Agreement exchange | `_agreement.py`, `agreement.ts` | the call in progress: the signed payment, the window, the wait; the caller's signal | `agree`, `exchange`, `_offer` | lost answers, retries of a sent payment, deadlines, a signal at any await |
| Option selection | `_agreement.py`, `bindings/_x402.py`, `pieces/_common.py` | none | `_select`, `_challenge_fault` | a challenge read as a whole and option by option, by thirty pairings; a selection repeated after approval |
| transact | `_gate.py`, `gate.ts`, `transact.ts` | the bytes compared, the receipt in hand, the signer's answers | `confirm`, `finish`, `check`, `pay`, `transact` | the seller, the link and the signer change between and within calls; a payment moved by half |
| ATR fetch | `_gate.py`, `public-fetch.ts` | the bytes read so far | `_fetch`, `publicFetch`, `publicLookup` | a name that resolves otherwise the second time; a body that is large, coded or never ends |
| Channels | `_channels.py`, `channels.ts` | a hold, kept by the agent as plain JSON | `open_channel`, `within`, `record_charge` | old, mixed and concurrently used holds; charges the seller reports |
| MPP challenges | `bindings/_mpp.py`, `_mpp_checks.py`, `pieces/_mpp.py` | the snapshot a build holds | `check_challenge`, `read`, `mpp_choose`, `offer_for`, `echoed_for` | one filter used by seller, buyer and receiver over forms each may meet; a challenge changed under a build |
| Rails | `bindings/x402_*.py`, `bindings/mpp_charge_*.py`, their pieces and codecs | none | `read`, `build`, `complete`, `bound`, `broadcaster` | what of a payment the payer's signature covers; two readers of the same bytes; numeric limits |
| MCP server | `agentic-terms-mcp/src/index.ts`, `hold.ts` | a key of the process, which seals what it hands out | eight tools | a restart between two tool calls |

They interact by calls. `transact` calls `confirm`, then `exchange` for a pairing whose payment is no public proof of
H, then the signer step by step, and `finish` on its answers. `exchange` selects an option, calls the signer through
`pay`, and waits on the caller's signal beside every await. `within` calls the bindings and the signer over a hold that
an earlier call returned. The MCP server offers each as a tool. A binding is called five times over one payment: `read`
the offer, `build` the signer's request, `complete` the payment, then, on the seller's side, `bound` and `broadcaster`.
Code between two awaits runs alone (one event loop); two calls interleave at their awaits. Nothing is persisted: what
outlives a call is what the agent keeps, which are the approvals, the payments in `moved`, and the holds.

What makes each component correct:

- exchange: one signature per approved payment, whatever is lost or late; a payment that left is never reported as
  unsent, nor one unsent as moved; nothing leaves after the signal; `retry-after` is honoured, the window is kept, and
  every call returns.
- selection: the first payable entry, whatever stands before it; approved, the same again; one fault, one code.
- transact: the signer sees nothing that was not compared (and, where needed, receipted); what is returned is
  provably over the advertised bytes; a payment the signer moved is not lost in a decline while the caller leaves its
  own document alone.
- fetch: connections to public addresses only, whole bodies within the bound, and an end.
- channels: however holds are mixed and used at once, and whatever charge is reported, nothing is signed beyond the
  prices signed for in all channels, nor, while each hold's amounts are those of one kept hold of its channel, beyond
  those of its own, nor in a channel the agent did not open for that hash.
- bindings: what `bound` reads is what `build` was asked for; what a carrier can change of a payment that still
  settles never makes it read as another hash; an option is offered exactly when it can be built; the two verdicts on a
  payment, `bound`'s and `broadcaster`'s, agree.
- MCP server: a chosen payment, an opening or a hold that the agent carries between two calls counts only as this
  process returned it. A receipt and an approved payment carry no mac: they count for what they name.

`PROJECT.json` lists every component, and under `hazards` each place where the code could go wrong in a way a test
would hardly reach.

## Modules

| Module | What it is |
| --- | --- |
| `AgreementCall` | the promise of one exchange to its callers, abstractly: a call is unpaid, pays, or is refused; at most one payment leaves; the outcome keeps it once it has |
| `Exchange` | `exchange` and `_offer` await by await, with the clock, the deadlines, the URL's answers and the signal |
| `Selection` | `_select` entry by entry, over the reads of a challenge and a piece's choice of an option |
| `Transact` | `transact` over every kind of pairing, with `AgreementCall` as the exchange |
| `Fetch`, `PublicAddress` | `_fetch` over `publicFetch`; which addresses are public, bit by bit |
| `Channels` | the three channel steps over the set of holds the agent keeps |
| `Server` | the MCP server's tools over `Channels`, which it extends: the process's key, what it seals, a restart |
| `MppChecks`, `MppChallenge`, `Mpp` | the request checks of nineteen MPP methods; a challenge's id, opaque, filter and echo; one payment at the level of its challenge |
| `Pairing` | the promise of every binding, abstractly: the hash asked for is the hash read, and a payment that settles never reads as another |
| `Payment` | one payment of one pairing, from its option to its reading, with the binding's functions as constants |
| `X402` | what the x402 bindings share: the choice, the envelope, the gate before `bound` |
| `EvmRails`, `SvmRails`, `HederaRails`, `StellarRails`, `XrplRails`, `NearRails`, `MoveRails`, `CardanoRails`, `StarknetRails`, `CasperRails`, `CcdRails`, `PolkadotRails`, `TronRails`, `AlgorandRails`, `TvmRails` | the x402 bindings of a family of rails, each an instance of `Payment` |
| `ChargeRails` | the MPP charges whose payment carries H, an instance of `Payment` over `MppChallenge` and the readers of the rails they share |
| `Payments` | all of those together, and the mapping to `Pairing` |
| `MC*` | the values TLC checks each with (`Payments` needs none) |
| `*Proofs` | the theorems |

`Exchange` implements `AgreementCall` under the mapping of `AgreementOutcome` in that module, and `Transact` uses
`AgreementCall` in its place, so each is checked alone against the same promise. `Server` implements `Channels`, so
what holds of the channels holds of the tools. Every rail implements `Pairing`, which is what `Transact` takes a
payment of a kind to do.

### Exchange

`pc` is the await the call is in: `begun` (the arguments), `unpaid` (the unpaid request), `sign` (the signer), `paid`
(a request with the payment) and `wait` (between two of them). `now` is the monotonic clock from the start of the
paid exchange (or of the unpaid request), `until` the deadline of the request or the end of the sleep, and `ans` what
came back and was not yet read. `Tick` cannot pass a deadline. `ConnectionFails` and `DeadlinePasses` are `_get`'s
`_Unanswered`; `Sleep`, `Resend` and `WindowEnds` are one turn of the `while` loop. Where the code reads the clock
twice between two awaits the model reads it once. `due` records the earliest time the payment may leave again and
is read by `RetryHonoured` only. `Timer` is the runtime's: asyncio's keeps every delay, `setTimeout`'s fires at once
past 2^31 - 1 ms; `TimerLimit` sets it. Bytes, headers and JSON are reduced to the answer's kind: a receipt for H, any
other 200 (no JSON, another hash, a content coding, too large), 202 with its `retry-after`, 402 readable or not, 5xx,
another status. The selection's outcome is a choice here, and `Selection`'s subject. The payment is handed to the
signer by `pay`, which for the x402 public-proof pairings asks one signature that moves nothing.

### Selection

A challenge is its version, its entries and its legal context, whose members have both spellings. An option is what the
selection asks of it: its network, the pairings whose filter serves it, whether its timeout gives a deadline, and
whether the buyer's own inputs for it are there. `RefuseAccepts`, `RefuseApproved`, `TryEntry` and `EndOptions` are the
returns of `_select` and its loop's turn; `unreadable` and `unpayable` are the first codes it keeps. The agent asks
twice, with anything approved; the seller may answer otherwise the second time.

### Transact

`pc` walks `confirm`, `fetch`, `compare`, `agreement`, `sign`. A pairing is its kind: whether its payment is a public
proof, whether it has a place for the hash, whether the signer moves it, whether there is anything to sign, how
many signatures it takes, and whether a second build may say otherwise who moves it. Every call takes a fresh offer, any
pairing, and any approval an earlier call returned; the link serves bytes of any hash. `carries` is the hash read from
the completed payment, `spent` whether the signer moved it. `SignerAnswers` includes the `finish` that follows it, as in
the loop of `_sign_steps`.

The choice holds the caller's own document, which the caller may change while the call awaits the URL or the signer
(`CallerChanges`). `finish` builds again from it (`_gate.py:276-278`): changed, that build may refuse, and the decline
is then `offer-unreadable` with nothing in `moved`, or may answer otherwise whether the signer moves the payment. So a
payment that left can be missing from the decline, where `finish`'s own docstring says that a decline keeps it as
moved. `ResourceKept` states what does hold: the payment is kept exactly when it was moved as long as the document is
left alone, and whenever it is the signer that fails.

### Fetch

A link names an address or a name; the name resolves to anything at each question. `given` is what the connection may
still be tried at, `peers` every address it was tried at. The body comes in chunks (or, with `consumed`, at once, as a
transport that has read it all hands it over), and the declared length is its digits, leading zeros included. An
address in `PublicAddress` is its bytes, and the tables are the code's own; the reference it is checked against is
written as first and last addresses of the registries' ranges.

### Channels

`holds` is every hold the gate returned. A `within` call is two steps, `Within` up to the signer and `SignerSigns` or
`SignerRaises` after it, and calls interleave between them (`Slots`). `Passed` is any kept hold, or one with one
member from another, its amounts included: a hold is unsigned JSON, and `within` and `record_charge` read `charged`
and `signedMax` as they are. `unmixed` records whether every hold passed so far had the channel and the amounts of one
kept hold. `TotalBounded` says that what is signed is within the prices signed for in all the channels always, and
within those of its own channel while `unmixed`: with another channel's `charged` a hold signs above its own channel's
(`_channels.py:338`, `445`), which the server's seal excludes. Where `latest` is TRUE, a choice of the initial state,
the agent passes only the latest hold, one call at a time, as `src/docs/guides/channels-and-sessions.md` tells it to.
`budget` and `total` sum the prices of what was signed, of each channel and of all, and are read by `TotalBounded`
only. A declined call changes nothing and is not a step. The same offer, payer and ATR open the same channel again,
since its id commits to nothing of the opening's own. `ProcessEnds` ends the calls in progress; what the agent keeps
survives it.

### Server

`seals` is every mac the server returned, as the key, the label and the value it is over; `Verifies` is
membership under the current key, which takes the HMAC to be what it is meant to be. `Restart` ends the
process and takes the next key. Each tool is one action that reads its mac, takes the gate's step and seals what it
returns; `atr_channel_within` is two, with the signer between them, as in `Channels`. The agent may pass any
chosen, whether ever returned or not, any opening, and (`Submitted`) any hold, with an amount or a member edited, any
receipt, returned by a tool or made up, and any approved payment. `isReceiptFor` reads a receipt's form and hash only
(`docs/reference/mcp.md` says that `atr_confirm` does not check that the agreement is recorded), so
`RequestAfterReceipt` is about an agent whose receipts are the tools' (`honest`). `AtrAgree` sends an approved payment
to the URL of a sealed chosen, `AtrTransact` to the URL of the document it was passed, which it compares itself and for
which nothing is sealed; `PaidOnlyConfirmed` says of both where a payment may go and what must have been compared.
Their exchange is the choice its promise leaves: a payment left or not, a receipt or none.

### MPP challenges

A request is the form of each of its members, as the check of its method distinguishes them, with the amounts of its
splits as numbers. `Issue`, `Place`, `Read`, `Choose`, `Build`, `Complete` and `Bound` are the seller's check, its
placement of the LCP members, the buyer's `read`, the piece's choice, the snapshot build holds, the credential's echo
and the receiver's hold of it. Build is taken to its first answer about the challenge: whether its carrier holds this
H (`CarrierFault`), and whether what is signed can hold its values (`EncodingFault`). `Change` is the network's,
`ChangeMine` the caller's own between build and complete. The payload beside the echo is left out here: its size only
counts against the credential's bound.

### Payments

`Payment` takes one option, gives it to `build` with a choice, the request to the signer, its answer to `complete`, and
the payment to `bound` and `broadcaster`, and lets whoever carries the payment change one member of it. A rail's module
defines what its binding does at each: the filter (`Served`), what only build refuses (`BuildOnly`), the refusal of
build, complete and bound in the order the code looks (`First`), and `Altered`: the payments one member away, each with
whether the rail still settles it, which is whether the payer's signature covers the member and the chain accepts the
form. A document's member is its form; bytes the payer signed are the forms a reader of them can tell apart.

An option, a choice, an answer and a payment are each at most one member away from an honest one, so refusals are
ordered against each other in twos at most: a choice's fault is met with an honest option's only where the option has
none. `BroadcasterAgrees` is therefore shown for payments with one fault.

`ChargeRails` ties an MPP charge to its challenge. What the payer signs is a derivation of the challenge's id and realm
(EVM, Tempo, Hedera), of its request's bytes too (usdc's nonce and salt), or H itself in a member of the request or the
call (Solana, XRPL, Stellar, Stacks); the credential echoes the challenge, which nobody signs. A derivation is modelled
as what it is over, so two are equal when their inputs are. Whoever carries the payment may swap the echoed id, opaque,
carrier and position for those of another challenge, one at a time or together. A payment the payer broadcasts is read
from the chain, as the receiver held it or not (`held`).

`form` says what a payment is to its receiver: `whole`, `settles` (changed, and the rail takes it) or `void`. `Pairing`
demands nothing of a void one, since `bound` verifies no signature: the chain does.

## Runs

| Run | Question | Bounds |
| --- | --- | --- |
| `exchange` | is the payment signed once, kept once sent, inside the window, never in a storm, never after the signal? does every call return, and the exchange implement `AgreementCall`? | 2 calls, 2 hashes, timeouts 1 and 3, retry-after 0, 3, absent |
| `exchange_timer` | does `setTimeout`'s limit matter? *(violation)* | `TimerLimit` 2, 1 call |
| `selection` | is the first payable option selected, and again when approved? has a fault of the challenge one code? | every list of at most 2 entries of 5 options and of no object, and every legal context with few of them; 3 pairings, 2 networks, 2 selections |
| `transact` | is anything signed unproven, returned unproven, paid unapproved, or lost? does every call return? | 3 calls, 2 hashes, 2 agreement URLs, 8 kinds of pairing, the caller's document changed at most once in a call |
| `transact_moved` | does a decline after a sent agreement payment carry it? *(violation)* | 2 calls |
| `fetch` | does it connect to public addresses only, return whole bodies within the bound, and end? | both ends of every address block and their neighbours, as such and carried in IPv6; 2 answers of a name; chunks and lengths around a bound of 10 |
| `channels` | what can any use of holds get signed? does the documented use keep the hold complete? | 1 batch channel, 1 session, 2 concurrent calls, 6 calls, prices 0 and 2, amounts below 5, one member of a hold swapped |
| `server` | do requests follow a recorded agreement, and agreement payments only compared offers and approvals? does an edited hold, or one from before a restart, ever sign? do the tools implement `Channels`? | 2 offers, 1 URL, 2 hashes, 1 restart, 1 batch channel, 4 calls, amounts below 3 |
| `server_restart` | do the channel tools stay out of the channels of before a restart? *(violation)* | the channel's offer alone |
| `mpp` | is what was offered still offered once placed? is one document one offer? does a chosen challenge build but for what is left to build, and bound take what is echoed? | of each of 19 methods a request with every one and every two members in another form, every list of 6 splits; documents of 2 challenges (3 are past `MAX_CHALLENGES`, 2 here), changed in any one place |
| `mpp_hedera_echo` | does bound take what the Hedera charge echoes? *(violation)* | Hedera's challenges |
| `payments` | does every rail keep `Pairing`'s promise? does broadcaster agree with bound, and the filter with build? | 37 pairings, 2 hashes, each document one member from an honest one |

Why the bounds suffice. The gate's constants (10, 120, 60, 10, 180, 2, 1 seconds) are scaled down in proportion (2, 2,
1, 1, 3, 2, 1): a timeout lies on either side of the cap, a request's deadline and a `retry-after` on either side of
what is left of the window. Two exchange calls are enough because a call starts from reset variables. Three transact
calls let one call obtain an approval, one use it, and one use it for other terms. Six channel calls hold two
openings, their holds, and a charge and a voucher over a hold with the other's amounts, or two concurrent vouchers.
Two hashes, URLs and channels give every comparison both outcomes. Four tool calls hold a confirmation, an agreement
and its request, or an opening, its hold and a voucher, with a restart between any two. Two entries order any entry
against any other, and the selection's loop keeps nothing else of those before. The checks of MPP requests compare at
most two members with each other. The size bound of a fetch is 10 so that lengths of one and two digits and leading
zeros lie on both sides of it. The proofs cover the other sizes.

Deadlock checking is off in every configuration because an agent may stop calling, or a payment is read and nothing is
left: after `MaxCalls`, or the last stage, the model stops. `CallReturns` and `FetchEnds` cover a call that would stop
halfway.

Every property has a mutant in the modules, named in a comment as one, which changes a mapped definition as a
plausible bug would; the property's run finds it.

### Four disagreements

- `exchange_timer`: `agreement.ts` gives a 202's wait to `setTimeout` as it is. For a delay past 2^31 - 1 ms (24.8
  days; `retry-after` may have nine digits and `maxTimeoutSeconds` any length) it fires at once, and the payment is
  sent again in a loop, where `docs/guides/agreement-payments.md` says the gate waits the `Retry-After` seconds.
  asyncio's timer has no such limit. The theorem `Honours` shows that the limit is the only way to break the wait.
- `transact_moved`: the package README says a decline that follows a sent agreement payment carries it as
  `moved`. When the agreement is paid and recorded and the signer then fails on the resource's payment in the same
  call, `transact` returns that decline as it is: neither the agreement payment nor the receipt is in it.
  `UnsettledKept` states what does hold: with no receipt, the payment is kept.
- `server_restart`: `docs/reference/mcp.md` says that after a restart the channel tools cannot sign again in the
  channels opened before it, and that the agent opens a new one. For the x402 batch pairing on EVM chains the channel's
  id is the hash of its configuration, whose salt is the ATR hash: opening again for the same option, authorizer and ATR
  yields the same channel, whose new hold starts from a charge of zero and covers only the new opening's voucher, so
  the charge the seller already holds cannot be recorded in it. `Custody` states what does hold: the holds and
  openings of before are not used.
- `mpp_hedera_echo`: `_mpp.py:713` says every MPP build reads only the snapshot and every complete echoes it, so that
  `bound` refuses nothing a complete was handed. The Hedera charge's piece writes the caller's own challenge into the
  credential (`pieces/mpp_charge_hedera.py:98`, `108`) and does not measure it: changed in between, or too large with
  members that are not MPP's, it is refused after the payer signed. The theorem `EchoTaken` shows that every other
  method's echo is taken.

### What the models leave to build

`ChosenBuilds` names the challenges that the filter offers, a piece chooses, and build refuses, where the docstring of
`pairings_of_placed` (`pieces/_mpp.py:29`) says that "These are the pairings whose build takes the challenge": a Solana
`externalId`, XRPL `invoiceId` or muxed Stellar recipient that is absent or of another hash, and a Lightning invoice of
another; a usdc amount past a uint256; an `expires` before 1970 where EIP-712 data holds it, or more ledgers away than
a u32 on Stellar; a program that a Solana transaction invokes as its fee payer or as the account paid in SOL.
The refusal comes before anything is signed.

`ServedBuilds` names, per rail, the options a filter serves and build refuses for any hash (`BuildOnly`). Each is a
place where `read` offers what cannot be paid, with a refusal and before anything is signed:

- Solana: a memo that is not of H; a fee payer that is a program the transaction invokes; for upto and batch a token
  program of the buyer's that is not the option's, and a `withdrawDelay` of 2^32.
- Hedera's transfer executor: a timeout that takes the time now past the safe integers.
- Stellar: a `payTo` muxed for another hash, and a timeout at the top of the ledger numbers.
- XRPL: an `invoiceId` of another hash.
- Starknet: a fee payer that is the payer's own account, and a timeout past the safe integers.
- The MPP charges: a challenge whose id is of another hash than the gate's, or which with a payload is over the size
  bound; a Solana `externalId`, Stellar muxed recipient or XRPL `invoiceId` of another hash than the id's; a Solana fee
  payer that is a program the transaction invokes. Hedera's sizes are `mpp_hedera_echo`'s.
- Algorand: asset 0. TON: a `forwardPayload` that is not H's comment, and a timeout at 2^32.

Three readers check less than the writer beside them, which the models keep: Cardano's `complete` requires a TTL
that `bound` does not, Aptos's `bound` does not decode the transaction `complete` was held to (and is no public proof),
and Concordium's `complete` reads no memo, which `bound` does.

## Fairness

The gate's own steps run (an event loop runs what is ready), time passes and deadlines fire, and the signer answers or
raises: weak fairness on `Arguments`, `Signer`, `Gate`, `Tick` and `DeadlinePasses`. A signer that never returns would
hang the gate, which gives it no deadline; that assumption is the caller's. The agreement URL, the network
and the signal owe nothing. `Transact` assumes of the exchange what the `exchange` run shows, that it returns, and of
the link that it fails or answers by its deadline; `Fetch` assumes only that its deadline passes, whatever the host
does. The other modules assert no liveness and need none.

## Proofs

All theorems hold for every set of hashes, timeouts, pairings, channels, prices and documents, and every number of
calls, from the constants' assumptions alone and, where it is said, a hypothesis named below (`TimerCovers`,
`OneOptionOneFault` and `OfferedIsRead`, `Faithful`).

- `ExchangeProofs`. The inductive invariant is `TypeOK /\ Rest`. `Rest` adds to the properties what each await knows
  of the call (`Phases`: what was checked before it, when a payment can have left, that a wait ends inside
  the window). `WithinWindow` is needed for types, since a window already over would make a deadline precede the clock.
  `NoStorm` and `RetryHonoured` need that the timer covers the longest window (`TimerCovers`), and are stated so.
  `Implements` shows that every step maps to a step or stutter of `AgreementCall`.
- `SelectionProofs`. The invariant says what the loop knows of the entries it passed: none is payable, and the first
  codes are theirs. `SelectsAgain` needs that the first pairing to serve an entry alone is determined by the challenge
  and the entry (`OneOptionOneFault`), and that an option offered is read (`OfferedIsRead`), so an approved option
  cannot be refused for what the first call did not see. A least element is taken from the well-founded order of the
  naturals, since an induction theorem's operator parameter has no instance here.
- `TransactProofs`. `Phases` says what each program point knows, `KindKept` that the exchange in progress is of the
  call's kind; together with the properties they are inductive. `KeepsResource` has the caller's changes in it.
- `FetchProofs`. Every address still to be tried is public, so every address tried is. `WholeAndBounded` rests on
  `DeclaredIsRead`: a declared length compared by its digits is compared by its value. The value is a recursive
  function, whose existence and steps are derived by taking a least number without them. `Judged` is the address table:
  for every IPv4 address, alone or carried in IPv6, the bits of the code's blocks judge it as the registries' first and
  last addresses do; `RangesHold` follows for every set of addresses judged so (`JudgedAssumption`).
- `ServerProofs`, first part, on `Channels`. `TotalBounded` is not inductive. `TotalInv` strengthens its first half: no
  hold, and no call in progress, charges or was signed more than `total`, for all swapped amounts are other holds'.
  `SoundInv` strengthens its second: while `unmixed`, a hold charges no more than was signed and was signed no more than
  the budget of its channel. `PassedHolds` shows what a mixed hold can be. `HoldsChannel` needs neither: `Agrees` and
  `Asks` alone keep a voucher in a channel the agent opened for that hash. `CoversLatest` rests on `OneHold`: the agent
  keeps one hold per channel and each call in progress is over a kept one.
- `ServerProofs`, second part, on `Server`. `SealInv` says that a sealed hold is one the gate returned, unedited, over
  an opening the same process sealed (`SealsHeld`), and a sealed chosen that of a compared offer (`ChosenConfirmed`);
  with `Custody` and the agreement's two properties it is inductive. `Implements` uses it to show that every tool call
  is a step of `Channels` or leaves it alone; since seals let no mixed hold through, `unmixed` stays true, and
  `ServerBoundsTotal` proves the bound of each channel outright.
- `MppProofs`. `EchoTaken` (`EchoHeld`): what build held fits the size bound, is served by its pairing's filter and
  names a hash; so does its echo, of which bound refuses nothing. The Hedera charge is excluded, as it must be.
  `OneOfferHolds` is an induction over a document's challenges (`Documented`), by a least counterexample.
  `ChosenBuildsHolds` (`ChoiceHolds`) goes through every method's checks: a chosen challenge passes them again in its
  snapshot, so build refuses it only for its size or for what `LeftToBuild` names. `PlacedOffersSameHolds`
  (`IssuedNamed`) compares what each method's check names before and after placement, and the second reading of the
  request with the first. The documents are any sequences of challenges (`DocumentsAssumption`), the placed members
  URLs (`PlacedAssumption`).
- `PaymentsProofs`. Of each of the sixteen modules of rails: what its filter serves is what its build takes, but for
  `BuildOnly`, over every option and every honest choice; and what its `broadcaster` tells of a payment agrees with its
  `bound`, over every payment one alteration from an honest one. `Railed` says which rail a payment is on, `Kept` that
  the recorded answers are the functions'; both are inductive, and `PaymentsServeBuilds` and
  `PaymentsBroadcasterAgrees` follow rail by rail. Hashes are assumed distinct from the forms of a document's members
  (`HashesAssumption`).
- `PaymentProofs`. `FaithfulKeepsPromise`: the stages of a payment add nothing to what its functions say. If what
  `bound` reads of an honest payment is what `build` was asked for, and of one changed and settled that or none
  (`Faithful`), the specification implements `Pairing`. The hypothesis is about documents, not behaviours; `payments`
  is its check for the rails' own.

Only model-checked: the liveness properties (`CallReturns`, of the exchange and of transact, and `FetchEnds`) and
`AgreementCall`'s fairness, which TLAPS cannot prove here; and `KeepsPromise` of the rails' own functions, whose
`Faithful` is a case split over every form of every document, which `payments` makes.

## Not modelled, and why

- Payloads of the MPP sessions and of the Tempo subscription: their openings, vouchers and closes are amounts and
  channels in `Channels` and challenges in `Mpp`; the encodings between are not rails of `Payment`, which has one
  payment from one option, where a session has many.
- `mpp/charge/evm/transaction`, `mpp/charge/evm/hash` and `mpp/charge/nearintents`: nothing the payer signs carries H.
  `bound` of the first two always answers `mpp/no-signed-place`, and the third's hash is its challenge's alone, so
  `Pairing`'s promise says nothing of them; the challenge layer is in `Mpp`.
- Lightning, card, AP2, ACP, UCP and ACK: a kind of payment in `Transact` only. Their rules are of JOSE and of documents
  of other protocols (`_jose.py`), where one call reads one document.
- Codecs by their bytes: base64url, RFC 8785, RLP lengths, XDR, protobuf, bit layouts, keccak and the curves. A reader
  is the forms it tells apart. `_url.py` and `_idna_data.py` (the URL standard and its tables) are taken as a function
  from a link to its host: their subject is tables and strings, with no state.
- Signatures and chains: a signature covers what it covers, and a chain settles a payment or does not.
- TypeScript copies of the Python gate: written to behave alike and tested against the same vectors; the Python is
  translated. The MCP server and its public fetch, which have no Python form, are modelled.
- Cancellation of the Python task itself: the gate has no handler of its own for it; the caller's signal is modelled.
- A wall clock that is set back (`agreement.ts:486`): the model's clock only goes forward, as Python's does.
- `read`, `check` and `bound` as entry points of their own beside the calls that use them; the site's scripts and pages.

## Plan

In order of what each would add:

1. The MPP session payloads as rails of their own: an opening as a `Payment`, a voucher and a close as the steps of
   `Channels`, and a proof that a session's binding gives `Channels` what it assumes of one.
2. Lightning: its carrier is written after placement, which `MppChallenge` already models, so its invoice is a rail.
3. `Faithful` of `PaymentProofs` for one rail at a time, beginning with `EvmRails`: a case split over its forms.
4. A second fault in a payment, so that the order of the refusals of `bound` and `broadcaster` is met in full.
