-------------------------------- MODULE Server --------------------------------
(***************************************************************************)
(* The MCP server (index.ts, hold.ts): the buyer gate's operations as      *)
(* tools that keep nothing between two calls.  What a later tool takes     *)
(* back, a chosen payment, a channel's opening or a hold, is JSON the      *)
(* agent carries, with a mac under a key the server's process generates,   *)
(* so a restart ends every one of them.  The agent may pass any of them at *)
(* any time, those of an ended process too, edited in any member.  The     *)
(* sellers' documents, the receipts and the approved payments carry no mac *)
(* and are whatever the agent passes.  The channel tools are the steps of  *)
(* Channels over what the mac lets through; atr_check, which changes       *)
(* nothing, and atr_finish and atr_transact's own payment of a pairing     *)
(* with no channel, which read and return no mac, are not steps.           *)
(***************************************************************************)
EXTENDS Channels

CONSTANTS
    Options,        \* the payment options of the sellers' documents
    OptionOf,       \* the option a channel is opened for
    Urls,           \* agreement URLs
    Offers,         \* what the sellers' documents offer, with the hash of what their links serve
    MaxRestarts     \* bound: the number of restarts

NoUrl == "no-url"
NoReceipt == "no-receipt"
NoPayment == [url |-> NoUrl]

Offer == [option : Options, agreement : Urls \cup {NoUrl}, h : Hashes, served : Hashes]
Chosen == [option : Options, agreement : Urls \cup {NoUrl}]

(* An approved agreement payment: its URL, and the hash its challenge       *)
(* advertises.                                                              *)
Approved == [url : Urls, h : Hashes]
Tools == {"atr_agree", "atr_transact"}

ASSUME ServerAssumption ==
    /\ OptionOf \in [Channels -> Options]
    /\ Offers \subseteq Offer
    \* a channel's payment is the proof: its offer has no agreement to pay
    /\ \A o \in Offers, c \in Channels : o.option = OptionOf[c] => o.agreement = NoUrl
    /\ NoUrl \notin Urls
    /\ NoReceipt \notin Hashes
    /\ MaxRestarts \in Nat

VARIABLES
    key,        \* the process's key, one for each process
    seals,      \* every mac a process returned: its key, its label and what it is over
    requests,   \* the offers with an agreement whose signing request atr_confirm returned
    receipts,   \* the hashes the agreement receipts the tools returned name
    moved,      \* the agreement payment that left last, with where and by whom it was sent
    honest      \* whether every receipt read was one the tools returned

serverVars == <<key, seals, requests, receipts, moved, honest>>
allVars == <<vars, serverVars>>

(* chosen is the option and its agreement URL: the hash is not a member. *)
chosenOf(o) == [option |-> o.option, agreement |-> o.agreement]

Seal(label, value) == [key |-> key, label |-> label, value |-> value]

(* Mutants of Verifies: any process's mac, and a mac over another value. *)
VerifiesAnyProcess(label, value) == \E k \in 0..key : [key |-> k, label |-> label, value |-> value] \in seals
VerifiesLabel(label, value) == \E e \in seals : e.key = key /\ e.label = label

Verifies(label, value) == Seal(label, value) \in seals

Seals(label, value) == seals' = seals \cup {Seal(label, value)}

(* A hold as the agent passes it: as returned, or with an amount or a       *)
(* member it edited.                                                        *)
Submitted ==
    UNION { Passed(x) \cup {[x EXCEPT !.charged = n] : n \in 0..AmountLimit}
                      \cup {[x EXCEPT !.signedMax = n] : n \in 0..AmountLimit} : x \in holds }

ServerInit ==
    /\ Init
    /\ ~latest
    /\ key = 0
    /\ seals = {}
    /\ requests = {}
    /\ receipts = {}
    /\ moved = NoPayment
    /\ honest = TRUE

------------------------------------------------------------------------------
(* The tools of the comparison and of the agreement. *)

(* Mutant of Confirms: what the link serves is not compared. *)
ConfirmsUncompared(o) == TRUE

(* What the link serves hashes to the advertised hash. *)
Confirms(o) == o.served = o.h

(* Mutant of isReceiptFor: the receipt's form alone is read. *)
isReceiptOfForm(r, h) == TRUE

(* A receipt is read by its form and its hash: the tool does not look up    *)
(* whether it was recorded.                                                 *)
isReceiptFor(r, h) == r = h

(* The request of an offer with an agreement waits for the receipt, one the *)
(* tools returned or one the agent makes up.                                *)
AtrConfirm(o, r) ==
    /\ Confirms(o)
    /\ o.agreement # NoUrl /\ r # NoReceipt => isReceiptFor(r, o.h)
    /\ Seals("chosen", chosenOf(o))
    /\ requests' = IF o.agreement # NoUrl /\ r # NoReceipt THEN requests \cup {o} ELSE requests
    /\ honest' = (honest /\ (o.agreement = NoUrl \/ r \in receipts \cup {NoReceipt}))
    /\ UNCHANGED <<vars, key, receipts, moved>>

(* The agreement's exchange with url over the bytes that hash to b.  Only   *)
(* an approved payment for that URL, whose challenge advertises that hash,  *)
(* may leave.  The receipt answers it, or the unpaid request.               *)
Exchange(tool, url, b, a, left, agreed) ==
    /\ a \in {NoPayment, [url |-> url, h |-> b]}
    /\ left => a # NoPayment
    /\ agreed => left \/ a = NoPayment
    /\ moved' = IF left THEN [approved |-> a, url |-> url, h |-> b, tool |-> tool, key |-> key] ELSE moved
    /\ receipts' = IF agreed THEN receipts \cup {b} ELSE receipts
    /\ UNCHANGED <<vars, key, seals, requests, honest>>

(* The exchange for the bytes the agent passes, with the URL in chosen. *)
AtrAgree(v, b, a, left, agreed) ==
    /\ Verifies("chosen", v)
    /\ v.agreement # NoUrl
    /\ Exchange("atr_agree", v.agreement, b, a, left, agreed)

(* The exchange with the URL in the document, once its link is compared. *)
AtrTransact(o, a, left, agreed) ==
    /\ Confirms(o)
    /\ o.agreement # NoUrl
    /\ Exchange("atr_transact", o.agreement, o.h, a, left, agreed)

------------------------------------------------------------------------------
(* The channel tools. *)

(* atr_finish builds the opening from chosen and the bytes the agent passes.*)
AtrFinish(v, c, p) ==
    /\ Verifies("chosen", v)
    /\ OptionOf[c] = v.option
    /\ Opened(c, p)
    /\ Seals("opening", OpeningOf(c, p))
    /\ UNCHANGED <<key, requests, receipts, moved, honest>>

(* atr_transact of an offer a channel is opened for. *)
AtrTransactOpens(o, c, p) ==
    /\ Confirms(o)
    /\ o.option = OptionOf[c]
    /\ Opened(c, p)
    /\ Seals("opening", OpeningOf(c, p))
    /\ UNCHANGED <<key, requests, receipts, moved, honest>>

AtrChannelOpen(o, b) ==
    /\ Verifies("opening", o)
    /\ OpenChannel(o, b)
    /\ Seals("hold", Held(o, b))
    /\ UNCHANGED <<key, requests, receipts, moved, honest>>

AtrChannelWithin(s, y, c, kind) ==
    /\ Verifies("hold", y)
    /\ Within(s, y, c, kind)
    /\ UNCHANGED serverVars

SignerFails(s) == SignerRaises(s) /\ UNCHANGED serverVars

WithinReturns(s, returned) ==
    /\ SignerSigns(s, returned)
    /\ seals' = IF returned THEN seals \cup {Seal("hold", Updated(ops[s]))} ELSE seals
    /\ UNCHANGED <<key, requests, receipts, moved, honest>>

AtrChannelRecordCharge(x, amount) ==
    /\ Verifies("hold", x)
    /\ RecordCharge(x, amount)
    /\ Seals("hold", Charged(x, amount))
    /\ UNCHANGED <<key, requests, receipts, moved, honest>>

(* The process ends, and the next one generates its own key. *)
Restart ==
    /\ key < MaxRestarts
    /\ key' = key + 1
    /\ ProcessEnds
    /\ UNCHANGED <<seals, requests, receipts, moved, honest>>

------------------------------------------------------------------------------
Compare ==
    \/ \E o \in Offers, r \in Hashes \cup {NoReceipt} : AtrConfirm(o, r)
    \/ \E a \in Approved \cup {NoPayment}, left, agreed \in BOOLEAN :
           \/ \E v \in Chosen, b \in Hashes : AtrAgree(v, b, a, left, agreed)
           \/ \E o \in Offers : AtrTransact(o, a, left, agreed)

OpenTools ==
    \/ \E v \in Chosen, c \in Channels, p \in Prices : AtrFinish(v, c, p)
    \/ \E o \in Offers, c \in Channels, p \in Prices : AtrTransactOpens(o, c, p)
    \/ \E o \in openings, b \in Hashes : AtrChannelOpen(o, b)

HoldTools ==
    \/ \E s \in Slots, y \in Submitted, c \in Challenge, kind \in Kinds : AtrChannelWithin(s, y, c, kind)
    \/ \E s \in Slots : SignerFails(s) \/ \E returned \in BOOLEAN : WithinReturns(s, returned)
    \/ \E x \in Submitted, amount \in 0..AmountLimit : AtrChannelRecordCharge(x, amount)

ServerNext == Compare \/ OpenTools \/ HoldTools \/ Restart

ServerSpec == ServerInit /\ [][ServerNext]_allVars

------------------------------------------------------------------------------
(* Properties. *)

Sealed ==
    [key : 0..MaxRestarts, label : {"chosen"}, value : Chosen]
    \cup [key : 0..MaxRestarts, label : {"opening"}, value : Opening]
    \cup [key : 0..MaxRestarts, label : {"hold"}, value : Hold]

Moved == [approved : Approved, url : Urls, h : Hashes, tool : Tools, key : 0..MaxRestarts]

ServerTypeOK ==
    /\ TypeOK
    /\ key \in 0..MaxRestarts
    /\ \A e \in seals : e \in Sealed
    /\ requests \subseteq Offers
    /\ receipts \subseteq Hashes
    /\ moved \in Moved \cup {NoPayment}
    /\ honest \in BOOLEAN

(* A hold this very process returned, over an opening it returned. *)
InCustody(x) == x \in holds /\ Seal("hold", x) \in seals /\ Seal("opening", x.opening) \in seals

(* The signer is handed a voucher only over a hold this very process        *)
(* returned, in a channel whose opening this very process returned: none    *)
(* edited, and none from before a restart (hold.ts).                        *)
Custody == \A s \in Slots : ops[s] # Idle => InCustody(ops[s].hold)

(* As long as the agent passes receipts the tools returned, the signing     *)
(* request of an offer with an agreement is returned only once an agreement *)
(* over that very ATR was recorded, whatever else was and whatever          *)
(* restarted since.  One it makes up is taken too: atr_confirm does not     *)
(* check that the agreement is recorded (docs/reference/mcp.md).            *)
RequestAfterReceipt == honest => \A o \in requests : o.h \in receipts

(* Whatever the agent passes, an agreement payment leaves, by either tool,  *)
(* only to a URL an offer names whose link serves what it advertises, and   *)
(* only as approved for that URL and the bytes passed.  atr_agree sends it  *)
(* only to the URL of a chosen the very process that sends it returned, and *)
(* atr_transact, which reads the document itself, only for that offer's ATR.*)
PaidOnlyConfirmed ==
    moved # NoPayment =>
        /\ moved.approved = [url |-> moved.url, h |-> moved.h]
        /\ \E o \in Offers :
              /\ o.served = o.h
              /\ o.agreement = moved.url
              /\ moved.tool = "atr_agree" => [key |-> moved.key, label |-> "chosen", value |-> chosenOf(o)] \in seals
              /\ moved.tool = "atr_transact" => o.h = moved.h

(* The tools do to channels what the gate does over holds it returned: an   *)
(* edited hold or another process's is never a step of a channel.           *)
ImplementsChannels == Spec

(* docs/reference/mcp.md: after a restart the channel tools cannot sign     *)
(* again in the channels opened before it.                                  *)
LeftBehind ==
    \A s \in Slots : ops[s] # Idle =>
        ~\E e \in seals : e.key < key /\ e.label = "opening" /\ e.value.channel = ops[s].hold.channel
==============================================================================
