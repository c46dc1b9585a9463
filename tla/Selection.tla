------------------------------- MODULE Selection -------------------------------
(***************************************************************************)
(* What the gate pays an agreement with: _select and its helpers           *)
(* (_agreement.py), over the x402 reads (bindings/_x402.py, _lcp.py) and   *)
(* the first option a buyer piece takes (pieces/_common.py).  The agent    *)
(* selects with no option in mind, approves what it was given or anything  *)
(* else, and selects again; the seller may change the challenge between.   *)
(***************************************************************************)
EXTENDS Naturals, Sequences

CONSTANTS
    Challenges,     \* what the agreement URL may answer: [v2, accepts, lc]
    Options,        \* the options the agent may hold: [network, serves, timed, inputs]
    Hashes,         \* the hashes a legal context can hold
    Networks,       \* the networks of accounts and options
    Pairings,       \* the x402 pairings, in the protocol package's order
    PublicProofs,   \* those whose payment is itself a public proof
    Pieces,         \* those the gate has a buyer piece for
    Absent,         \* a member of a JSON object that is not there
    Null,           \* one that is null; an entry or a list that is no object or list
    None,           \* no code, no option
    MAX_OPTIONS,    \* 32: the most options a challenge may hold
    MaxCalls        \* bound: the number of selections the agent asks for

(* What a link is to the link rule: https; https longer than 2048 UTF-16    *)
(* units; of another scheme; anything else.                                 *)
LinkForms == {Absent, Null, "https", "long", "other-scheme", "bad"}

(* What a selection ends with, and what refused it.                         *)
Endings == {"selected", "offer-unreadable", "no-payable-option"}
Codes == {"not-v2", "option-malformed", "no-legal-context", "legal-context-malformed", "link-not-https",
          "option-not-in-document", "no-payable-option", "input-missing"}

ASSUME SelectionAssumption ==
    /\ MAX_OPTIONS \in Nat
    /\ MaxCalls \in Nat
    /\ Pairings \in Seq(STRING)
    /\ Options \subseteq [network : Networks, serves : SUBSET {Pairings[k] : k \in DOMAIN Pairings},
                          timed : BOOLEAN, inputs : BOOLEAN]
    /\ {Absent, Null, None} \cap Options = {}
    /\ {Absent, Null, None} \cap (Endings \cup Codes) = {}
    /\ \A o \in Options \cup {Null} : <<o>> # Null
    /\ \A c \in Challenges :
          /\ c = [v2 |-> c.v2, accepts |-> c.accepts, lc |-> c.lc]
          /\ c.v2 \in BOOLEAN
          /\ c.accepts = Null \/ c.accepts \in Seq(Options \cup {Null})

VARIABLES
    pc,         \* "idle", "begun" or "options"
    calls,      \* how many selections were asked for
    challenge,  \* the challenge being selected from
    account,    \* the network of the signer's account
    approved,   \* the option the caller approved, or None
    next,       \* the next entry to try
    unreadable, \* the first code a read refused an entry with, or None
    unpayable,  \* the first code a piece refused an option with, or None
    result,     \* the latest outcome, [code, detail, option, pairing]
    last        \* the latest option selected with none approved, [challenge, account, result]

vars == <<pc, calls, challenge, account, approved, next, unreadable, unpayable, result, last>>

------------------------------------------------------------------------------
(* The reads. *)

(* The value of a member with two spellings; "bad" when they disagree. *)
Spelled(camel, snake) ==
    IF camel # Absent /\ snake # Absent /\ camel # snake THEN "bad"
    ELSE IF camel \in {Absent, Null} THEN snake ELSE camel

SpelledLink(lc) == Spelled(lc.camel, lc.snake)

IsSha256(lc) == lc.type = "sha256" /\ lc.h \in Hashes

(* What is wrong with extensions.legalContext, or None. *)
ContextFault(lc) ==
    IF lc = Absent THEN "no-legal-context"
    ELSE IF lc = Null \/ ~IsSha256(lc) THEN "legal-context-malformed"
    ELSE IF SpelledLink(lc) = "https" THEN None
    ELSE IF SpelledLink(lc) = "other-scheme" THEN "link-not-https"
    ELSE "legal-context-malformed"

(* What is wrong with its agreement URL, or None; one may be left out. *)
AgreementFault(lc) ==
    LET url == Spelled(lc.agreementCamel, lc.agreementSnake)
    IN  IF lc.agreementCamel = Absent /\ lc.agreementSnake = Absent THEN None
        ELSE IF url = "https" THEN None
        ELSE IF url = "other-scheme" THEN "link-not-https"
        ELSE "legal-context-malformed"

IsTooMany(accepts) == Len(accepts) > MAX_OPTIONS

(* What every x402 read refuses a challenge with, whatever its filter. *)
ReadFault(c) ==
    IF ~c.v2 THEN "not-v2"
    ELSE IF c.accepts = Null THEN "option-malformed"
    ELSE IF IsTooMany(c.accepts) THEN "option-malformed"
    ELSE IF ContextFault(c.lc) # None THEN ContextFault(c.lc)
    ELSE AgreementFault(c.lc)

(* A pairing's read offers the entry: it is an object its filter serves. *)
Serves(p, entry) == entry # Null /\ p \in entry.serves

(* A pairing's read of a challenge is an offer, not a refusal. *)
Reads(p, c) ==
    /\ ReadFault(c) = None
    /\ \E i \in DOMAIN c.accepts : Serves(p, c.accepts[i])

Only(c, entry) == [c EXCEPT !.accepts = <<entry>>]

------------------------------------------------------------------------------
(* The selection's parts. *)

(* Mutant of UnservedCode: a challenge with no fault gives no code. *)
UnservedFault(c) == ReadFault(c)

(* The code the reads give a challenge that serves no option. *)
UnservedCode(c) == IF ReadFault(c) # None THEN ReadFault(c) ELSE "no-payable-option"

(* Mutant of ChallengeFault: a challenge no read serves is no fault. *)
ChallengeFaultOfOptions(c) == None

ChallengeFault(c) ==
    IF \E k \in DOMAIN Pairings : Reads(Pairings[k], c) THEN None
    ELSE IF UnservedCode(c) = "no-payable-option" THEN None ELSE UnservedCode(c)

(* Mutant of IsOffered: only the first entry is compared. *)
IsOfferedFirst(c, option) == Len(c.accepts) > 0 /\ c.accepts[1] = option

IsOffered(c, option) == \E i \in DOMAIN c.accepts : c.accepts[i] = option

(* The place in the order of the first pairing whose read serves the entry  *)
(* alone, or 0.                                                             *)
Serving(c, entry) ==
    LET found == {k \in DOMAIN Pairings : Reads(Pairings[k], Only(c, entry))}
    IN  IF found = {} THEN 0 ELSE CHOOSE k \in found : \A l \in found : k <= l

(* An option whose maxTimeoutSeconds gives a deadline, of a pairing whose   *)
(* payment is a public proof and that has a piece, is put to the piece.     *)
IsPut(c, entry) ==
    /\ Serving(c, entry) # 0
    /\ Pairings[Serving(c, entry)] \in PublicProofs \cap Pieces
    /\ entry.timed

(* What the piece refuses the option with, or None: it takes an option on   *)
(* the account's network, with the buyer's own inputs given.                *)
PieceRefusal(option) ==
    IF option.network # account THEN "no-payable-option"
    ELSE IF ~option.inputs THEN "input-missing" ELSE None

(* Mutant of Entries: the approved option is only looked up. *)
EntriesOfChallenge == challenge.accepts

Entries == IF approved = None THEN challenge.accepts ELSE <<approved>>

NoResult == [code |-> None, detail |-> None, option |-> None, pairing |-> 0]
Declined(code, detail) == [code |-> code, detail |-> detail, option |-> None, pairing |-> 0]
Selected(option) ==
    [code |-> "selected", detail |-> None, option |-> option, pairing |-> Serving(challenge, option)]

First(code, other) == IF code = None THEN other ELSE code

------------------------------------------------------------------------------
Init ==
    /\ pc = "idle"
    /\ calls = 0
    /\ challenge = None
    /\ account = None
    /\ approved = None
    /\ next = 1
    /\ unreadable = None
    /\ unpayable = None
    /\ result = NoResult
    /\ last = [challenge |-> None, account |-> None, result |-> NoResult]

Return(r) ==
    /\ pc' = "idle"
    /\ result' = r
    /\ last' = IF r.code = "selected" /\ approved = None
               THEN [challenge |-> challenge, account |-> account, result |-> r] ELSE last
    /\ UNCHANGED <<calls, challenge, account, approved, next, unreadable, unpayable>>

(* The agent asks with anything approved or nothing; the seller answers as  *)
(* before or with another challenge.                                        *)
Ask ==
    /\ pc = "idle"
    /\ calls < MaxCalls
    /\ calls' = calls + 1
    /\ pc' = "begun"
    /\ challenge' \in Challenges
    /\ account' \in Networks
    /\ approved' \in Options \cup {None}
    /\ next' = 1
    /\ unreadable' = None
    /\ unpayable' = None
    /\ result' = NoResult
    /\ UNCHANGED last

HoldsOption(accepts) ==
    /\ accepts # Null
    /\ ~IsTooMany(accepts)
    /\ \E i \in DOMAIN accepts : accepts[i] # Null

RefuseAccepts ==
    /\ pc = "begun"
    /\ ~HoldsOption(challenge.accepts)
    /\ Return(Declined("offer-unreadable", UnservedCode(challenge)))

(* With an option approved, the challenge is checked whole, and must offer  *)
(* that option.                                                             *)
ApprovedFault ==
    IF approved = None THEN None
    ELSE IF ChallengeFault(challenge) # None THEN ChallengeFault(challenge)
    ELSE IF ~IsOffered(challenge, approved) THEN "option-not-in-document" ELSE None

RefuseApproved ==
    /\ pc = "begun"
    /\ HoldsOption(challenge.accepts)
    /\ ApprovedFault # None
    /\ Return(Declined("offer-unreadable", ApprovedFault))

BeginOptions ==
    /\ pc = "begun"
    /\ HoldsOption(challenge.accepts)
    /\ ApprovedFault = None
    /\ pc' = "options"
    /\ UNCHANGED <<calls, challenge, account, approved, next, unreadable, unpayable, result, last>>

(* An entry that is no object, or that no pairing it is put to can pay, is  *)
(* passed over, and what refused it first is kept.                          *)
PassOver(refusedRead, refusedPiece) ==
    /\ next' = next + 1
    /\ unreadable' = First(unreadable, refusedRead)
    /\ unpayable' = First(unpayable, refusedPiece)
    /\ UNCHANGED <<pc, calls, challenge, account, approved, result, last>>

(* Mutant of TryEntry: an entry the piece refuses ends the selection. *)
TryEntryOnce ==
    /\ pc = "options"
    /\ next <= Len(Entries)
    /\ LET entry == Entries[next]
       IN  \/ /\ entry = Null \/ ~IsPut(challenge, entry)
              /\ PassOver(None, None)
           \/ /\ entry # Null
              /\ IsPut(challenge, entry)
              /\ Return(IF PieceRefusal(entry) = None THEN Selected(entry)
                        ELSE Declined("no-payable-option", PieceRefusal(entry)))

TryEntry ==
    /\ pc = "options"
    /\ next <= Len(Entries)
    /\ LET entry == Entries[next]
       IN  \/ /\ entry = Null
              /\ PassOver(None, None)
           \/ /\ entry # Null
              /\ ~IsPut(challenge, entry)
              /\ PassOver(ReadFault(Only(challenge, entry)), None)
           \/ /\ entry # Null
              /\ IsPut(challenge, entry)
              /\ PieceRefusal(entry) # None
              /\ PassOver(None, PieceRefusal(entry))
           \/ /\ entry # Null
              /\ IsPut(challenge, entry)
              /\ PieceRefusal(entry) = None
              /\ Return(Selected(entry))

(* Every entry was tried. *)
EndOptions ==
    /\ pc = "options"
    /\ next > Len(Entries)
    /\ Return(IF unpayable = None /\ unreadable # None THEN Declined("offer-unreadable", unreadable)
              ELSE Declined("no-payable-option", First(unpayable, "no-payable-option")))

Next ==
    \/ Ask
    \/ RefuseAccepts
    \/ RefuseApproved
    \/ BeginOptions
    \/ TryEntry
    \/ EndOptions

Spec == Init /\ [][Next]_vars

------------------------------------------------------------------------------
Results ==
    [code : Endings \cup {None}, detail : Codes \cup {None},
     option : Options \cup {None}, pairing : 0..Len(Pairings)]

(* The state's types: a decline, and nothing else, has a code, one of those *)
(* the reads and the pieces give (_select's declines).                      *)
TypeOK ==
    /\ pc \in {"idle", "begun", "options"}
    /\ calls \in 0..MaxCalls
    /\ challenge \in Challenges \cup {None}
    /\ account \in Networks \cup {None}
    /\ approved \in Options \cup {None}
    /\ next \in Nat \ {0}
    /\ unreadable \in Codes \cup {None}
    /\ unpayable \in Codes \cup {None}
    /\ result \in Results
    /\ result.detail = None <=> result.code \in {None, "selected"}
    /\ last \in [challenge : Challenges \cup {None}, account : Networks \cup {None}, result : Results]

Payable(entry) == entry # Null /\ IsPut(challenge, entry) /\ PieceRefusal(entry) = None

(* What is selected is the first entry, in document order, that the signer  *)
(* can pay, whatever unreadable or unpayable entries stand before it, and   *)
(* nothing is declined while one is payable (_select's loop).               *)
FirstPayable ==
    result.code \in {"selected", "no-payable-option"} =>
        LET payable == {i \in DOMAIN Entries : Payable(Entries[i])}
        IN  IF result.code = "selected"
            THEN \E i \in payable : result.option = Entries[i] /\ \A k \in payable : i <= k
            ELSE payable = {}

(* Approving what a selection gave and asking again, for the same challenge *)
(* and account, selects the same option of the same pairing: an agreement   *)
(* payment returned for approval can be paid (agree's two calls); and with  *)
(* an option approved nothing else is ever selected, and only from a        *)
(* challenge that offers it now.                                            *)
ApprovedAgain ==
    /\ (/\ result.code # None
        /\ last.result.code = "selected"
        /\ approved = last.result.option
        /\ challenge = last.challenge
        /\ account = last.account) => result = last.result
    /\ result.code = "selected" =>
        /\ \E i \in DOMAIN challenge.accepts : challenge.accepts[i] = result.option
        /\ approved # None => result.option = approved

(* A fault of the whole challenge is told with one code, whichever path     *)
(* meets it: no option, an approved option or the options one by one.       *)
OneFaultOneCode ==
    (result.code # None /\ ReadFault(challenge) # None)
        => result = Declined("offer-unreadable", ReadFault(challenge))
==============================================================================
