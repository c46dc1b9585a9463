---------------------------- MODULE SelectionProofs ----------------------------
(***************************************************************************)
(* Proofs about Selection, for every set of challenges, pairings, pieces   *)
(* and accounts and any number of selections.                              *)
(***************************************************************************)
EXTENDS Selection, WellFoundedInduction, TLAPS

LEMMA LeastNumber ==
    ASSUME NEW T \in SUBSET Nat, T # {}
    PROVE  \E x \in T : \A y \in T : x <= y
<1>1. PICK x \in T : \A y \in T : ~ (<<y, x>> \in OpToRel(<, Nat))
  BY WFMin, NatLessThanWellFounded
<1>2. \A y \in T : ~ (y < x)
  BY <1>1 DEF OpToRel
<1>3. \A y \in T : y \in Nat
  OBVIOUS
<1>4. \A y \in T : x <= y
  BY <1>2, <1>3
<1> QED
  BY <1>4

(* Serving is a place in the order of pairings, whose read serves the entry *)
(* alone, or 0.                                                             *)
LEMMA ServingServes ==
    ASSUME NEW c, NEW entry
    PROVE  /\ Serving(c, entry) \in 0..Len(Pairings)
           /\ Serving(c, entry) # 0 => /\ Serving(c, entry) \in DOMAIN Pairings
                                       /\ Reads(Pairings[Serving(c, entry)], Only(c, entry))
<1> DEFINE found == {k \in DOMAIN Pairings : Reads(Pairings[k], Only(c, entry))}
<1>1. DOMAIN Pairings = 1..Len(Pairings) /\ Len(Pairings) \in Nat
  BY SelectionAssumption
<1>2. CASE found = {}
  BY <1>1, <1>2 DEF Serving
<1>3. CASE found # {}
  <2>1. \E k \in found : \A l \in found : k <= l
    <3>1. found \in SUBSET Nat
      BY <1>1
    <3> HIDE DEF found
    <3> QED
      BY <1>3, <3>1, LeastNumber
  <2>2. Serving(c, entry) \in found
    BY <1>3, <2>1 DEF Serving
  <2> QED
    BY <1>1, <2>2
<1> QED
  BY <1>2, <1>3

(* The codes of a challenge's faults, none of them the code of a challenge  *)
(* that serves nothing.                                                     *)
FaultCodes == {"not-v2", "option-malformed", "no-legal-context", "legal-context-malformed", "link-not-https"}

LEMMA FaultsHaveCodes ==
    ASSUME NEW c
    PROVE  ReadFault(c) \in FaultCodes \cup {None}
  BY DEF ReadFault, ContextFault, AgreementFault, FaultCodes

LEMMA NoneIsNoCode == None \notin Codes \cup Endings /\ Null \notin Options /\ None \notin Options
  BY SelectionAssumption

(* A challenge of a few options and one of them alone have the same faults. *)
LEMMA OneOptionOneFault ==
    ASSUME NEW c \in Challenges, NEW entry \in Options \cup {Null}, HoldsOption(c.accepts)
    PROVE  /\ ReadFault(Only(c, entry)) = ReadFault(c)
           /\ Only(c, entry).accepts = <<entry>>
<1>1. /\ Only(c, entry).accepts = <<entry>>
      /\ Only(c, entry).v2 = c.v2
      /\ Only(c, entry).lc = c.lc
  BY SelectionAssumption DEF Only
<1>2. c.accepts # Null /\ c.accepts \in Seq(Options \cup {Null})
  BY SelectionAssumption DEF HoldsOption
<1>3. Len(<<entry>>) = 1 /\ <<entry>> # Null /\ 1 <= MAX_OPTIONS
  <2>1. PICK i \in DOMAIN c.accepts : TRUE
    BY DEF HoldsOption
  <2>2. Len(c.accepts) \in Nat /\ i \in 1..Len(c.accepts) /\ ~(Len(c.accepts) > MAX_OPTIONS)
    BY <1>2, <2>1 DEF HoldsOption, IsTooMany
  <2>3. 1 <= MAX_OPTIONS
    BY <2>2, SelectionAssumption
  <2>4. <<entry>> # Null
    BY SelectionAssumption
  <2> QED
    BY <2>3, <2>4
<1> QED
  BY <1>1, <1>2, <1>3, SelectionAssumption DEF ReadFault, IsTooMany, HoldsOption

(***************************************************************************)
(* The invariant.                                                          *)
(***************************************************************************)
(* What the loop knows: nothing it passed could be paid, and a fault of the *)
(* whole challenge was met at the first entry that is an option.            *)
Progress ==
    /\ pc # "idle" => challenge \in Challenges /\ account \in Networks /\ result = NoResult
    /\ pc = "begun" => next = 1 /\ unreadable = None /\ unpayable = None
    /\ pc = "options" =>
        /\ HoldsOption(challenge.accepts)
        /\ ApprovedFault = None
        /\ \A i \in DOMAIN Entries : i < next => ~Payable(Entries[i])
        /\ ReadFault(challenge) # None =>
            /\ unpayable = None
            /\ unreadable \in {None, ReadFault(challenge)}
            /\ \A i \in DOMAIN Entries : i < next /\ Entries[i] # Null => unreadable = ReadFault(challenge)

Takes(network, option) == option.network = network /\ option.inputs

(* r is a selection over this challenge and account with none approved.     *)
SelectedFrom(c, network, r) ==
    /\ c \in Challenges
    /\ HoldsOption(c.accepts)
    /\ \E i \in DOMAIN c.accepts : c.accepts[i] = r.option
    /\ r.option \in Options
    /\ IsPut(c, r.option)
    /\ Takes(network, r.option)
    /\ r = [code |-> "selected", detail |-> None, option |-> r.option, pairing |-> Serving(c, r.option)]

LastSelected == last.result.code = "selected" => SelectedFrom(last.challenge, last.account, last.result)

IInv == TypeOK /\ Progress /\ LastSelected /\ FirstPayable /\ ApprovedAgain /\ OneFaultOneCode

(* The entries are the challenge's, or the approved one.                    *)
LEMMA EntriesKnown ==
    ASSUME TypeOK, challenge \in Challenges, HoldsOption(challenge.accepts)
    PROVE  /\ Entries \in Seq(Options \cup {Null})
           /\ challenge.accepts \in Seq(Options \cup {Null})
           /\ approved # None => approved \in Options /\ Entries = <<approved>>
           /\ approved = None => Entries = challenge.accepts
<1>1. challenge.accepts \in Seq(Options \cup {Null})
  BY SelectionAssumption DEF HoldsOption
<1>2. CASE approved = None
  BY <1>1, <1>2 DEF Entries
<1>3. CASE approved # None
  <2>1. approved \in Options
    BY <1>3 DEF TypeOK
  <2>2. Entries = <<approved>>
    BY <1>3 DEF Entries
  <2>3. <<approved>> \in Seq(Options \cup {Null})
    BY <2>1
  <2> QED
    BY <1>1, <1>3, <2>1, <2>2, <2>3
<1> QED
  BY <1>2, <1>3

LEMMA PieceAnswers ==
    ASSUME NEW entry
    PROVE  /\ PieceRefusal(entry) \in {None, "no-payable-option", "input-missing"}
           /\ entry \in Options => (PieceRefusal(entry) = None <=> Takes(account, entry))
<1>1. None # "no-payable-option" /\ None # "input-missing"
  BY NoneIsNoCode DEF Codes
<1>2. entry \in Options => entry.inputs \in BOOLEAN
  BY SelectionAssumption
<1> QED
  BY <1>1, <1>2, ZenonT(30) DEF PieceRefusal, Takes

(* Whatever approved option a challenge with a fault is asked with, the     *)
(* fault is told.                                                           *)
LEMMA FaultIsTold ==
    ASSUME NEW c, ReadFault(c) # None
    PROVE  ChallengeFault(c) = ReadFault(c) /\ UnservedCode(c) = ReadFault(c)
  BY FaultsHaveCodes, NoneIsNoCode DEF ChallengeFault, UnservedCode, Reads, FaultCodes

(* An option a challenge offers and a pairing serves alone is one the whole *)
(* challenge is read with.                                                  *)
LEMMA OfferedIsRead ==
    ASSUME NEW c \in Challenges, HoldsOption(c.accepts),
           NEW option \in Options, \E i \in DOMAIN c.accepts : c.accepts[i] = option,
           Serving(c, option) # 0
    PROVE  /\ ReadFault(c) = None
           /\ ChallengeFault(c) = None
           /\ IsOffered(c, option)
<1> DEFINE k == Serving(c, option)
<1>1. k \in DOMAIN Pairings /\ Reads(Pairings[k], Only(c, option))
  BY ServingServes
<1>2. ReadFault(Only(c, option)) = ReadFault(c) /\ Only(c, option).accepts = <<option>>
  BY OneOptionOneFault
<1>3. ReadFault(c) = None /\ Serves(Pairings[k], option)
  BY <1>1, <1>2 DEF Reads
<1>4. Reads(Pairings[k], c)
  BY <1>3 DEF Reads
<1> QED
  BY <1>1, <1>3, <1>4 DEF ChallengeFault, IsOffered

(***************************************************************************)
(* A return keeps the invariant when what it returns is right.             *)
(***************************************************************************)
FirstIn(r) ==
    r.code \in {"selected", "no-payable-option"} =>
        LET payable == {i \in DOMAIN Entries : Payable(Entries[i])}
        IN  IF r.code = "selected"
            THEN \E i \in payable : r.option = Entries[i] /\ \A k \in payable : i <= k
            ELSE payable = {}

AgainIn(r) ==
    /\ (/\ last.result.code = "selected"
        /\ approved = last.result.option
        /\ challenge = last.challenge
        /\ account = last.account) => r = last.result
    /\ r.code = "selected" =>
        /\ \E i \in DOMAIN challenge.accepts : challenge.accepts[i] = r.option
        /\ approved # None => r.option = approved

Right(r) ==
    /\ r \in Results
    /\ r.code # None
    /\ r.detail = None <=> r.code = "selected"
    /\ FirstIn(r)
    /\ AgainIn(r)
    /\ ReadFault(challenge) # None => r = Declined("offer-unreadable", ReadFault(challenge))
    /\ r.code = "selected" => SelectedFrom(challenge, account, r)

LEMMA ReturnKeeps ==
    ASSUME IInv, pc # "idle", NEW r, Right(r), Return(r)
    PROVE  IInv'
<1>1. /\ pc' = "idle" /\ result' = r
      /\ calls' = calls /\ challenge' = challenge /\ account' = account /\ approved' = approved
      /\ next' = next /\ unreadable' = unreadable /\ unpayable' = unpayable
      /\ last' = IF r.code = "selected" /\ approved = None
                 THEN [challenge |-> challenge, account |-> account, result |-> r] ELSE last
  BY DEF Return
<1>2. challenge \in Challenges /\ account \in Networks
  BY DEF IInv, Progress
<1>3. TypeOK'
  <2>1. last' \in [challenge : Challenges \cup {None}, account : Networks \cup {None}, result : Results]
    BY <1>1, <1>2 DEF IInv, TypeOK, Right
  <2>2. r.detail = None <=> r.code \in {None, "selected"}
    BY DEF Right
  <2> QED
    BY <1>1, <2>1, <2>2 DEF IInv, TypeOK, Right
<1>4. Progress'
  BY <1>1 DEF Progress
<1>5. LastSelected'
  BY <1>1 DEF IInv, LastSelected, Right
<1>6. Entries' = Entries /\ \A e : Payable(e)' = Payable(e)
  BY <1>1 DEF Entries, Payable, PieceRefusal
<1>7. FirstPayable'
  <2>1. FirstIn(r)
    BY DEF Right
  <2> QED
    BY <1>1, <1>6, <2>1 DEF FirstIn, FirstPayable
<1>8. ApprovedAgain'
  <2>1. AgainIn(r)
    BY DEF Right
  <2>2. CASE r.code = "selected" /\ approved = None
    <3>1. r.option \in Options
      BY <2>2 DEF Right, SelectedFrom
    <3>2. last'.result.option # approved'
      BY <1>1, <2>2, <3>1, NoneIsNoCode
    <3> QED
      BY <1>1, <2>1, <3>2 DEF AgainIn, ApprovedAgain
  <2>3. CASE ~(r.code = "selected" /\ approved = None)
    BY <1>1, <2>1, <2>3 DEF AgainIn, ApprovedAgain
  <2> QED
    BY <2>2, <2>3
<1>9. OneFaultOneCode'
  BY <1>1 DEF Right, OneFaultOneCode
<1> QED
  BY <1>3, <1>4, <1>5, <1>7, <1>8, <1>9 DEF IInv

(***************************************************************************)
(* Each action keeps the invariant.                                        *)
(***************************************************************************)
LEMMA AskKeeps == ASSUME IInv, Ask PROVE IInv'
<1>1. /\ calls' = calls + 1 /\ calls < MaxCalls /\ pc' = "begun"
      /\ challenge' \in Challenges /\ account' \in Networks /\ approved' \in Options \cup {None}
      /\ next' = 1 /\ unreadable' = None /\ unpayable' = None /\ result' = NoResult /\ last' = last
  BY DEF Ask
<1>2. TypeOK'
  <2>1. calls' \in 0..MaxCalls
    BY <1>1, SelectionAssumption DEF IInv, TypeOK
  <2>2. NoResult \in Results
    <3>1. Len(Pairings) \in Nat
      BY SelectionAssumption
    <3> QED
      BY <3>1 DEF NoResult, Results
  <2>3. NoResult.detail = None /\ NoResult.code = None
    BY DEF NoResult
  <2> QED
    BY <1>1, <2>1, <2>2, <2>3 DEF IInv, TypeOK
<1>3. Progress'
  BY <1>1 DEF Progress
<1>4. LastSelected'
  BY <1>1 DEF IInv, LastSelected
<1>5. result'.code = None
  BY <1>1 DEF NoResult
<1>6. FirstPayable' /\ ApprovedAgain' /\ OneFaultOneCode'
  BY <1>5, NoneIsNoCode DEF FirstPayable, ApprovedAgain, OneFaultOneCode, Endings
<1> QED
  BY <1>2, <1>3, <1>4, <1>6 DEF IInv

(* What was selected before is on offer and read, so it is not refused when *)
(* the same challenge is asked with it approved.                            *)
LEMMA LastIsNotRefused ==
    ASSUME IInv, last.result.code = "selected", approved = last.result.option,
           challenge = last.challenge, account = last.account
    PROVE  /\ HoldsOption(challenge.accepts)
           /\ ApprovedFault = None
           /\ approved \in Options
           /\ Payable(approved)
           /\ last.result = Selected(approved)
<1>1. SelectedFrom(challenge, account, last.result)
  BY DEF IInv, LastSelected
<1>2. Serving(challenge, approved) # 0
  BY <1>1 DEF SelectedFrom, IsPut
<1>3. ChallengeFault(challenge) = None /\ IsOffered(challenge, approved)
  BY <1>1, <1>2, OfferedIsRead DEF SelectedFrom
<1>4. PieceRefusal(approved) = None
  BY <1>1, PieceAnswers DEF SelectedFrom
<1>5. approved \in Options /\ approved # Null
  BY <1>1, NoneIsNoCode DEF SelectedFrom
<1>6. Payable(approved)
  BY <1>1, <1>4, <1>5 DEF SelectedFrom, Payable
<1>7. HoldsOption(challenge.accepts) /\ last.result = Selected(approved)
  BY <1>1 DEF SelectedFrom, Selected
<1>8. ApprovedFault = None
  BY <1>3 DEF ApprovedFault
<1> QED
  BY <1>5, <1>6, <1>7, <1>8

(* A decline of the whole challenge.                                        *)
LEMMA DeclineIsRight ==
    ASSUME IInv, NEW detail \in Codes,
           ReadFault(challenge) # None => detail = ReadFault(challenge),
           ~(/\ last.result.code = "selected"
             /\ approved = last.result.option
             /\ challenge = last.challenge
             /\ account = last.account)
    PROVE  Right(Declined("offer-unreadable", detail))
<1> DEFINE r == Declined("offer-unreadable", detail)
<1>1. r.code = "offer-unreadable" /\ r.detail = detail
  BY DEF Declined
<1>2. r \in Results
  <2>1. Len(Pairings) \in Nat
    BY SelectionAssumption
  <2> QED
    BY <2>1 DEF Declined, Results, Endings
<1>3. r.code # None /\ r.detail # None
  BY <1>1, NoneIsNoCode DEF Endings
<1>4. FirstIn(r) /\ AgainIn(r)
  BY <1>1 DEF FirstIn, AgainIn
<1> QED
  BY <1>1, <1>2, <1>3, <1>4 DEF Right

LEMMA RefuseAcceptsKeeps == ASSUME IInv, RefuseAccepts PROVE IInv'
<1>1. UnservedCode(challenge) \in Codes
  BY FaultsHaveCodes, FaultIsTold DEF UnservedCode, Codes, FaultCodes
<1>2. ReadFault(challenge) # None => UnservedCode(challenge) = ReadFault(challenge)
  BY FaultIsTold
<1>3. ~HoldsOption(challenge.accepts)
  BY DEF RefuseAccepts
<1>4. Right(Declined("offer-unreadable", UnservedCode(challenge)))
  BY <1>1, <1>2, <1>3, LastIsNotRefused, DeclineIsRight
<1> QED
  BY <1>4, ReturnKeeps DEF RefuseAccepts

LEMMA RefuseApprovedKeeps == ASSUME IInv, RefuseApproved PROVE IInv'
<1>1. ApprovedFault # None
  BY DEF RefuseApproved
<1>2. ApprovedFault \in Codes
  BY <1>1, FaultsHaveCodes DEF ApprovedFault, ChallengeFault, UnservedCode, Codes, FaultCodes
<1>3. ReadFault(challenge) # None => ApprovedFault = ReadFault(challenge)
  BY <1>1, FaultIsTold DEF ApprovedFault
<1>4. Right(Declined("offer-unreadable", ApprovedFault))
  BY <1>1, <1>2, <1>3, LastIsNotRefused, DeclineIsRight
<1> QED
  BY <1>4, ReturnKeeps DEF RefuseApproved

LEMMA BeginKeeps == ASSUME IInv, BeginOptions PROVE IInv'
<1>1. /\ pc = "begun" /\ pc' = "options" /\ HoldsOption(challenge.accepts) /\ ApprovedFault = None
      /\ UNCHANGED <<calls, challenge, account, approved, next, unreadable, unpayable, result, last>>
  BY DEF BeginOptions
<1>2. TypeOK' /\ LastSelected'
  BY <1>1 DEF IInv, TypeOK, LastSelected
<1>3. Progress'
  <2>1. \A i \in DOMAIN Entries : ~(i < next)
    <3>1. Entries \in Seq(Options \cup {Null}) /\ next = 1
      BY <1>1, EntriesKnown DEF IInv, Progress
    <3> QED
      BY <3>1
  <2>2. Entries' = Entries /\ ApprovedFault' = ApprovedFault
    BY <1>1 DEF Entries, ApprovedFault
  <2> QED
    BY <1>1, <2>1, <2>2 DEF IInv, Progress
<1>4. FirstPayable' /\ ApprovedAgain' /\ OneFaultOneCode'
  <2>1. result'.code = None
    BY <1>1 DEF IInv, Progress, NoResult
  <2> QED
    BY <2>1, NoneIsNoCode DEF FirstPayable, ApprovedAgain, OneFaultOneCode, Endings
<1> QED
  BY <1>2, <1>3, <1>4 DEF IInv

LEMMA PassOverKeeps ==
    ASSUME IInv, pc = "options", next \in DOMAIN Entries,
           NEW read \in Codes \cup {None}, NEW piece \in Codes \cup {None},
           PassOver(read, piece),
           ~Payable(Entries[next]),
           ReadFault(challenge) # None => /\ piece = None
                                          /\ Entries[next] # Null => read = ReadFault(challenge)
                                          /\ Entries[next] = Null => read = None
    PROVE  IInv'
<1>1. /\ next' = next + 1
      /\ unreadable' = First(unreadable, read)
      /\ unpayable' = First(unpayable, piece)
      /\ UNCHANGED <<pc, calls, challenge, account, approved, result, last>>
  BY DEF PassOver
<1>2. TypeOK' /\ LastSelected'
  BY <1>1 DEF IInv, TypeOK, LastSelected, First
<1>3. Entries' = Entries /\ ApprovedFault' = ApprovedFault /\ \A e : Payable(e)' = Payable(e)
  BY <1>1 DEF Entries, ApprovedFault, Payable, PieceRefusal
<1>4. Progress'
  <2>1. \A i \in DOMAIN Entries : i < next + 1 => i < next \/ i = next
    <3>1. Entries \in Seq(Options \cup {Null}) /\ next \in Nat
      BY EntriesKnown DEF IInv, Progress, TypeOK
    <3> QED
      BY <3>1
  <2>2. \A i \in DOMAIN Entries : i < next' => ~Payable(Entries[i])
    BY <1>1, <2>1 DEF IInv, Progress
  <2>3. \A i \in DOMAIN Entries' : i < next' => ~Payable(Entries[i])'
    BY <1>1, <1>3, <2>2 DEF Payable, PieceRefusal
  <2>4. CASE ReadFault(challenge) # None
    <3>1. unpayable' = None
      BY <1>1, <2>4 DEF IInv, Progress, First
    <3>2. unreadable' \in {None, ReadFault(challenge)}
      BY <1>1, <2>4 DEF IInv, Progress, First
    <3>3. \A i \in DOMAIN Entries : i < next + 1 /\ Entries[i] # Null => unreadable' = ReadFault(challenge)
      BY <1>1, <2>1, <2>4 DEF IInv, Progress, First
    <3> QED
      BY <1>1, <1>3, <2>3, <3>1, <3>2, <3>3 DEF IInv, Progress
  <2>5. CASE ReadFault(challenge) = None
    BY <1>1, <1>3, <2>3, <2>5 DEF IInv, Progress
  <2> QED
    BY <2>4, <2>5
<1>5. FirstPayable' /\ ApprovedAgain' /\ OneFaultOneCode'
  <2>1. result'.code = None
    BY <1>1 DEF IInv, Progress, NoResult
  <2> QED
    BY <2>1, NoneIsNoCode DEF FirstPayable, ApprovedAgain, OneFaultOneCode, Endings
<1> QED
  BY <1>2, <1>4, <1>5 DEF IInv

(* An entry of the loop is one of the challenge's.                          *)
LEMMA EntryOffered ==
    ASSUME IInv, pc = "options", NEW i \in DOMAIN Entries, Entries[i] # Null
    PROVE  /\ Entries[i] \in Options
           /\ \E j \in DOMAIN challenge.accepts : challenge.accepts[j] = Entries[i]
<1>1. challenge \in Challenges /\ HoldsOption(challenge.accepts) /\ ApprovedFault = None
  BY DEF IInv, Progress
<1>2. CASE approved = None
  BY <1>1, <1>2, EntriesKnown DEF IInv
<1>3. CASE approved # None
  <2>1. Entries = <<approved>> /\ approved \in Options
    BY <1>1, <1>3, EntriesKnown DEF IInv
  <2>2. Entries[i] = approved
    BY <2>1
  <2>3. IsOffered(challenge, approved)
    BY <1>1, <1>3, NoneIsNoCode DEF ApprovedFault, Codes
  <2> QED
    BY <2>1, <2>2, <2>3 DEF IsOffered
<1> QED
  BY <1>2, <1>3

LEMMA SelectKeeps ==
    ASSUME IInv, pc = "options", next \in DOMAIN Entries, Payable(Entries[next]),
           Return(Selected(Entries[next]))
    PROVE  IInv'
<1> DEFINE entry == Entries[next]
<1> DEFINE r == Selected(entry)
<1>1. entry # Null /\ IsPut(challenge, entry) /\ PieceRefusal(entry) = None
  BY DEF Payable
<1>2. entry \in Options /\ \E j \in DOMAIN challenge.accepts : challenge.accepts[j] = entry
  BY <1>1, EntryOffered
<1>3. challenge \in Challenges /\ HoldsOption(challenge.accepts)
  BY DEF IInv, Progress
<1>4. r = [code |-> "selected", detail |-> None, option |-> entry, pairing |-> Serving(challenge, entry)]
  BY DEF Selected
<1>5. r \in Results
  BY <1>2, <1>4, ServingServes DEF Results, Endings
<1>6. SelectedFrom(challenge, account, r)
  BY <1>1, <1>2, <1>3, <1>4, PieceAnswers DEF SelectedFrom
<1>7. FirstIn(r)
  <2>1. Entries \in Seq(Options \cup {Null}) /\ next \in Nat
    BY <1>3, EntriesKnown DEF IInv, TypeOK
  <2>2. \A k \in DOMAIN Entries : Payable(Entries[k]) => next <= k
    BY <2>1 DEF IInv, Progress
  <2> QED
    BY <1>4, <2>2 DEF FirstIn
<1>8. approved # None => entry = approved
  <2>1. approved # None => Entries = <<approved>>
    BY <1>3, EntriesKnown DEF IInv
  <2> QED
    BY <2>1
<1>9. AgainIn(r)
  <2>1. ASSUME last.result.code = "selected", approved = last.result.option,
               challenge = last.challenge, account = last.account
        PROVE  r = last.result
    <3>1. last.result = Selected(approved) /\ approved \in Options
      BY <2>1, LastIsNotRefused
    <3>2. approved # None
      BY <3>1, NoneIsNoCode
    <3> QED
      BY <1>8, <3>1, <3>2
  <2>2. r.option = entry
    BY <1>4
  <2> QED
    BY <1>2, <1>8, <2>1, <2>2 DEF AgainIn
<1>10. ReadFault(challenge) = None
  <2>1. Serving(challenge, entry) # 0
    BY <1>1 DEF IsPut
  <2> QED
    BY <1>2, <1>3, <2>1, OfferedIsRead
<1>11. r.code = "selected" /\ r.detail = None
  BY <1>4
<1>12. Right(r)
  BY <1>5, <1>6, <1>7, <1>9, <1>10, <1>11, NoneIsNoCode DEF Right, Endings
<1> QED
  BY <1>12, ReturnKeeps

LEMMA TryEntryKeeps == ASSUME IInv, TryEntry PROVE IInv'
<1> DEFINE entry == Entries[next]
<1>1. pc = "options" /\ next <= Len(Entries)
  BY DEF TryEntry
<1>2. Entries \in Seq(Options \cup {Null}) /\ next \in Nat \ {0}
  BY <1>1, EntriesKnown DEF IInv, Progress, TypeOK
<1>3. next \in DOMAIN Entries /\ entry \in Options \cup {Null}
  BY <1>1, <1>2
<1>4. challenge \in Challenges /\ HoldsOption(challenge.accepts)
  BY <1>1 DEF IInv, Progress
<1>5. CASE entry = Null /\ PassOver(None, None)
  BY <1>1, <1>3, <1>5, PassOverKeeps DEF Payable
<1>6. CASE entry # Null /\ ~IsPut(challenge, entry) /\ PassOver(ReadFault(Only(challenge, entry)), None)
  <2>1. ReadFault(Only(challenge, entry)) = ReadFault(challenge)
    BY <1>3, <1>4, OneOptionOneFault
  <2>2. ReadFault(challenge) \in Codes \cup {None}
    BY FaultsHaveCodes DEF FaultCodes, Codes
  <2> QED
    BY <1>1, <1>3, <1>6, <2>1, <2>2, PassOverKeeps DEF Payable
<1>7. CASE entry # Null /\ IsPut(challenge, entry) /\ PieceRefusal(entry) # None /\ PassOver(None, PieceRefusal(entry))
  <2>1. PieceRefusal(entry) \in Codes \cup {None}
    BY PieceAnswers DEF Codes
  <2>2. ReadFault(challenge) = None
    <3>1. Serving(challenge, entry) # 0
      BY <1>7 DEF IsPut
    <3>2. entry \in Options /\ \E j \in DOMAIN challenge.accepts : challenge.accepts[j] = entry
      BY <1>1, <1>3, <1>7, EntryOffered
    <3> QED
      BY <1>4, <3>1, <3>2, OfferedIsRead
  <2> QED
    BY <1>1, <1>3, <1>7, <2>1, <2>2, PassOverKeeps DEF Payable
<1>8. CASE /\ entry # Null /\ IsPut(challenge, entry) /\ PieceRefusal(entry) = None
           /\ Return(Selected(entry))
  BY <1>1, <1>3, <1>8, SelectKeeps DEF Payable
<1> QED
  BY <1>5, <1>6, <1>7, <1>8 DEF TryEntry

LEMMA EndKeeps == ASSUME IInv, EndOptions PROVE IInv'
<1>1. pc = "options" /\ next > Len(Entries)
  BY DEF EndOptions
<1>2. challenge \in Challenges /\ HoldsOption(challenge.accepts) /\ ApprovedFault = None
  BY <1>1 DEF IInv, Progress
<1>3. \A i \in DOMAIN Entries : i < next
  <2>1. Entries \in Seq(Options \cup {Null}) /\ next \in Nat
    BY <1>2, EntriesKnown DEF IInv, TypeOK
  <2> QED
    BY <1>1, <2>1
<1>4. \A i \in DOMAIN Entries : ~Payable(Entries[i])
  BY <1>1, <1>3 DEF IInv, Progress
<1>5. ~(/\ last.result.code = "selected" /\ approved = last.result.option
        /\ challenge = last.challenge /\ account = last.account)
  <2> SUFFICES ASSUME last.result.code = "selected", approved = last.result.option,
                      challenge = last.challenge, account = last.account
               PROVE  FALSE
    OBVIOUS
  <2>1. approved \in Options /\ Payable(approved)
    BY LastIsNotRefused
  <2>2. Entries = <<approved>>
    BY <1>2, <2>1, EntriesKnown, NoneIsNoCode DEF IInv
  <2>3. 1 \in DOMAIN Entries /\ Entries[1] = approved
    BY <2>2
  <2> QED
    BY <1>4, <2>1, <2>3
(* With a fault of the whole challenge, some entry met it.                  *)
<1>6. ASSUME ReadFault(challenge) # None
      PROVE  unpayable = None /\ unreadable = ReadFault(challenge)
  <2>1. approved = None
    BY <1>2, <1>6, FaultIsTold DEF ApprovedFault
  <2>2. \E i \in DOMAIN Entries : Entries[i] # Null
    BY <1>2, <2>1, EntriesKnown DEF IInv, HoldsOption
  <2> QED
    BY <1>1, <1>3, <1>6, <2>2 DEF IInv, Progress
<1>7. unreadable \in Codes \cup {None} /\ unpayable \in Codes \cup {None}
  BY DEF IInv, TypeOK
<1>8. CASE unpayable = None /\ unreadable # None
  <2>1. unreadable \in Codes
    BY <1>7, <1>8
  <2>2. ReadFault(challenge) # None => unreadable = ReadFault(challenge)
    BY <1>6
  <2>3. Right(Declined("offer-unreadable", unreadable))
    BY <1>5, <2>1, <2>2, DeclineIsRight
  <2>4. Return(Declined("offer-unreadable", unreadable))
    BY <1>8 DEF EndOptions
  <2> QED
    BY <1>1, <2>3, <2>4, ReturnKeeps
<1>9. CASE ~(unpayable = None /\ unreadable # None)
  <2> DEFINE detail == First(unpayable, "no-payable-option")
  <2> DEFINE r == Declined("no-payable-option", detail)
  <2>1. ReadFault(challenge) = None
    BY <1>6, <1>9
  <2>2. detail \in Codes
    BY <1>7 DEF First, Codes
  <2>3. r.code = "no-payable-option" /\ r.detail = detail
    BY DEF Declined
  <2>4. r \in Results
    <3>1. Len(Pairings) \in Nat
      BY SelectionAssumption
    <3> HIDE DEF detail
    <3> QED
      BY <2>2, <3>1 DEF Declined, Results, Endings
  <2>5. FirstIn(r)
    BY <1>4, <2>3 DEF FirstIn
  <2>6. AgainIn(r)
    BY <1>5, <2>3 DEF AgainIn
  <2>7. r.detail # None /\ r.code # None
    BY <2>2, <2>3, NoneIsNoCode DEF Endings
  <2>8. Right(r)
    BY <2>1, <2>3, <2>4, <2>5, <2>6, <2>7 DEF Right
  <2>9. Return(r)
    BY <1>9 DEF EndOptions
  <2> HIDE DEF r
  <2> QED
    BY <1>1, <2>8, <2>9, ReturnKeeps
<1> QED
  BY <1>8, <1>9

(***************************************************************************)
(* The theorems.                                                           *)
(***************************************************************************)
LEMMA InvariantStarts == Init => IInv
<1> SUFFICES ASSUME Init PROVE IInv
  OBVIOUS
<1>1. /\ NoResult.code = None /\ NoResult.detail = None
      /\ NoResult \in Results
  <2>1. Len(Pairings) \in Nat
    BY SelectionAssumption
  <2> QED
    BY <2>1 DEF NoResult, Results
<1>2. None # "selected" /\ None # "no-payable-option"
  BY NoneIsNoCode DEF Endings
<1>3. result = NoResult /\ last = [challenge |-> None, account |-> None, result |-> NoResult] /\ pc = "idle"
  BY DEF Init
<1>4. TypeOK
  BY <1>1, <1>3, SelectionAssumption DEF Init, TypeOK
<1>5. Progress /\ LastSelected
  BY <1>1, <1>2, <1>3 DEF Progress, LastSelected
<1>6. FirstPayable /\ ApprovedAgain /\ OneFaultOneCode
  BY <1>1, <1>2, <1>3 DEF FirstPayable, ApprovedAgain, OneFaultOneCode
<1> QED
  BY <1>4, <1>5, <1>6 DEF IInv

LEMMA InvariantSteps == IInv /\ [Next]_vars => IInv'
<1> SUFFICES ASSUME IInv, [Next]_vars PROVE IInv'
  OBVIOUS
<1>1. CASE Next
  BY <1>1, AskKeeps, RefuseAcceptsKeeps, RefuseApprovedKeeps, BeginKeeps, TryEntryKeeps, EndKeeps DEF Next
<1>2. CASE UNCHANGED vars
  <2>1. TypeOK' /\ LastSelected'
    BY <1>2 DEF IInv, vars, TypeOK, LastSelected
  <2>2. Progress'
    BY <1>2 DEF IInv, vars, Progress, ApprovedFault, Entries, Payable, PieceRefusal
  <2>3. FirstPayable'
    BY <1>2 DEF IInv, vars, FirstPayable, Entries, Payable, PieceRefusal
  <2>4. ApprovedAgain' /\ OneFaultOneCode'
    BY <1>2 DEF IInv, vars, ApprovedAgain, OneFaultOneCode
  <2> QED
    BY <2>1, <2>2, <2>3, <2>4 DEF IInv
<1> QED
  BY <1>1, <1>2

LEMMA Invariant == Spec => []IInv
  BY InvariantStarts, InvariantSteps, PTL DEF Spec

(* The selection's state keeps its types, and what it returns has one of    *)
(* the codes the reads and the pieces give.                                 *)
THEOREM TypeCorrect == Spec => []TypeOK
<1>1. IInv => TypeOK
  BY DEF IInv
<1> QED
  BY <1>1, Invariant, PTL

(* What is selected is the first payable entry in document order, and       *)
(* nothing is declined as not payable while an entry is (_select).          *)
THEOREM SelectsFirst == Spec => []FirstPayable
<1>1. IInv => FirstPayable
  BY DEF IInv
<1> QED
  BY <1>1, Invariant, PTL

(* The option a selection gave is selected again, by the same pairing, when *)
(* it is asked for with the same challenge and account; and nothing but an  *)
(* approved option that is on offer is ever selected for it (agree).        *)
THEOREM SelectsAgain == Spec => []ApprovedAgain
<1>1. IInv => ApprovedAgain
  BY DEF IInv
<1> QED
  BY <1>1, Invariant, PTL

(* A fault of the whole challenge is told with its one code on each of the  *)
(* three paths that meet it (_select).                                      *)
THEOREM TellsOneCode == Spec => []OneFaultOneCode
<1>1. IInv => OneFaultOneCode
  BY DEF IInv
<1> QED
  BY <1>1, Invariant, PTL
================================================================================
