------------------------------- MODULE MppProofs -------------------------------
(***************************************************************************)
(* Proofs about Mpp, for every set of documents, whatever becomes of them  *)
(* on their way and of the caller's challenge while the payer signs.       *)
(***************************************************************************)
EXTENDS Mpp, WellFoundedInduction, TLAPS

(* A set of naturals that holds one has a least.                            *)
LEMMA LeastNumber ==
    ASSUME NEW T \in SUBSET Nat, T # {}
    PROVE  \E x \in T : \A y \in T : x <= y
<1>1. PICK x \in T : \A y \in T : ~ (<<y, x>> \in OpToRel(<, Nat))
  BY WFMin, NatLessThanWellFounded
<1>2. \A y \in T : ~ (y < x)
  BY <1>1 DEF OpToRel
<1>3. \A y \in T : y \in Nat
  OBVIOUS
<1>4. \A y \in T : x <= y
  BY <1>2, <1>3
<1> QED
  BY <1>4

(* What holds of 0, and of a number when of the one before, holds of all.   *)
LEMMA Upto ==
    ASSUME NEW k \in Nat, NEW T, 0 \in T, \A n \in 1..k : n - 1 \in T => n \in T
    PROVE  \A n \in 0..k : n \in T
<1> DEFINE others == {n \in 0..k : n \notin T}
<1> SUFFICES ASSUME others # {}
             PROVE  FALSE
  OBVIOUS
<1>1. PICK n \in others : \A m \in others : n <= m
  <2>1. others \in SUBSET Nat
    OBVIOUS
  <2> HIDE DEF others
  <2> QED
    BY <2>1, LeastNumber
<1>2. n \in 1..k /\ n - 1 \in 0..k /\ n - 1 \notin others
  BY <1>1
<1> QED
  BY <1>2

(* FirstFault finds no fault exactly when there is none, and names what it  *)
(* is given to name exactly then.                                           *)
LEMMA FaultsFound ==
    ASSUME NEW n \in Nat, NEW faults, DOMAIN faults = 1..n, NEW names,
           \A i \in 1..n : faults[i][1] => faults[i][2] # "none"
    PROVE  /\ FirstFault(faults, names).code = "none" <=> \A i \in 1..n : ~faults[i][1]
           /\ FirstFault(faults, names)
                = IF FirstFault(faults, names).code = "none" THEN Offers(names) ELSE No(FirstFault(faults, names).code)
<1> DEFINE found == {i \in DOMAIN faults : faults[i][1]}
<1>1. CASE found = {}
  BY <1>1 DEF FirstFault, Offers
<1>2. CASE found # {}
  <2>1. found \in SUBSET Nat
    OBVIOUS
  <2>2. \E x \in found : \A y \in found : x <= y
    <3> HIDE DEF found
    <3> QED
      BY <1>2, <2>1, LeastNumber
  <2>3. Min(found) \in found
    BY <2>2 DEF Min
  <2>4. FirstFault(faults, names) = No(faults[Min(found)][2]) /\ faults[Min(found)][2] # "none"
    BY <1>2, <2>3 DEF FirstFault
  <2> QED
    BY <2>3, <2>4 DEF No
<1> QED
  BY <1>1, <1>2

(* Every fault of a list is cleared where something is named after it.      *)
LEMMA NamedClears ==
    ASSUME NEW n \in Nat, NEW faults, DOMAIN faults = 1..n, NEW names,
           \A i \in 1..n : faults[i][2] # "none",
           FirstFault(faults, names).names # {} \/ FirstFault(faults, names).code = "none"
    PROVE  \A i \in 1..n : ~faults[i][1]
<1>1. /\ FirstFault(faults, names).code = "none" <=> \A i \in 1..n : ~faults[i][1]
      /\ FirstFault(faults, names)
           = IF FirstFault(faults, names).code = "none" THEN Offers(names) ELSE No(FirstFault(faults, names).code)
  BY FaultsFound, Zenon
<1>2. FirstFault(faults, names).code = "none"
  BY <1>1 DEF No
<1> QED
  BY <1>1, <1>2, Zenon

(***************************************************************************)
(* What build holds, bound takes.                                           *)
(***************************************************************************)
(* The checks bound makes first, as a conjunction.                          *)
Held(ch, payload) ==
    /\ ch.shape /\ ch.id.string /\ Within(ch.size, payload)
    /\ ch.realm # "unencodable"
    /\ challenge_id_h(ch) # Absent
    /\ ch.opaque.form # "absent"
    /\ ch.opaque.form # "bad"
    /\ ch.opaque.h = challenge_id_h(ch)
    /\ ch.request # "bad"

(* bound finds no fault in a challenge exactly when all of them hold.       *)
LEMMA BoundHolds ==
    ASSUME NEW ch, NEW payload
    PROVE  challenge_bound(ch, payload) = "none" <=> Held(ch, payload)
<1> DEFINE faults ==
        << <<~ch.shape \/ ~ch.id.string \/ ~Within(ch.size, payload), "mpp/credential-malformed">>,
           <<ch.realm = "unencodable", "mpp/challenge-malformed">>,
           <<challenge_id_h(ch) = Absent, "mpp/id-not-ours">>,
           <<ch.opaque.form = "absent", "mpp/opaque-not-this-hash">>,
           <<ch.opaque.form = "bad", "mpp/opaque-malformed">>,
           <<ch.opaque.h # challenge_id_h(ch), "mpp/opaque-not-this-hash">>,
           <<ch.request = "bad", "mpp/request-malformed">> >>
<1>1. DOMAIN faults = 1..7
  OBVIOUS
<1>2. \A i \in 1..7 : faults[i][2] # "none"
  OBVIOUS
<1>3. challenge_bound(ch, payload) = "none" <=> \A i \in 1..7 : ~faults[i][1]
  <2> HIDE DEF faults
  <2>1. FirstFault(faults, {}).code = "none" <=> \A i \in 1..7 : ~faults[i][1]
    BY <1>1, <1>2, FaultsFound
  <2> QED
    BY <2>1 DEF challenge_bound, faults
<1>4. (\A i \in 1..7 : ~faults[i][1])
        <=> ~faults[1][1] /\ ~faults[2][1] /\ ~faults[3][1] /\ ~faults[4][1] /\ ~faults[5][1] /\ ~faults[6][1]
            /\ ~faults[7][1]
  <2> HIDE DEF faults
  <2>1. \A i \in 1..7 : i = 1 \/ i = 2 \/ i = 3 \/ i = 4 \/ i = 5 \/ i = 6 \/ i = 7
    OBVIOUS
  <2> QED
    BY <2>1
<1>5. /\ faults[1][1] = (~ch.shape \/ ~ch.id.string \/ ~Within(ch.size, payload))
      /\ faults[2][1] = (ch.realm = "unencodable")
      /\ faults[3][1] = (challenge_id_h(ch) = Absent)
      /\ faults[4][1] = (ch.opaque.form = "absent")
      /\ faults[5][1] = (ch.opaque.form = "bad")
      /\ faults[6][1] = (ch.opaque.h # challenge_id_h(ch))
      /\ faults[7][1] = (ch.request = "bad")
  OBVIOUS
<1> HIDE DEF faults
<1> QED
  BY <1>3, <1>4, <1>5, Zenon DEF Held

(* What is held with an empty payload and measured with its own is held     *)
(* with its own.                                                            *)
LEMMA MeasuredHolds ==
    ASSUME NEW ch, NEW p, held_for(ch, FALSE, p) = "none", measured(ch)
    PROVE  held_for(ch, TRUE, p) = "none"
<1>1. challenge_bound(ch, FALSE) = "none"
  BY DEF held_for, Or
<1>2. Held(ch, FALSE)
  BY <1>1, BoundHolds
<1>3. Within(ch.size, TRUE)
  BY DEF measured
<1>4. Held(ch, TRUE)
  BY <1>2, <1>3 DEF Held
<1>5. challenge_bound(ch, TRUE) = "none"
  BY <1>4, BoundHolds
<1> QED
  BY <1>1, <1>5 DEF held_for, Or

(* What build takes, it holds as bound will, of the offer's hash.           *)
LEMMA SnapshotHolds ==
    ASSUME NEW ch, NEW p, NEW ours, NEW funding, BuildFault(p, ch, ours, funding) = "none"
    PROVE  /\ held_for(challenge_snapshot(ch), FALSE, p) = "none"
           /\ challenge_id_h(challenge_snapshot(ch)) = offer.h
<1>1. chosen_for(ch, offer.h, p) = "none"
  BY DEF BuildFault, Or
<1>2. chosen_held(ch, p) = "none" /\ challenge_id_h(ch) = offer.h
  BY <1>1 DEF chosen_for, Or
<1>3. challenge_snapshot(ch).id = ch.id /\ challenge_snapshot(ch).key = ch.key
  BY DEF challenge_snapshot
<1>4. challenge_id_h(challenge_snapshot(ch)) = challenge_id_h(ch)
  BY <1>3 DEF challenge_id_h
<1> QED
  BY <1>2, <1>4 DEF chosen_held

Holds(ch, payload) == held_for(ch, payload, pairing) = "none" /\ challenge_id_h(ch) = offer.h

(* What build holds, and what a pairing that echoes it hands to bound.      *)
EchoHeld ==
    /\ stage = "request" => Holds(held, FALSE)
    /\ pairing # "mpp/charge/hedera" =>
        /\ stage \in {"payment", "bound"} => Holds(echo, TRUE)
        /\ stage = "bound" => code = "none"

(* Every step keeps EchoHeld.                                               *)
LEMMA EchoSteps == EchoHeld /\ [Next]_vars => EchoHeld'
<1> SUFFICES ASSUME EchoHeld, [Next]_vars
             PROVE  EchoHeld'
  OBVIOUS
<1>1. ASSUME NEW d \in Documents, Issue(d)
      PROVE  EchoHeld'
  BY <1>1 DEF Issue, EchoHeld
<1>2. ASSUME NEW h, NEW link, NEW agreement, Place(h, link, agreement)
      PROVE  EchoHeld'
  BY <1>2 DEF Place, EchoHeld
<1>3. ASSUME NEW i, NEW ch, Change(i, ch)
      PROVE  EchoHeld'
  BY <1>3 DEF Change, EchoHeld
<1>4. CASE Read
  BY <1>4 DEF Read, EchoHeld
<1>5. ASSUME NEW p, NEW account, Choose(p, account)
      PROVE  EchoHeld'
  BY <1>5 DEF Choose, EchoHeld
<1>6. ASSUME NEW ours, NEW funding, Build(ours, funding)
      PROVE  EchoHeld'
  <2>1. CASE BuildFault(pairing, mine, ours, funding) = "none"
    <3>1. stage' = "request" /\ held' = challenge_snapshot(mine) /\ pairing' = pairing /\ offer' = offer
      BY <1>6, <2>1 DEF Build
    <3>2. /\ held_for(challenge_snapshot(mine), FALSE, pairing) = "none"
          /\ challenge_id_h(challenge_snapshot(mine)) = offer.h
      BY <2>1, SnapshotHolds
    <3> QED
      BY <3>1, <3>2 DEF EchoHeld, Holds
  <2>2. CASE BuildFault(pairing, mine, ours, funding) # "none"
    BY <1>6, <2>2 DEF Build, EchoHeld
  <2> QED
    BY <2>1, <2>2
<1>7. ASSUME NEW ch, ChangeMine(ch)
      PROVE  EchoHeld'
  BY <1>7 DEF ChangeMine, EchoHeld, Holds
<1>8. CASE Complete
  <2>1. CASE pairing # "mpp/charge/hedera" /\ measured(held)
    <3>1. echo' = held /\ pairing' = pairing /\ offer' = offer /\ stage = "request" /\ stage' # "bound"
      BY <1>8, <2>1 DEF Complete, Echo
    <3>2. held_for(held, TRUE, pairing) = "none" /\ challenge_id_h(held) = offer.h
      BY <2>1, <3>1, MeasuredHolds DEF EchoHeld, Holds
    <3>3. stage' # "request"
      BY <1>8 DEF Complete
    <3> QED
      BY <3>1, <3>2, <3>3 DEF EchoHeld, Holds
  <2>2. CASE pairing # "mpp/charge/hedera" /\ ~measured(held)
    <3>1. stage' = "done"
      BY <1>8, <2>2 DEF Complete, Echo
    <3> QED
      BY <3>1 DEF EchoHeld
  <2>3. CASE pairing = "mpp/charge/hedera"
    BY <1>8, <2>3 DEF Complete, EchoHeld
  <2> QED
    BY <2>1, <2>2, <2>3
<1>9. CASE Bound
  BY <1>9 DEF Bound, EchoHeld, Holds
<1>10. CASE UNCHANGED vars
  BY <1>10 DEF vars, EchoHeld, Holds
<1> QED
  BY <1>1, <1>2, <1>3, <1>4, <1>5, <1>6, <1>7, <1>8, <1>9, <1>10 DEF Next

(* For every pairing whose complete echoes the snapshot build held, bound   *)
(* takes the credential and reads the hash build was asked for, whatever    *)
(* becomes of the document and of the caller's challenge (chosen_held).     *)
THEOREM EchoTaken == Spec => [](pairing # "mpp/charge/hedera" => EchoIsTaken)
<1>1. Init => EchoHeld
  BY DEF Init, EchoHeld
<1>2. EchoHeld => (pairing # "mpp/charge/hedera" => EchoIsTaken)
  BY DEF EchoHeld, EchoIsTaken, Holds
<1> QED
  BY <1>1, <1>2, EchoSteps, PTL DEF Spec

(***************************************************************************)
(* read: the offer it returns is one agreement's.                          *)
(***************************************************************************)
ReadCodes ==
    {"none", "mpp/legal-context-conflict", "mpp/link-not-https", "mpp/legal-context-malformed", "mpp/no-legal-context",
     "mpp/challenge-malformed"}

Offer ==
    [code : ReadCodes, h : Hashes \cup {Absent}, link : Urls, agreement : Urls, challenges : Seq(Challenges),
     notHttps : BOOLEAN, malformed : BOOLEAN]

(* A challenge of the offer r: one of ours, of its hash, link and agreement.*)
Agrees(r, ch) ==
    /\ ch.shape /\ ch.opaque.form = "map"
    /\ ch.opaque.h = r.h /\ challenge_id_h(ch) = r.h /\ r.h # Absent
    /\ ch.opaque.link = r.link /\ IsLink(r.link)
    /\ ch.opaque.agreement \in {"absent", r.agreement}

OneAgreement(r) == r \in Offer /\ \A i \in DOMAIN r.challenges : Agrees(r, r.challenges[i])

(* Before anything is read there is nothing to disagree.                    *)
LEMMA UnreadAgrees == OneAgreement(Unread)
<1>1. Unread \in Offer
  BY DEF Unread, Offer, ReadCodes, Urls
<1>2. DOMAIN Unread.challenges = {}
  BY DEF Unread
<1> QED
  BY <1>1, <1>2 DEF OneAgreement

(* A challenge read after others of one agreement is refused, passed over,  *)
(* or of that agreement.                                                    *)
LEMMA ReadOneAgrees ==
    ASSUME NEW r, OneAgreement(r), NEW ch \in Challenges
    PROVE  OneAgreement(ReadOne(r, ch))
<1> DEFINE o == ch.opaque
           ours == ch.shape /\ o.form = "map" /\ o.h # Absent /\ challenge_id_h(ch) = o.h
<1>1. r \in Offer
  BY DEF OneAgreement
<1>2. o \in [form : {"absent", "map", "bad"}, h : Hashes \cup {Absent}, link : Urls, agreement : Urls]
  BY DEF Challenges
<1>3. CASE r.code # "none" \/ ~ours
  BY <1>3 DEF ReadOne
<1>4. CASE ~(r.code # "none" \/ ~ours) /\ o.link = "other-scheme"
  <2>1. ReadOne(r, ch) = [r EXCEPT !.notHttps = TRUE]
    BY <1>4 DEF ReadOne
  <2> QED
    BY <1>1, <2>1 DEF OneAgreement, Offer, Agrees
<1>5. CASE ~(r.code # "none" \/ ~ours) /\ o.link # "other-scheme" /\ ~IsLink(o.link)
  <2>1. ReadOne(r, ch) = [r EXCEPT !.malformed = TRUE]
    BY <1>5 DEF ReadOne
  <2> QED
    BY <1>1, <2>1 DEF OneAgreement, Offer, Agrees
<1>6. ASSUME NEW refusal \in ReadCodes, ReadOne(r, ch) = [r EXCEPT !.code = refusal]
      PROVE  OneAgreement(ReadOne(r, ch))
  BY <1>1, <1>6 DEF OneAgreement, Offer, Agrees
<1> DEFINE taken == ~(r.code # "none" \/ ~ours) /\ o.link # "other-scheme" /\ IsLink(o.link) /\ ~Conflict(r, o)
                    /\ ~(o.agreement # "absent" /\ ~IsLink(o.agreement))
                    /\ ~(o.agreement # "absent" /\ r.agreement \notin {"absent", o.agreement})
<1>7. CASE ~(r.code # "none" \/ ~ours) /\ o.link # "other-scheme" /\ IsLink(o.link) /\ ~taken
  <2>1. CASE Conflict(r, o)
    <3>1. ReadOne(r, ch) = [r EXCEPT !.code = "mpp/legal-context-conflict"]
      BY <1>7, <2>1 DEF ReadOne
    <3>2. "mpp/legal-context-conflict" \in ReadCodes
      BY DEF ReadCodes
    <3> QED
      BY <1>6, <3>1, <3>2
  <2>2. CASE ~Conflict(r, o) /\ o.agreement # "absent" /\ ~IsLink(o.agreement)
    <3>1. agreement_fault(o.agreement) \in ReadCodes
      BY DEF agreement_fault, ReadCodes
    <3>2. ReadOne(r, ch) = [r EXCEPT !.code = agreement_fault(o.agreement)]
      BY <1>7, <2>2 DEF ReadOne
    <3> QED
      BY <1>6, <3>1, <3>2
  <2>3. CASE ~Conflict(r, o) /\ ~(o.agreement # "absent" /\ ~IsLink(o.agreement))
    <3>1. ReadOne(r, ch) = [r EXCEPT !.code = "mpp/legal-context-conflict"]
      BY <1>7, <2>3 DEF ReadOne
    <3>2. "mpp/legal-context-conflict" \in ReadCodes
      BY DEF ReadCodes
    <3> QED
      BY <1>6, <3>1, <3>2
  <2> QED
    BY <2>1, <2>2, <2>3
<1>8. CASE taken
  <2> DEFINE agreement == IF o.agreement = "absent" THEN r.agreement ELSE o.agreement
             s == ReadOne(r, ch)
  <2>1. s = [r EXCEPT !.h = o.h, !.link = o.link, !.challenges = Append(r.challenges, ch), !.agreement = agreement]
    BY <1>8 DEF ReadOne
  <2>2. agreement \in Urls /\ o.h \in Hashes \cup {Absent} /\ o.link \in Urls
        /\ Append(r.challenges, ch) \in Seq(Challenges)
    BY <1>1, <1>2 DEF Offer
  <2>3. /\ s.h = o.h /\ s.link = o.link /\ s.agreement = agreement
        /\ s.challenges = Append(r.challenges, ch)
        /\ s \in Offer
    <3> HIDE DEF s, agreement, o
    <3> QED
      BY <1>1, <2>1, <2>2 DEF Offer
  <2> HIDE DEF s
  <2>4. Agrees(s, ch)
    BY <1>8, <2>3 DEF Agrees
  <2>5. ASSUME NEW i \in DOMAIN r.challenges
        PROVE  Agrees(s, r.challenges[i])
    <3>1. Agrees(r, r.challenges[i])
      BY DEF OneAgreement
    <3>2. r.h # Absent /\ r.link # "absent"
      BY <3>1 DEF Agrees, IsLink
    <3>3. s.h = r.h /\ s.link = r.link
      BY <1>8, <2>3, <3>2 DEF Conflict
    <3>4. r.agreement # "absent" => s.agreement = r.agreement
      BY <1>8, <2>3
    <3> QED
      BY <3>1, <3>3, <3>4 DEF Agrees
  <2>6. \A i \in DOMAIN s.challenges : \/ i \in DOMAIN r.challenges /\ s.challenges[i] = r.challenges[i]
                                      \/ s.challenges[i] = ch
    <3>1. r.challenges \in Seq(Challenges)
      BY <1>1 DEF Offer
    <3> QED
      BY <2>3, <3>1
  <2> QED
    BY <2>3, <2>4, <2>5, <2>6 DEF OneAgreement, s
<1> QED
  BY <1>3, <1>4, <1>5, <1>7, <1>8

(* f reads the first k challenges of d, one after another, as read does.    *)
IsReading(f, d, k) == f = [n \in 0..k |-> IF n = 0 THEN Unread ELSE ReadOne(f[n - 1], d[n])]

(* A reading of k challenges goes on to one of k + 1.                       *)
LEMMA LongerReading ==
    ASSUME NEW d, NEW k \in Nat, NEW f, IsReading(f, d, k)
    PROVE  \E g : IsReading(g, d, k + 1)
<1> DEFINE last == ReadOne(f[k], d[k + 1])
           g == [n \in 0..(k + 1) |-> IF n = k + 1 THEN last ELSE f[n]]
<1>1. \A n \in 0..k : f[n] = IF n = 0 THEN Unread ELSE ReadOne(f[n - 1], d[n])
  BY DEF IsReading
<1>2. \A n \in 0..(k + 1) : g[n] = IF n = 0 THEN Unread ELSE ReadOne(g[n - 1], d[n])
  <2> SUFFICES ASSUME NEW n \in 0..(k + 1)
               PROVE  g[n] = IF n = 0 THEN Unread ELSE ReadOne(g[n - 1], d[n])
    OBVIOUS
  <2>1. CASE n = k + 1
    <3>1. n # 0 /\ n - 1 = k /\ n - 1 \in 0..(k + 1) /\ n - 1 # k + 1
      BY <2>1
    <3>2. g[n] = last /\ g[n - 1] = f[k]
      BY <2>1, <3>1
    <3> QED
      BY <2>1, <3>1, <3>2
  <2>2. CASE n # k + 1
    <3>1. n \in 0..k /\ g[n] = f[n]
      BY <2>2
    <3>2. n # 0 => n - 1 \in 0..(k + 1) /\ n - 1 # k + 1
      BY <2>2
    <3>3. n # 0 => g[n - 1] = f[n - 1]
      BY <3>2
    <3> QED
      BY <1>1, <3>1, <3>3
  <2> QED
    BY <2>1, <2>2
<1>3. g = [n \in 0..(k + 1) |-> g[n]]
  OBVIOUS
<1> HIDE DEF g
<1>4. IsReading(g, d, k + 1)
  BY <1>2, <1>3 DEF IsReading
<1> QED
  BY <1>4

(* Any number of challenges can be read one after another.                  *)
LEMMA Reading ==
    ASSUME NEW d, NEW k \in Nat
    PROVE  \E f : IsReading(f, d, k)
<1> DEFINE lengths == {m \in Nat : \E f : IsReading(f, d, m)}
<1>1. 0 \in lengths
  <2> DEFINE f == [n \in 0..0 |-> Unread]
  <2>1. IsReading(f, d, 0)
    BY DEF IsReading
  <2> QED
    BY <2>1
<1>2. \A m \in 1..k : m - 1 \in lengths => m \in lengths
  <2> SUFFICES ASSUME NEW m \in 1..k, m - 1 \in lengths
               PROVE  m \in lengths
    OBVIOUS
  <2>1. PICK f : IsReading(f, d, m - 1)
    OBVIOUS
  <2>2. m - 1 \in Nat /\ (m - 1) + 1 = m /\ m \in Nat
    OBVIOUS
  <2>3. \E g : IsReading(g, d, (m - 1) + 1)
    BY <2>1, <2>2, LongerReading
  <2> QED
    BY <2>2, <2>3
<1> HIDE DEF lengths
<1>3. k \in lengths
  BY <1>1, <1>2, Upto
<1> QED
  BY <1>3 DEF lengths

(* The offer read from a document is one agreement's, whatever the document *)
(* holds.                                                                   *)
LEMMA ReadAgrees ==
    ASSUME NEW d \in Seq(Challenges)
    PROVE  OneAgreement(read(d))
<1> DEFINE upto == CHOOSE f : IsReading(f, d, Len(d))
<1>1. IsReading(upto, d, Len(d))
  <2>1. Len(d) \in Nat
    OBVIOUS
  <2> QED
    BY <2>1, Reading
<1>2. read(d) = IF Len(d) > MAX_CHALLENGES THEN [Unread EXCEPT !.code = "mpp/challenge-malformed"]
                 ELSE Found(upto[Len(d)])
  BY DEF read, IsReading
<1> HIDE DEF upto
<1>3. \A n \in 0..Len(d) : upto[n] = IF n = 0 THEN Unread ELSE ReadOne(upto[n - 1], d[n])
  BY <1>1 DEF IsReading
<1>4. \A n \in 0..Len(d) : OneAgreement(upto[n])
  <2> DEFINE agreed == {n \in 0..Len(d) : OneAgreement(upto[n])}
  <2>1. 0 \in agreed
    BY <1>3, UnreadAgrees
  <2>2. ASSUME NEW n \in 1..Len(d), n - 1 \in agreed
        PROVE  n \in agreed
    <3>1. OneAgreement(upto[n - 1]) /\ d[n] \in Challenges
      BY <2>2
    <3>2. OneAgreement(upto[n])
      BY <1>3, <3>1, ReadOneAgrees
    <3> QED
      BY <3>2
  <2>3. Len(d) \in Nat
    OBVIOUS
  <2> HIDE DEF agreed
  <2>4. \A n \in 0..Len(d) : n \in agreed
    BY <2>1, <2>2, <2>3, Upto
  <2> QED
    BY <2>4 DEF agreed
<1>5. OneAgreement(upto[Len(d)])
  BY <1>4
<1>6. ASSUME NEW r, OneAgreement(r)
      PROVE  OneAgreement(Found(r))
  <2>1. Found(r) = r \/ \E refusal \in ReadCodes : Found(r) = [r EXCEPT !.code = refusal]
    BY DEF Found, ReadCodes
  <2>2. ASSUME NEW refusal \in ReadCodes, Found(r) = [r EXCEPT !.code = refusal]
        PROVE  OneAgreement(Found(r))
    BY <1>6, <2>2 DEF OneAgreement, Offer, Agrees
  <2> QED
    BY <1>6, <2>1, <2>2
<1>7. OneAgreement([Unread EXCEPT !.code = "mpp/challenge-malformed"])
  BY UnreadAgrees DEF OneAgreement, Offer, Agrees, ReadCodes
<1> QED
  BY <1>2, <1>5, <1>6, <1>7

(***************************************************************************)
(* The challenges of the document and of the offer, along the steps.       *)
(***************************************************************************)

(* What placing writes into a challenge, and what it leaves as it was.      *)
LEMMA PlacedFields ==
    ASSUME NEW ch \in Challenges, NEW h \in Hashes, NEW link \in Links, NEW agreement \in Agreements
    PROVE  /\ Placed(ch, h, link, agreement) \in Challenges
           /\ Placed(ch, h, link, agreement).key = ch.key
           /\ Placed(ch, h, link, agreement).expires = ch.expires
           /\ Placed(ch, h, link, agreement).shape = ch.shape
           /\ Placed(ch, h, link, agreement).realm = ch.realm
           /\ Placed(ch, h, link, agreement).request = ch.request
           /\ Placed(ch, h, link, agreement).opaque.form = "map"
           /\ Placed(ch, h, link, agreement).q = [ch.q EXCEPT !.m =
                IF ch.key \in {"mpp/charge/lightning", "mpp/session/lightning"} THEN Invoiced(ch.q.m) ELSE ch.q.m]
<1> DEFINE opaque == [form |-> "map", h |-> h, link |-> link, agreement |-> agreement]
           id == challenge_id(h, ch.key # "mpp/subscription/tempo")
           m == IF ch.key \in {"mpp/charge/lightning", "mpp/session/lightning"} THEN Invoiced(ch.q.m) ELSE ch.q.m
           q == [ch.q EXCEPT !.m = m]
           placed == Placed(ch, h, link, agreement)
<1>1. placed = [ch EXCEPT !.opaque = opaque, !.id = id, !.q = q]
  BY DEF Placed
<1>2. opaque \in [form : {"absent", "map", "bad"}, h : Hashes \cup {Absent}, link : Urls, agreement : Urls]
  BY PlacedAssumption
<1>3. id \in [h : Hashes \cup {Absent}, dot : BOOLEAN, string : BOOLEAN]
  BY DEF challenge_id
<1>4. ch.q \in Requests
  BY DEF Challenges
<1>5. m \in [Members -> Forms]
  <2>1. ch.q.m \in [Members -> Forms]
    BY <1>4 DEF Requests
  <2>2. Invoiced(ch.q.m) \in [Members -> Forms]
    <3>1. "good" \in Forms /\ "absent" \in Forms
      BY DEF Forms
    <3> HIDE DEF m
    <3> QED
      BY <2>1, <3>1 DEF Invoiced
  <2> QED
    BY <2>1, <2>2
<1> HIDE DEF m
<1>6. q \in Requests
  BY <1>4, <1>5 DEF Requests
<1>7. opaque.form = "map"
  OBVIOUS
<1> HIDE DEF opaque, id, q, placed
<1>8. placed \in Challenges
  BY <1>1, <1>2, <1>3, <1>6 DEF Challenges
<1>9. /\ placed.key = ch.key /\ placed.expires = ch.expires /\ placed.shape = ch.shape /\ placed.realm = ch.realm
      /\ placed.request = ch.request /\ placed.opaque = opaque /\ placed.q = q
  BY <1>1 DEF Challenges
<1> QED
  BY <1>7, <1>8, <1>9 DEF placed, q, m

(* The document holds challenges, and the offer is one agreement's.         *)
Documented == doc \in Seq(Challenges) /\ OneAgreement(offer)

(* Every step keeps Documented.                                             *)
LEMMA DocumentedSteps == Documented /\ [Next]_vars => Documented'
<1> SUFFICES ASSUME Documented, [Next]_vars
             PROVE  Documented'
  OBVIOUS
<1>1. ASSUME NEW d \in Documents, Issue(d)
      PROVE  Documented'
  BY <1>1, DocumentsAssumption DEF Issue, Documented
<1>2. ASSUME NEW h \in Hashes, NEW link \in Links, NEW agreement \in Agreements, Place(h, link, agreement)
      PROVE  Documented'
  <2>1. ASSUME NEW i \in DOMAIN doc
        PROVE  Placed(doc[i], h, link, agreement) \in Challenges
    <3>1. doc[i] \in Challenges
      BY DEF Documented
    <3> QED
      BY <3>1, PlacedFields
  <2>2. doc' = [i \in DOMAIN doc |-> Placed(doc[i], h, link, agreement)] /\ offer' = offer
    BY <1>2 DEF Place
  <2> QED
    BY <2>1, <2>2 DEF Documented
<1>3. ASSUME NEW i \in DOMAIN doc, NEW ch \in Challenges, Change(i, ch)
      PROVE  Documented'
  BY <1>3 DEF Change, Documented
<1>4. CASE Read
  BY <1>4, ReadAgrees DEF Read, Documented
<1>5. CASE UNCHANGED <<doc, offer>>
  BY <1>5 DEF Documented
<1>6. ASSUME NEW p, NEW account, Choose(p, account)
      PROVE  Documented'
  BY <1>5, <1>6 DEF Choose
<1>7. ASSUME NEW ours, NEW funding, Build(ours, funding)
      PROVE  Documented'
  BY <1>5, <1>7 DEF Build
<1>8. ASSUME NEW ch, ChangeMine(ch)
      PROVE  Documented'
  BY <1>5, <1>8 DEF ChangeMine
<1>9. CASE Complete
  BY <1>5, <1>9 DEF Complete
<1>10. CASE Bound
  BY <1>5, <1>10 DEF Bound
<1>11. CASE UNCHANGED vars
  BY <1>5, <1>11 DEF vars
<1> QED
  BY <1>1, <1>2, <1>3, <1>4, <1>6, <1>7, <1>8, <1>9, <1>10, <1>11 DEF Next

(* The document and the offer stay so.                                      *)
LEMMA DocumentedHolds == Spec => []Documented
<1>1. Init => Documented
  BY UnreadAgrees DEF Init, Documented
<1> QED
  BY <1>1, DocumentedSteps, PTL DEF Spec

(* Every challenge of an offer is of the offer's one agreement: its hash, its*)
(* link and its agreement URL, whatever the document held (read).           *)
THEOREM OneOfferHolds == Spec => []OneOffer
<1>1. Documented => OneOffer
  BY DEF Documented, OneAgreement, Agrees, OneOffer
<1> QED
  BY <1>1, DocumentedHolds, PTL

(***************************************************************************)
(* The pairings a challenge offers, as issued, placed and echoed.           *)
(***************************************************************************)

(* The Lightning methods, whose invoice is written after placement.         *)
Lightning == {"mpp/charge/lightning", "mpp/session/lightning"}

(* The methods that offer one pairing, of their own name.                   *)
NamedByKey ==
    Lightning \cup {"mpp/session/evm", "mpp/session/tempo", "mpp/subscription/tempo", "mpp/charge/hedera",
                    "mpp/charge/solana", "mpp/charge/stellar", "mpp/charge/xrpl", "mpp/charge/nearintents",
                    "mpp/session/hedera", "mpp/session/solana", "mpp/session/xrpl", "mpp/charge/card",
                    "mpp/charge/stripe", "mpp/subscription/stripe"}

(* A check reads a challenge's key, request and expires only.               *)
LEMMA SameRequestChecksSame ==
    ASSUME NEW ch, NEW other, other.key = ch.key, other.q = ch.q, other.expires = ch.expires, NEW carried
    PROVE  PAIRING_CHECKS(other, carried) = PAIRING_CHECKS(ch, carried)
<1>1. evm_charge_pairings(other) = evm_charge_pairings(ch)
  BY DEF evm_charge_pairings
<1>2. tempo_charge_pairings(other) = tempo_charge_pairings(ch)
  BY DEF tempo_charge_pairings
<1>3. evm_session_pairings(other) = evm_session_pairings(ch)
  BY DEF evm_session_pairings
<1>4. tempo_session_pairings(other) = tempo_session_pairings(ch)
  BY DEF tempo_session_pairings
<1>5. subscription_pairings(other) = subscription_pairings(ch)
  BY DEF subscription_pairings
<1>6. lightning_pairings(other, carried) = lightning_pairings(ch, carried)
  BY DEF lightning_pairings
<1>7. hedera_charge_pairings(other) = hedera_charge_pairings(ch)
      /\ hedera_session_pairings(other) = hedera_session_pairings(ch)
  BY DEF hedera_charge_pairings, hedera_session_pairings
<1>8. solana_charge_pairings(other) = solana_charge_pairings(ch)
      /\ solana_session_pairings(other) = solana_session_pairings(ch)
  BY DEF solana_charge_pairings, solana_session_pairings
<1>9. stellar_charge_pairings(other) = stellar_charge_pairings(ch)
  BY DEF stellar_charge_pairings
<1>10. xrpl_charge_pairings(other) = xrpl_charge_pairings(ch)
       /\ xrpl_session_pairings(other) = xrpl_session_pairings(ch)
  BY DEF xrpl_charge_pairings, xrpl_session_pairings
<1>11. near_intents_charge_pairings(other) = near_intents_charge_pairings(ch)
       /\ card_charge_pairings(other) = card_charge_pairings(ch)
  BY DEF near_intents_charge_pairings, card_charge_pairings
<1>12. \A name : StripePairings(other, name) = StripePairings(ch, name)
  BY DEF StripePairings
<1>13. usdc_charge_pairings(other) = usdc_charge_pairings(ch)
  BY DEF usdc_charge_pairings
<1> QED
  BY <1>1, <1>2, <1>3, <1>4, <1>5, <1>6, <1>7, <1>8, <1>9, <1>10, <1>11, <1>12, <1>13 DEF PAIRING_CHECKS

(* carried tells a Lightning challenge only.                                *)
LEMMA CarriedTellsLightning ==
    ASSUME NEW ch, ch.key \notin Lightning
    PROVE  PAIRING_CHECKS(ch, TRUE) = PAIRING_CHECKS(ch, FALSE)
BY DEF PAIRING_CHECKS, Lightning

(* A check names pairings of the challenge's own intent and method.         *)
LEMMA NamedOfKey ==
    ASSUME NEW ch, NEW carried, NEW p \in PAIRING_CHECKS(ch, carried).names
    PROVE  KeyOf(p) = ch.key
<1> USE DEF FirstFault, No, Offers
<1>1. CASE ch.key = "mpp/charge/evm"
  <2>1. p \in evm_charge_pairings(ch).names
    BY <1>1 DEF PAIRING_CHECKS
  <2>2. p \in {EVM_CREDENTIAL_TYPES[t] : t \in DOMAIN EVM_CREDENTIAL_TYPES}
    BY <2>1 DEF evm_charge_pairings, EVM_CREDENTIAL_TYPES
  <2> QED
    BY <1>1, <2>2 DEF KeyOf, EVM_CREDENTIAL_TYPES
<1>2. CASE ch.key = "mpp/charge/tempo"
  <2>1. p \in tempo_charge_pairings(ch).names
    BY <1>2 DEF PAIRING_CHECKS
  <2>2. p \in {"mpp/charge/tempo/memo", "mpp/charge/tempo/push"}
    BY <2>1 DEF tempo_charge_pairings
  <2> QED
    BY <1>2, <2>2 DEF KeyOf, EVM_CREDENTIAL_TYPES
<1>3. CASE ch.key = "mpp/charge/usdc"
  <2>1. p \in usdc_charge_pairings(ch).names
    BY <1>3 DEF PAIRING_CHECKS
  <2>2. p \in {"mpp/charge/usdc/evm", "mpp/charge/usdc/solana", "mpp/charge/usdc/stacks", "mpp/charge/usdc/gateway"}
    BY <2>1 DEF usdc_charge_pairings, SolanaCharge
  <2> QED
    BY <1>3, <2>2 DEF KeyOf, EVM_CREDENTIAL_TYPES
<1>4. CASE ch.key \in NamedByKey
  <2>1. p = ch.key
    <3>1. CASE ch.key \in Lightning
      BY <3>1 DEF Lightning, PAIRING_CHECKS, lightning_pairings
    <3>2. CASE ch.key = "mpp/session/evm"
      BY <3>2 DEF PAIRING_CHECKS, evm_session_pairings
    <3>3. CASE ch.key = "mpp/session/tempo"
      BY <3>3 DEF PAIRING_CHECKS, tempo_session_pairings
    <3>4. CASE ch.key = "mpp/subscription/tempo"
      BY <3>4 DEF PAIRING_CHECKS, subscription_pairings
    <3>5. CASE ch.key = "mpp/charge/hedera"
      BY <3>5 DEF PAIRING_CHECKS, hedera_charge_pairings
    <3>6. CASE ch.key = "mpp/charge/solana"
      BY <3>6 DEF PAIRING_CHECKS, solana_charge_pairings, SolanaCharge
    <3>7. CASE ch.key = "mpp/charge/stellar"
      BY <3>7 DEF PAIRING_CHECKS, stellar_charge_pairings
    <3>8. CASE ch.key = "mpp/charge/xrpl"
      BY <3>8 DEF PAIRING_CHECKS, xrpl_charge_pairings
    <3>9. CASE ch.key = "mpp/charge/nearintents"
      BY <3>9 DEF PAIRING_CHECKS, near_intents_charge_pairings
    <3>10. CASE ch.key = "mpp/session/hedera"
      BY <3>10 DEF PAIRING_CHECKS, hedera_session_pairings
    <3>11. CASE ch.key = "mpp/session/solana"
      BY <3>11 DEF PAIRING_CHECKS, solana_session_pairings
    <3>12. CASE ch.key = "mpp/session/xrpl"
      BY <3>12 DEF PAIRING_CHECKS, xrpl_session_pairings
    <3>13. CASE ch.key = "mpp/charge/card"
      BY <3>13 DEF PAIRING_CHECKS, card_charge_pairings
    <3>14. CASE ch.key \in {"mpp/charge/stripe", "mpp/subscription/stripe"}
      BY <3>14 DEF PAIRING_CHECKS, StripePairings
    <3> QED
      BY <1>4, <3>1, <3>2, <3>3, <3>4, <3>5, <3>6, <3>7, <3>8, <3>9, <3>10, <3>11, <3>12, <3>13, <3>14 DEF NamedByKey
  <2>2. KeyOf(ch.key) = ch.key
    BY <1>4 DEF KeyOf, EVM_CREDENTIAL_TYPES, NamedByKey, Lightning
  <2> QED
    BY <2>1, <2>2
<1>5. CASE ch.key \notin NamedByKey \cup {"mpp/charge/evm", "mpp/charge/tempo", "mpp/charge/usdc"}
  BY <1>5 DEF PAIRING_CHECKS, NamedByKey, Lightning
<1> QED
  BY <1>1, <1>2, <1>3, <1>4, <1>5

(* What check_challenge refuses a challenge for, but for its request.       *)
Sound(ch, placed) ==
    /\ ch.shape /\ ch.realm # "unencodable"
    /\ ch.expires # "bad"
    /\ ch.request # "bad"
    /\ ch.opaque.form # "bad"
    /\ ~CarrierTaken(ch, placed)
    /\ Opt(ch.q, {"methodDetails"})

TimedNames(ch, named) == {p \in named.names : ch.expires \in {"good", "past", "far"} \/ p \notin NEEDS_EXPIRES}

(* check_challenge passes exactly what is sound and of a pairing left to    *)
(* name, and names what its expires lets it sign for.                       *)
LEMMA CheckPasses ==
    ASSUME NEW ch, NEW placed, NEW carried, NEW named, named = PAIRING_CHECKS(ch, carried)
    PROVE  /\ check_challenge(ch, placed, carried).code = "none" <=>
                /\ Sound(ch, placed) /\ named.code = "none"
                /\ TimedNames(ch, named) # {} \/ named.names = {}
           /\ check_challenge(ch, placed, carried).code = "none" =>
                check_challenge(ch, placed, carried).names = TimedNames(ch, named)
<1> DEFINE faults ==
        << <<~ch.shape \/ ch.realm = "unencodable", "mpp/challenge-malformed">>,
           <<named.code = "mpp/not-this-pairing", "mpp/not-this-pairing">>,
           <<ch.expires = "bad", "mpp/expires-required">>,
           <<ch.request = "bad", "mpp/request-malformed">>,
           <<ch.opaque.form = "bad", "mpp/opaque-malformed">>,
           <<CarrierTaken(ch, placed), "mpp/carrier-taken">>,
           <<~Opt(ch.q, {"methodDetails"}), "mpp/request-malformed">>,
           <<named.code # "none", named.code>> >>
           early == FirstFault(faults, named.names)
<1>1. DOMAIN faults = 1..8
  OBVIOUS
<1>2. \A i \in 1..8 : faults[i][1] => faults[i][2] # "none"
  <2>1. /\ faults[1][2] # "none" /\ faults[2][2] # "none" /\ faults[3][2] # "none" /\ faults[4][2] # "none"
        /\ faults[5][2] # "none" /\ faults[6][2] # "none" /\ faults[7][2] # "none"
    OBVIOUS
  <2>2. faults[8][1] = (named.code # "none") /\ faults[8][2] = named.code
    OBVIOUS
  <2>3. \A i \in 1..8 : i = 1 \/ i = 2 \/ i = 3 \/ i = 4 \/ i = 5 \/ i = 6 \/ i = 7 \/ i = 8
    OBVIOUS
  <2> HIDE DEF faults
  <2> QED
    BY <2>1, <2>2, <2>3
<1>3. (\A i \in 1..8 : ~faults[i][1]) <=> Sound(ch, placed) /\ named.code = "none"
  <2>1. (\A i \in 1..8 : ~faults[i][1])
          <=> ~faults[1][1] /\ ~faults[2][1] /\ ~faults[3][1] /\ ~faults[4][1] /\ ~faults[5][1] /\ ~faults[6][1]
              /\ ~faults[7][1] /\ ~faults[8][1]
    <3> HIDE DEF faults
    <3>1. \A i \in 1..8 : i = 1 \/ i = 2 \/ i = 3 \/ i = 4 \/ i = 5 \/ i = 6 \/ i = 7 \/ i = 8
      OBVIOUS
    <3> QED
      BY <3>1
  <2>2. /\ faults[1][1] = (~ch.shape \/ ch.realm = "unencodable")
        /\ faults[2][1] = (named.code = "mpp/not-this-pairing")
        /\ faults[3][1] = (ch.expires = "bad")
        /\ faults[4][1] = (ch.request = "bad")
        /\ faults[5][1] = (ch.opaque.form = "bad")
        /\ faults[6][1] = CarrierTaken(ch, placed)
        /\ faults[7][1] = ~Opt(ch.q, {"methodDetails"})
        /\ faults[8][1] = (named.code # "none")
    OBVIOUS
  <2>3. named.code = "none" => named.code # "mpp/not-this-pairing"
    OBVIOUS
  <2> HIDE DEF faults
  <2> QED
    BY <2>1, <2>2, <2>3, Zenon DEF Sound
<1>4. early = EarlyFault(ch, placed, named)
  BY DEF EarlyFault
<1> HIDE DEF faults
<1>5. /\ early.code = "none" <=> Sound(ch, placed) /\ named.code = "none"
      /\ early = IF early.code = "none" THEN Offers(named.names) ELSE No(early.code)
  <2>1. 8 \in Nat
    OBVIOUS
  <2>2. /\ FirstFault(faults, named.names).code = "none" <=> \A i \in 1..8 : ~faults[i][1]
        /\ FirstFault(faults, named.names)
             = IF FirstFault(faults, named.names).code = "none" THEN Offers(named.names)
               ELSE No(FirstFault(faults, named.names).code)
    BY <1>1, <1>2, <2>1, FaultsFound, Zenon
  <2> QED
    BY <1>3, <2>2, Zenon
<1> HIDE DEF early
<1>6. check_challenge(ch, placed, carried)
        = Timed(early, {p \in early.names : ch.expires \in {"good", "past", "far"} \/ p \notin NEEDS_EXPIRES})
  BY <1>4 DEF check_challenge, TimedOf
<1>7. CASE early.code = "none"
  <2>1. early.names = named.names
    BY <1>5, <1>7 DEF Offers
  <2>2. early = [code |-> "none", names |-> named.names]
    BY <1>5, <1>7 DEF Offers
  <2> QED
    BY <1>5, <1>6, <1>7, <2>1, <2>2 DEF Timed, TimedNames, No
<1>8. CASE early.code # "none"
  <2>1. early = [code |-> early.code, names |-> {}]
    BY <1>5, <1>8 DEF No
  <2>2. check_challenge(ch, placed, carried).code = early.code
    BY <1>6, <1>8, <2>1 DEF Timed
  <2> QED
    BY <1>5, <1>8, <2>2
<1> QED
  BY <1>7, <1>8

(* A challenge the piece chose for p: of the offer's agreement, and offering*)
(* p as it was read.                                                        *)
Chosen(p, ch) == ch \in Challenges /\ Agrees(offer, ch) /\ p \in pairings_of_placed(ch)

(* What pairings_of_placed names, every check has passed.                   *)
LEMMA OffersSound ==
    ASSUME NEW ch, NEW p \in pairings_of_placed(ch)
    PROVE  /\ check_challenge(ch, TRUE, TRUE).code = "none" /\ p \in check_challenge(ch, TRUE, TRUE).names
           /\ Sound(ch, TRUE)
           /\ PAIRING_CHECKS(ch, TRUE).code = "none" /\ p \in PAIRING_CHECKS(ch, TRUE).names
           /\ ch.expires \in {"good", "past", "far"} \/ p \notin NEEDS_EXPIRES
<1>1. check_challenge(ch, TRUE, TRUE).code = "none" /\ p \in check_challenge(ch, TRUE, TRUE).names
  BY DEF pairings_of_placed, Offered
<1>2. Sound(ch, TRUE) /\ PAIRING_CHECKS(ch, TRUE).code = "none"
  BY <1>1, CheckPasses
<1>3. p \in TimedNames(ch, PAIRING_CHECKS(ch, TRUE))
  BY <1>1, CheckPasses
<1> QED
  BY <1>1, <1>2, <1>3 DEF TimedNames

(* The snapshot of a chosen challenge offers what the challenge does.       *)
LEMMA SnapshotOffers ==
    ASSUME NEW ch, NEW p \in pairings_of_placed(ch)
    PROVE  checked_for(challenge_snapshot(ch), p) = "none"
<1> DEFINE snap == challenge_snapshot(ch)
<1>1. /\ snap.key = ch.key /\ snap.q = ch.q /\ snap.expires = ch.expires /\ snap.shape = ch.shape
      /\ snap.realm = ch.realm /\ snap.request = ch.request /\ snap.opaque = ch.opaque
  BY DEF challenge_snapshot
<1> HIDE DEF snap
<1>2. PAIRING_CHECKS(snap, TRUE) = PAIRING_CHECKS(ch, TRUE)
  BY <1>1, SameRequestChecksSame
<1>3. Sound(snap, TRUE)
  BY <1>1, OffersSound DEF Sound, CarrierTaken
<1>4. TimedNames(snap, PAIRING_CHECKS(snap, TRUE)) = TimedNames(ch, PAIRING_CHECKS(ch, TRUE))
  BY <1>1, <1>2 DEF TimedNames
<1>5. p \in TimedNames(snap, PAIRING_CHECKS(snap, TRUE))
  BY <1>4, OffersSound DEF TimedNames
<1>6. PAIRING_CHECKS(snap, TRUE).code = "none"
  BY <1>2, OffersSound
<1>7. check_challenge(snap, TRUE, TRUE).code = "none" /\ p \in check_challenge(snap, TRUE, TRUE).names
  BY <1>3, <1>5, <1>6, CheckPasses
<1> QED
  BY <1>7 DEF checked_for, Names, snap

(* build refuses a chosen challenge for its size, its carrier or a value    *)
(* that cannot be signed only, or asks nobody to sign.                      *)
LEMMA ChosenTaken ==
    ASSUME NEW ch, NEW p, NEW ours, NEW funding \in Fundings(ch), Chosen(p, ch), ~Oversize(ch)
    PROVE  BuildFault(p, ch, ours, funding) \in {"none", "mpp/nothing-to-sign"} \cup LeftToBuild(p, ch)
<1> DEFINE snap == challenge_snapshot(ch)
<1>1. /\ snap.key = ch.key /\ snap.shape = ch.shape /\ snap.realm = ch.realm /\ snap.request = ch.request
      /\ snap.opaque = ch.opaque /\ snap.id = ch.id
  BY DEF challenge_snapshot
<1>2. Within(snap.size, FALSE)
  BY DEF Oversize
<1> HIDE DEF snap
<1>3. challenge_id_h(snap) = challenge_id_h(ch)
  BY <1>1 DEF challenge_id_h
<1>4. challenge_id_h(ch) = offer.h /\ offer.h # Absent /\ ch.opaque.form = "map" /\ ch.opaque.h = offer.h
  BY DEF Chosen, Agrees
<1>5. ch.id.string
  BY <1>4 DEF challenge_id_h
<1>6. Sound(ch, TRUE)
  BY OffersSound DEF Chosen
<1>7. Held(snap, FALSE)
  BY <1>1, <1>2, <1>3, <1>4, <1>5, <1>6 DEF Held, Sound
<1>8. challenge_bound(snap, FALSE) = "none"
  BY <1>7, BoundHolds
<1>9. KeyOf(p) = ch.key
  BY OffersSound, NamedOfKey DEF Chosen
<1>10. checked_for(snap, p) = "none"
  BY SnapshotOffers DEF Chosen, snap
<1>11. chosen_held(ch, p) = "none"
  BY <1>1, <1>8, <1>9, <1>10 DEF chosen_held, held_for, Or, snap
<1>12. chosen_for(ch, offer.h, p) = "none"
  BY <1>4, <1>11 DEF chosen_for, Or
<1>13. p \in SignsExpires => ch.expires # "absent"
  <2>1. p \in SignsExpires => p \in NEEDS_EXPIRES
    BY DEF SignsExpires, NEEDS_EXPIRES
  <2> QED
    BY <2>1, OffersSound DEF Chosen
<1>14. CarrierFault(p, ch, ours) \in {"none"} \cup LeftToBuild(p, ch)
  BY DEF CarrierFault, LeftToBuild
<1>15. EncodingFault(p, ch, funding) \in LeftToBuild(p, ch)
  BY DEF LeftToBuild
<1>16. SigningFault(p, ch, ours, funding) \in {"none", "mpp/nothing-to-sign"} \cup LeftToBuild(p, ch)
  BY <1>13, <1>14, <1>15 DEF SigningFault, Or
<1> QED
  BY <1>12, <1>16 DEF BuildFault, Or

(***************************************************************************)
(* The amounts a charge is split into.                                     *)
(***************************************************************************)

(* f sums the first k amounts of s, one after another, as SumOf does.       *)
IsSum(f, s, k) == f = [n \in 0..k |-> IF n = 0 THEN 0 ELSE f[n - 1] + s[n]]

(* A sum of k amounts goes on to one of k + 1.                              *)
LEMMA LongerSum ==
    ASSUME NEW s, NEW k \in Nat, NEW f, IsSum(f, s, k)
    PROVE  \E g : IsSum(g, s, k + 1)
<1> DEFINE last == f[k] + s[k + 1]
           g == [n \in 0..(k + 1) |-> IF n = k + 1 THEN last ELSE f[n]]
<1>1. \A n \in 0..k : f[n] = IF n = 0 THEN 0 ELSE f[n - 1] + s[n]
  BY DEF IsSum
<1>2. \A n \in 0..(k + 1) : g[n] = IF n = 0 THEN 0 ELSE g[n - 1] + s[n]
  <2> SUFFICES ASSUME NEW n \in 0..(k + 1)
               PROVE  g[n] = IF n = 0 THEN 0 ELSE g[n - 1] + s[n]
    OBVIOUS
  <2>1. CASE n = k + 1
    <3>1. n # 0 /\ n - 1 = k /\ n - 1 \in 0..(k + 1) /\ n - 1 # k + 1
      BY <2>1
    <3>2. g[n] = last /\ g[n - 1] = f[k]
      BY <2>1, <3>1
    <3> QED
      BY <2>1, <3>1, <3>2
  <2>2. CASE n # k + 1
    <3>1. n \in 0..k /\ g[n] = f[n]
      BY <2>2
    <3>2. n # 0 => n - 1 \in 0..(k + 1) /\ n - 1 # k + 1
      BY <2>2
    <3>3. n # 0 => g[n - 1] = f[n - 1]
      BY <3>2
    <3> QED
      BY <1>1, <3>1, <3>3
  <2> QED
    BY <2>1, <2>2
<1>3. g = [n \in 0..(k + 1) |-> g[n]]
  OBVIOUS
<1> HIDE DEF g
<1>4. IsSum(g, s, k + 1)
  BY <1>2, <1>3 DEF IsSum
<1> QED
  BY <1>4

(* Any number of amounts can be summed one after another.                   *)
LEMMA SumExists ==
    ASSUME NEW s, NEW k \in Nat
    PROVE  \E f : IsSum(f, s, k)
<1> DEFINE lengths == {m \in Nat : \E f : IsSum(f, s, m)}
<1>1. 0 \in lengths
  <2> DEFINE f == [n \in 0..0 |-> 0]
  <2>1. IsSum(f, s, 0)
    BY DEF IsSum
  <2> QED
    BY <2>1
<1>2. \A m \in 1..k : m - 1 \in lengths => m \in lengths
  <2> SUFFICES ASSUME NEW m \in 1..k, m - 1 \in lengths
               PROVE  m \in lengths
    OBVIOUS
  <2>1. PICK f : IsSum(f, s, m - 1)
    OBVIOUS
  <2>2. m - 1 \in Nat /\ (m - 1) + 1 = m /\ m \in Nat
    OBVIOUS
  <2>3. \E g : IsSum(g, s, (m - 1) + 1)
    BY <2>1, <2>2, LongerSum
  <2> QED
    BY <2>2, <2>3
<1> HIDE DEF lengths
<1>3. k \in lengths
  BY <1>1, <1>2, Upto
<1> QED
  BY <1>3 DEF lengths

(* The function SumOf sums with, and what it holds.                         *)
SumUpto(s) == CHOOSE f : IsSum(f, s, Len(s))

(* SumOf adds the amounts one after another.                                *)
LEMMA SumSteps ==
    ASSUME NEW s \in Seq(Nat)
    PROVE  /\ SumOf(s) = SumUpto(s)[Len(s)]
           /\ \A n \in 0..Len(s) : SumUpto(s)[n] = IF n = 0 THEN 0 ELSE SumUpto(s)[n - 1] + s[n]
           /\ \A n \in 0..Len(s) : SumUpto(s)[n] \in Nat
<1>1. IsSum(SumUpto(s), s, Len(s))
  <2>1. Len(s) \in Nat
    OBVIOUS
  <2> QED
    BY <2>1, SumExists DEF SumUpto
<1>2. SumOf(s) = SumUpto(s)[Len(s)]
  BY DEF SumOf, SumUpto, IsSum
<1>3. \A n \in 0..Len(s) : SumUpto(s)[n] = IF n = 0 THEN 0 ELSE SumUpto(s)[n - 1] + s[n]
  BY <1>1 DEF IsSum
<1>4. \A n \in 0..Len(s) : SumUpto(s)[n] \in Nat
  <2> DEFINE sums == {n \in 0..Len(s) : SumUpto(s)[n] \in Nat}
  <2>1. 0 \in sums
    BY <1>3
  <2>2. ASSUME NEW n \in 1..Len(s), n - 1 \in sums
        PROVE  n \in sums
    <3>1. SumUpto(s)[n - 1] \in Nat /\ s[n] \in Nat
      BY <2>2
    <3> QED
      BY <1>3, <3>1
  <2>3. Len(s) \in Nat
    OBVIOUS
  <2> HIDE DEF sums
  <2>4. \A n \in 0..Len(s) : n \in sums
    BY <2>1, <2>2, <2>3, Upto
  <2> QED
    BY <2>4 DEF sums
<1> QED
  BY <1>2, <1>3, <1>4

(* A sum of amounts is an amount.                                           *)
LEMMA SumNat ==
    ASSUME NEW s \in Seq(Nat)
    PROVE  SumOf(s) \in Nat
BY SumSteps

(* One more amount before the others adds itself to their sum.              *)
LEMMA SumBefore ==
    ASSUME NEW s \in Seq(Nat), NEW a \in Nat
    PROVE  SumOf(<<a>> \o s) = a + SumOf(s)
<1> DEFINE t == <<a>> \o s
<1>1. /\ t \in Seq(Nat) /\ Len(t) = Len(s) + 1 /\ t[1] = a
      /\ \A n \in 1..Len(s) : t[n + 1] = s[n] /\ s[n] \in Nat
      /\ Len(s) \in Nat
  OBVIOUS
<1> HIDE DEF t
<1>2. \A n \in 0..Len(s) : SumUpto(t)[n + 1] = a + SumUpto(s)[n]
  <2> DEFINE added == {n \in 0..Len(s) : SumUpto(t)[n + 1] = a + SumUpto(s)[n]}
  <2>1. \A n \in 0..Len(s) : SumUpto(t)[n + 1] = SumUpto(t)[n] + t[n + 1]
    <3> SUFFICES ASSUME NEW n \in 0..Len(s)
                 PROVE  SumUpto(t)[n + 1] = SumUpto(t)[n] + t[n + 1]
      OBVIOUS
    <3>1. n + 1 \in 0..Len(t) /\ n + 1 # 0 /\ (n + 1) - 1 = n
      BY <1>1
    <3> QED
      BY <1>1, <3>1, SumSteps
  <2>2. 0 \in added
    <3>1. 0 \in 0..Len(s) /\ 0 \in 0..Len(t)
      BY <1>1
    <3>2. SumUpto(t)[0] = 0 /\ SumUpto(s)[0] = 0
      BY <1>1, <3>1, SumSteps
    <3> QED
      BY <1>1, <2>1, <3>1, <3>2
  <2>3. ASSUME NEW n \in 1..Len(s), n - 1 \in added
        PROVE  n \in added
    <3>1. n - 1 \in 0..Len(s) /\ n \in 0..Len(s) /\ n # 0 /\ (n - 1) + 1 = n
      BY <1>1
    <3>2. SumUpto(t)[n] = a + SumUpto(s)[n - 1]
      BY <2>3, <3>1
    <3>3. SumUpto(s)[n] = SumUpto(s)[n - 1] + s[n] /\ SumUpto(s)[n - 1] \in Nat
      BY <3>1, SumSteps
    <3>4. s[n] \in Nat /\ t[n + 1] = s[n]
      BY <1>1, <3>1, Zenon
    <3>5. SumUpto(t)[n + 1] = SumUpto(t)[n] + t[n + 1]
      BY <2>1, <3>1
    <3>6. SumUpto(t)[n + 1] = a + SumUpto(s)[n]
      BY <3>2, <3>3, <3>4, <3>5
    <3> QED
      BY <3>1, <3>6
  <2> HIDE DEF added
  <2>4. \A n \in 0..Len(s) : n \in added
    BY <1>1, <2>2, <2>3, Upto
  <2> QED
    BY <2>4 DEF added
<1>3. Len(s) \in 0..Len(s)
  BY <1>1
<1>4. SumUpto(t)[Len(s) + 1] = a + SumUpto(s)[Len(s)]
  BY <1>2, <1>3
<1> QED
  BY <1>1, <1>4, SumSteps DEF t

(* A Tempo charge that is named splits below its amount.                    *)
LEMMA TempoSplits ==
    ASSUME NEW ch, NEW p \in tempo_charge_pairings(ch).names
    PROVE  ~SplitsExceed(ch.q)
<1> DEFINE q == ch.q
           pull == Has(q, "d.supportedModes") => Contains(q.types, "pull")
           push == q.m["d.feePayer"] # "true" /\ (Has(q, "d.supportedModes") => Contains(q.types, "push"))
           named == (IF pull THEN {"mpp/charge/tempo/memo"} ELSE {}) \cup (IF push THEN {"mpp/charge/tempo/push"}
             ELSE {})
           malformed == ~Ok(q, {"r.currency", "r.recipient", "r.amount"}) \/ ~Opt(q, {"d.chainId"})
           faults ==
            << <<malformed, "mpp/request-malformed">>,
               <<Has(q, "d.memo"), "mpp/carrier-taken">>,
               <<q.m["d.supportedModes"] = "bad", "mpp/request-malformed">>,
               <<named = {}, "mpp/modes-pull-only">>,
               <<TempoSplitsFault(q), "mpp/splits-malformed">>,
               <<SplitsExceed(q), "mpp/input-malformed">> >>
<1>1. p \in FirstFault(faults, named).names
  <2>1. tempo_charge_pairings(ch) = IF q.amount = 0 /\ ~malformed THEN Offers({}) ELSE FirstFault(faults, named)
    BY DEF tempo_charge_pairings
  <2> HIDE DEF faults, malformed, named
  <2> QED
    BY <2>1 DEF Offers
<1>2. DOMAIN faults = 1..6 /\ 6 \in Nat
  OBVIOUS
<1>3. \A i \in 1..6 : faults[i][2] # "none"
  OBVIOUS
<1>4. faults[6][1] = SplitsExceed(ch.q)
  OBVIOUS
<1> HIDE DEF faults, named
<1>5. /\ FirstFault(faults, named).code = "none" <=> \A i \in 1..6 : ~faults[i][1]
      /\ FirstFault(faults, named)
           = IF FirstFault(faults, named).code = "none" THEN Offers(named) ELSE No(FirstFault(faults, named).code)
  BY <1>2, <1>3, FaultsFound, Zenon
<1>6. FirstFault(faults, named).code = "none"
  BY <1>1, <1>5 DEF No
<1>7. 6 \in 1..6
  OBVIOUS
<1> QED
  BY <1>4, <1>5, <1>6, <1>7, Zenon

(* A Hedera charge that is named has legs.                                  *)
LEMMA HederaLegs ==
    ASSUME NEW ch, NEW p \in hedera_charge_pairings(ch).names
    PROVE  hedera_charge_legs(ch.q) # <<>>
<1> DEFINE faults == << <<hedera_charge_legs(ch.q) = <<>>, "hedera/option-malformed">>,
                        <<ch.q.m["d.chainId"] = "bad", "hedera/chain-id-unnamed">> >>
           checked == FirstFault(faults, {"mpp/charge/hedera"})
<1>1. DOMAIN faults = 1..2 /\ 2 \in Nat /\ 1 \in 1..2
  OBVIOUS
<1>2. \A i \in 1..2 : faults[i][2] # "none"
  OBVIOUS
<1>3. faults[1][1] = (hedera_charge_legs(ch.q) = <<>>)
  OBVIOUS
<1>4. p \in checked.names
  BY DEF hedera_charge_pairings
<1> HIDE DEF faults
<1>5. /\ checked.code = "none" <=> \A i \in 1..2 : ~faults[i][1]
      /\ checked = IF checked.code = "none" THEN Offers({"mpp/charge/hedera"}) ELSE No(checked.code)
  BY <1>1, <1>2, FaultsFound, Zenon
<1> HIDE DEF checked
<1>6. checked.code = "none"
  BY <1>4, <1>5 DEF No
<1> QED
  BY <1>1, <1>3, <1>5, <1>6, Zenon

(* Splits below the amount leave the recipient a remainder, and nothing is  *)
(* lost or paid twice.                                                      *)
LEMMA Payable ==
    ASSUME NEW q \in Requests, ~SplitsExceed(q)
    PROVE  /\ q.amount - SumOf(q.splits) \in Nat \ {0}
           /\ SumOf(<<q.amount - SumOf(q.splits)>> \o q.splits) = q.amount
<1>1. q.amount \in Nat /\ q.splits \in Seq(Nat)
  BY DEF Requests
<1>2. SumOf(q.splits) \in Nat
  BY <1>1, SumNat
<1>3. q.amount - SumOf(q.splits) \in Nat \ {0}
  BY <1>1, <1>2 DEF SplitsExceed
<1>4. SumOf(<<q.amount - SumOf(q.splits)>> \o q.splits) = (q.amount - SumOf(q.splits)) + SumOf(q.splits)
  BY <1>1, <1>3, SumBefore
<1> QED
  BY <1>1, <1>2, <1>3, <1>4

(* What a pairing is named for splits into payable transfers.               *)
LEMMA OfferedPayable ==
    ASSUME NEW ch \in Challenges, NEW p \in pairings_of_placed(ch)
    PROVE  SplitsSum(p, ch.q)
<1>1. KeyOf(p) = ch.key /\ p \in PAIRING_CHECKS(ch, TRUE).names
  BY OffersSound, NamedOfKey
<1>2. ch.q \in Requests
  BY DEF Challenges
<1>3. CASE p = "mpp/charge/evm/permit2"
  <2>1. ch.key = "mpp/charge/evm"
    BY <1>1, <1>3 DEF KeyOf, EVM_CREDENTIAL_TYPES
  <2>2. p \in evm_charge_pairings(ch).names
    BY <1>1, <2>1 DEF PAIRING_CHECKS
  <2>3. ch.expires # "absent"
    BY <1>3, OffersSound DEF NEEDS_EXPIRES
  <2>4. ~SplitsExceed(ch.q)
    BY <1>3, <2>2, <2>3 DEF evm_charge_pairings, FirstFault, No, Offers
  <2> QED
    BY <1>2, <1>3, <2>4, Payable DEF SplitsSum, Transfers
<1>4. CASE p \in {"mpp/charge/tempo/memo", "mpp/charge/tempo/push"}
  <2>1. ch.key = "mpp/charge/tempo"
    BY <1>1, <1>4 DEF KeyOf, EVM_CREDENTIAL_TYPES
  <2>2. p \in tempo_charge_pairings(ch).names
    BY <1>1, <2>1 DEF PAIRING_CHECKS
  <2> QED
    BY <1>2, <1>4, <2>2, TempoSplits, Payable DEF SplitsSum, Transfers
<1>5. CASE p = "mpp/charge/hedera"
  <2>1. ch.key = "mpp/charge/hedera"
    BY <1>1, <1>5 DEF KeyOf, EVM_CREDENTIAL_TYPES
  <2>2. p \in hedera_charge_pairings(ch).names
    BY <1>1, <2>1 DEF PAIRING_CHECKS
  <2>3. hedera_charge_legs(ch.q) # <<>>
    BY <2>2, HederaLegs
  <2>4. hedera_charge_legs(ch.q) = <<ch.q.amount - SumOf(ch.q.splits)>> \o ch.q.splits
          /\ ~(SumOf(ch.q.splits) >= ch.q.amount)
    BY <2>3 DEF hedera_charge_legs
  <2>5. ~SplitsExceed(ch.q)
    <3>1. ch.q.amount \in Nat /\ SumOf(ch.q.splits) \in Nat
      BY <1>2, SumNat DEF Requests
    <3> QED
      BY <2>4, <3>1 DEF SplitsExceed
  <2> QED
    BY <1>2, <1>5, <2>4, <2>5, Payable DEF SplitsSum, Transfers
<1> QED
  BY <1>3, <1>4, <1>5 DEF SplitsSum

(***************************************************************************)
(* What the piece chooses, build takes.                                    *)
(***************************************************************************)
ChoiceHolds ==
    /\ stage = "chosen" => code = "none" /\ Chosen(pairing, mine)
    /\ stage \in {"request", "payment", "bound"} => held # <<>>
    /\ stage \in {"issue", "issued", "placed", "changed", "read"} => pairing = "none"
    /\ stage \in {"issue", "issued", "placed", "changed", "read", "chosen", "request", "payment", "bound", "done"}
    /\ stage = "read" => code = "none"
    /\ ChosenBuilds

(* Every step keeps ChoiceHolds.                                            *)
LEMMA ChoiceSteps == Documented /\ ChoiceHolds /\ [Next]_vars => ChoiceHolds'
<1> SUFFICES ASSUME Documented, ChoiceHolds, [Next]_vars
             PROVE  ChoiceHolds'
  OBVIOUS
<1>1. ASSUME NEW d \in Documents, Issue(d)
      PROVE  ChoiceHolds'
  BY <1>1 DEF Issue, ChoiceHolds, ChosenBuilds
<1>2. ASSUME NEW h, NEW link, NEW agreement, Place(h, link, agreement)
      PROVE  ChoiceHolds'
  BY <1>2 DEF Place, ChoiceHolds, ChosenBuilds
<1>3. ASSUME NEW i, NEW ch, Change(i, ch)
      PROVE  ChoiceHolds'
  BY <1>3 DEF Change, ChoiceHolds, ChosenBuilds
<1>4. CASE Read
  BY <1>4 DEF Read, ChoiceHolds, ChosenBuilds
<1>5. ASSUME NEW p, NEW account, Choose(p, account)
      PROVE  ChoiceHolds'
  <2>1. stage = "read" /\ stage' = "chosen" /\ pairing' = p /\ UNCHANGED <<offer, code, held>>
    BY <1>5 DEF Choose
  <2>2. PICK i \in DOMAIN offer.challenges : Pays(p, offer.challenges[i], account) /\ mine' = offer.challenges[i]
    BY <1>5 DEF Choose
  <2>3. mine' \in Challenges /\ Agrees(offer, mine')
    <3>1. offer.challenges \in Seq(Challenges)
      BY DEF Documented, OneAgreement, Offer
    <3> QED
      BY <2>2, <3>1 DEF Documented, OneAgreement
  <2>4. p \in pairings_of_placed(mine')
    BY <2>2 DEF Pays
  <2>5. Chosen(pairing, mine)'
    BY <2>1, <2>3, <2>4 DEF Chosen, Agrees
  <2>6. code' = "none"
    BY <2>1 DEF ChoiceHolds
  <2> QED
    BY <2>1, <2>5, <2>6 DEF ChoiceHolds, ChosenBuilds
<1>6. ASSUME NEW ours, NEW funding \in Fundings(mine), Build(ours, funding)
      PROVE  ChoiceHolds'
  <2>1. /\ stage = "chosen" /\ Chosen(pairing, mine) /\ code' = BuildFault(pairing, mine, ours, funding)
        /\ UNCHANGED <<pairing, mine>>
    BY <1>6 DEF Build, ChoiceHolds
  <2>2. ~Oversize(mine) => code' \in {"none", "mpp/nothing-to-sign"} \cup LeftToBuild(pairing, mine)
    BY <2>1, ChosenTaken
  <2>3. CASE code' = "none"
    <3>1. stage' = "request" /\ held' = challenge_snapshot(mine)
      BY <1>6, <2>3 DEF Build
    <3>2. held' # <<>> /\ held'.q = mine.q
      BY <3>1 DEF challenge_snapshot
    <3>3. SplitsSum(pairing, mine.q)
      BY <2>1, OfferedPayable DEF Chosen
    <3> QED
      BY <2>1, <2>3, <3>1, <3>2, <3>3 DEF ChoiceHolds, ChosenBuilds
  <2>4. CASE code' # "none"
    <3>1. stage' = "done" /\ held' = held
      BY <1>6, <2>4 DEF Build
    <3>2. (Oversize(mine') <=> Oversize(mine)) /\ LeftToBuild(pairing', mine') = LeftToBuild(pairing, mine)
      BY <2>1
    <3> QED
      BY <2>1, <2>2, <2>4, <3>1, <3>2 DEF ChoiceHolds, ChosenBuilds
  <2> QED
    BY <2>3, <2>4
<1>7. ASSUME NEW ch, ChangeMine(ch)
      PROVE  ChoiceHolds'
  BY <1>7 DEF ChangeMine, ChoiceHolds, ChosenBuilds
<1>8. CASE Complete
  BY <1>8 DEF Complete, ChoiceHolds, ChosenBuilds
<1>9. CASE Bound
  BY <1>9 DEF Bound, ChoiceHolds, ChosenBuilds
<1>10. CASE UNCHANGED vars
  BY <1>10 DEF vars, ChoiceHolds, ChosenBuilds, Chosen
<1> QED
  BY <1>1, <1>2, <1>3, <1>4, <1>5, <1>6, <1>7, <1>8, <1>9, <1>10 DEF Next

(* build refuses nothing a piece chose but for its size, and what it holds  *)
(* splits into payable transfers that sum to the amount (pairings_of and the*)
(* checks of chosen_held).                                                  *)
THEOREM ChosenBuildsHolds == Spec => []ChosenBuilds
<1>1. Init => ChoiceHolds
  BY DEF Init, ChoiceHolds, ChosenBuilds
<1>2. ChoiceHolds => ChosenBuilds
  BY DEF ChoiceHolds
<1> QED
  BY <1>1, <1>2, ChoiceSteps, DocumentedHolds, PTL DEF Spec

(* A Lightning challenge that offers without an invoice offers the same with*)
(* the one the node writes.                                                 *)
LEMMA LightningPlaced ==
    ASSUME NEW ch \in Challenges, ch.key \in Lightning, PAIRING_CHECKS(ch, FALSE).code = "none",
           NEW placed, placed.key = ch.key, placed.expires = ch.expires, placed.q.m = Invoiced(ch.q.m)
    PROVE  PAIRING_CHECKS(placed, TRUE) = PAIRING_CHECKS(ch, FALSE)
<1> DEFINE m == ch.q.m
           n == placed.q.m
           name == {ch.key}
           faults == << <<~Ok(ch.q, {"paymentHash"}), "ln/payment-hash-required">>,
                        <<Has(ch.q, "r.description"), "ln/description-present">>,
                        <<m["d.network"] = "bad", "ln/currency-network">>,
                        <<FALSE, "ln/invoice-malformed">> >>
           faults2(c, q, carrying) ==
                    << <<~Ok(q, {"paymentHash"}), "ln/payment-hash-required">>,
                        <<q.m["i"] = "bad", "mpp/request-malformed">>,
                        <<q.m["i"] = "undecodable", "ln/invoice-malformed">>,
                        <<q.m["i.h"] # "good", "mpp/carrier-not-challenge">>,
                        <<Has(q, "i.d"), "ln/description-inline">>,
                        <<Has(q, "r.description"), "ln/description-present">>,
                        <<~Ok(q, {"i.paymentHash"}), "ln/payment-hash-mismatch">>,
                        <<q.m["d.network"] = "bad"
                          \/ (Has(q, "d.network") /\ ~Ok(q, {"i.currency"})), "ln/currency-network">>,
                        <<c.expires \in {"good", "far"} /\ ~Ok(q, {"i.expiry"}), "ln/expires-after-invoice">> >>
<1>1. PAIRING_CHECKS(ch, FALSE) = lightning_pairings(ch, FALSE)
        /\ PAIRING_CHECKS(placed, TRUE) = lightning_pairings(placed, TRUE)
  BY DEF PAIRING_CHECKS, Lightning
<1>2. m \in [Members -> Forms]
  BY DEF Challenges, Requests
<1>3. CASE m["i"] # "absent"
  <2>1. n = m
    BY <1>3 DEF Invoiced
  <2> DEFINE before == faults2(ch, ch.q, FALSE)
             after == faults2(placed, placed.q, FALSE)
  <2>2. lightning_pairings(ch, FALSE) = FirstFault(before, name)
    BY <1>3 DEF lightning_pairings
  <2>3. lightning_pairings(placed, TRUE) = FirstFault(after, name)
    BY <1>3, <2>1 DEF lightning_pairings
  <2>4. after = before
    BY <2>1 DEF Ok, Has
  <2> HIDE DEF before, after
  <2> QED
    BY <1>1, <2>2, <2>3, <2>4
<1>4. CASE m["i"] = "absent"
  <2>1. lightning_pairings(ch, FALSE) = FirstFault(faults, name)
    BY <1>4 DEF lightning_pairings
  <2>2. \A i \in 1..4 : ~faults[i][1]
    <3>1. DOMAIN faults = 1..4 /\ 4 \in Nat /\ \A i \in 1..4 : faults[i][2] # "none"
      OBVIOUS
    <3> HIDE DEF faults
    <3> QED
      BY <1>1, <2>1, <3>1, NamedClears
  <2>3. /\ faults[1][1] = ~Ok(ch.q, {"paymentHash"}) /\ faults[2][1] = Has(ch.q, "r.description")
        /\ faults[3][1] = (m["d.network"] = "bad")
    OBVIOUS
  <2>4. 1 \in 1..4 /\ 2 \in 1..4 /\ 3 \in 1..4
    OBVIOUS
  <2>5. Ok(ch.q, {"paymentHash"}) /\ ~Has(ch.q, "r.description") /\ m["d.network"] # "bad"
    <3> HIDE DEF faults, m
    <3> QED
      BY <2>2, <2>3, <2>4, Zenon
  <2>6. /\ n["i"] = "good" /\ n["i.h"] = "good" /\ n["i.d"] = "absent" /\ n["i.paymentHash"] = "good"
        /\ n["i.currency"] = "good" /\ n["i.expiry"] = "good"
        /\ n["paymentHash"] = m["paymentHash"] /\ n["r.description"] = m["r.description"]
        /\ n["d.network"] = m["d.network"]
    <3>1. {"i", "i.h", "i.d", "i.paymentHash", "i.currency", "i.expiry", "paymentHash", "r.description",
            "d.network"} \subseteq Members
      BY DEF Members
    <3> HIDE DEF m
    <3>2. n = [m EXCEPT !["i"] = "good", !["i.h"] = "good", !["i.d"] = "absent", !["i.paymentHash"] = "good",
                   !["i.currency"] = "good", !["i.expiry"] = "good"]
      BY <1>4 DEF Invoiced, m
    <3> HIDE DEF n
    <3> QED
      BY <1>2, <3>1, <3>2
  <2> DEFINE later == faults2(placed, placed.q, TRUE)
  <2>7. lightning_pairings(placed, TRUE) = FirstFault(later, name)
    BY <2>6 DEF lightning_pairings
  <2>8. ~later[1][1] /\ ~later[2][1] /\ ~later[3][1] /\ ~later[4][1] /\ ~later[5][1] /\ ~later[6][1] /\ ~later[7][1]
        /\ ~later[8][1] /\ ~later[9][1]
    BY <2>5, <2>6 DEF Ok, Has
  <2>9. DOMAIN later = 1..9
    OBVIOUS
  <2>10. FirstFault(later, name) = Offers(name)
    <3> HIDE DEF later
    <3>1. {i \in DOMAIN later : later[i][1]} = {}
      <4>1. \A i \in 1..9 : i = 1 \/ i = 2 \/ i = 3 \/ i = 4 \/ i = 5 \/ i = 6 \/ i = 7 \/ i = 8 \/ i = 9
        OBVIOUS
      <4> QED
        BY <2>8, <2>9, <4>1
    <3> QED
      BY <3>1 DEF FirstFault
  <2>11. FirstFault(faults, name) = Offers(name)
    <3>1. DOMAIN faults = 1..4
      OBVIOUS
    <3> HIDE DEF faults
    <3> QED
      BY <2>2, <3>1 DEF FirstFault
  <2> HIDE DEF faults, later
  <2> QED
    BY <1>1, <2>1, <2>7, <2>10, <2>11
<1> QED
  BY <1>3, <1>4

(* A placed challenge offers what the challenge was issued for.             *)
LEMMA PlacedOffers ==
    ASSUME NEW ch \in Challenges, NEW h \in Hashes, NEW link \in Links, NEW agreement \in Agreements,
           check_challenge(ch, FALSE, FALSE).code = "none"
    PROVE  pairings_of_placed(Placed(ch, h, link, agreement)) = check_challenge(ch, FALSE, FALSE).names
<1> DEFINE placed == Placed(ch, h, link, agreement)
           named == PAIRING_CHECKS(ch, FALSE)
           later == PAIRING_CHECKS(placed, TRUE)
<1>1. /\ placed.key = ch.key /\ placed.expires = ch.expires /\ placed.shape = ch.shape /\ placed.realm = ch.realm
      /\ placed.request = ch.request /\ placed.opaque.form = "map"
      /\ placed.q = [ch.q EXCEPT !.m =
           IF ch.key \in {"mpp/charge/lightning", "mpp/session/lightning"} THEN Invoiced(ch.q.m) ELSE ch.q.m]
  BY PlacedFields
<1>2. ch.q \in Requests /\ ch.q.m \in [Members -> Forms]
  BY DEF Challenges, Requests
<1> HIDE DEF placed
<1>3. Sound(ch, FALSE) /\ named.code = "none" /\ (TimedNames(ch, named) # {} \/ named.names = {})
      /\ check_challenge(ch, FALSE, FALSE).names = TimedNames(ch, named)
  <2> HIDE DEF named
  <2>1. named = PAIRING_CHECKS(ch, FALSE)
    BY DEF named
  <2> QED
    BY <2>1, CheckPasses, Zenon
<1>4. ASSUME ch.key \in Lightning
      PROVE  later = named /\ placed.q.m["methodDetails"] = ch.q.m["methodDetails"]
  <2>1. placed.q.m = Invoiced(ch.q.m)
    BY <1>1, <1>2, <1>4 DEF Lightning, Requests
  <2>2. later = named
    BY <1>1, <1>3, <1>4, <2>1, LightningPlaced
  <2>3. placed.q.m["methodDetails"] = ch.q.m["methodDetails"]
    <3>1. {"i", "i.h", "i.d", "i.paymentHash", "i.currency", "i.expiry", "methodDetails"} \subseteq Members
      BY DEF Members
    <3> QED
      BY <1>2, <2>1, <3>1 DEF Invoiced
  <2> QED
    BY <2>2, <2>3
<1>5. ASSUME ch.key \notin Lightning
      PROVE  later = named /\ placed.q.m["methodDetails"] = ch.q.m["methodDetails"]
  <2>1. placed.q = ch.q /\ placed.key = ch.key /\ placed.expires = ch.expires
    BY <1>1, <1>2, <1>5 DEF Lightning, Requests
  <2>2. PAIRING_CHECKS(placed, TRUE) = PAIRING_CHECKS(ch, TRUE)
    BY <2>1, SameRequestChecksSame, Zenon
  <2>3. later = named
    BY <1>5, <2>2, CarriedTellsLightning
  <2> QED
    BY <2>1, <2>3
<1>6. later = named /\ placed.q.m["methodDetails"] = ch.q.m["methodDetails"]
  BY <1>4, <1>5
<1> HIDE DEF named, later
<1>7. Sound(placed, TRUE)
  BY <1>1, <1>3, <1>6 DEF Sound, CarrierTaken, Opt
<1>8. TimedNames(placed, later) = TimedNames(ch, named)
  BY <1>1, <1>6 DEF TimedNames
<1>9. later = PAIRING_CHECKS(placed, TRUE)
  BY DEF later
<1>10. check_challenge(placed, TRUE, TRUE).code = "none"
       /\ check_challenge(placed, TRUE, TRUE).names = TimedNames(placed, later)
  <2>1. later.code = "none" /\ (TimedNames(placed, later) # {} \/ later.names = {})
    BY <1>3, <1>6, <1>8
  <2> QED
    BY <1>7, <1>9, <2>1, CheckPasses, Zenon
<1>11. placed = Placed(ch, h, link, agreement)
  BY DEF placed
<1> QED
  BY <1>3, <1>8, <1>10, <1>11 DEF pairings_of_placed, Offered

(* The methods whose parameters params_of reads.                            *)
ParamsKeys == {"mpp/session/evm", "mpp/session/tempo", "mpp/subscription/tempo"}

(* What the three checks of a session or subscription clear, params_of      *)
(* clears too.                                                              *)
LEMMA SessionClears ==
    ASSUME NEW ch, ch.key \in ParamsKeys,
           PAIRING_CHECKS(ch, TRUE).names # {}
    PROVE  /\ ch.key = "mpp/session/tempo" =>
                /\ ch.q.m["d.sessionProtocol"] # "bad"
                /\ ch.q.m["d.sessionProtocol"] = "v2" => Has(ch.q, "d.chainId") /\ Has(ch.q, "d.escrowContract")
                /\ Opt(ch.q, {"d.chainId"})
           /\ ch.key # "mpp/session/tempo" => Ok(ch.q, {"d.chainId"})
           /\ ch.key # "mpp/subscription/tempo" => Ok(ch.q, {"d.escrowContract"})
<1> DEFINE q == ch.q
<1>1. CASE ch.key = "mpp/session/evm"
  <2> DEFINE faults ==
            << <<Has(q, "d.channelId") \/ Has(q, "d.sessionSnapshot"), "mpp/channel-named">>,
               <<~Ok(q, {"d.escrowContract"}), "mpp/escrow-malformed">>,
               <<~Ok(q, {"d.chainId"}), "mpp/chain-id-required">>,
               <<~Ok(q, {"r.currency", "r.recipient"}), "mpp/request-malformed">>,
               <<Has(q, "d.credentialTypes")
                   /\ (q.types = <<>> \/ ~(ToSet(q.types) \subseteq {"permit2", "authorization", "hash"})),
                 "mpp/credential-types">>,
               <<Contains(q.types, "permit2") /\ ~Opt(q, {"d.permit2Contract"}), "mpp/request-malformed">> >>
  <2>1. PAIRING_CHECKS(ch, TRUE) = FirstFault(faults, {"mpp/session/evm"})
    BY <1>1 DEF PAIRING_CHECKS, evm_session_pairings
  <2>2. faults[2][1] = ~Ok(q, {"d.escrowContract"}) /\ faults[3][1] = ~Ok(q, {"d.chainId"})
    OBVIOUS
  <2>3. DOMAIN faults = 1..6 /\ 6 \in Nat /\ 2 \in 1..6 /\ 3 \in 1..6
    OBVIOUS
  <2>4. \A i \in 1..6 : faults[i][2] # "none"
    OBVIOUS
  <2> HIDE DEF faults, q
  <2>5. \A i \in 1..6 : ~faults[i][1]
    BY <2>1, <2>3, <2>4, NamedClears
  <2> QED
    BY <1>1, <2>2, <2>3, <2>5, Zenon DEF q
<1>2. CASE ch.key = "mpp/session/tempo"
  <2> DEFINE faults ==
            << <<Has(q, "d.channelId") \/ Has(q, "d.sessionSnapshot"), "mpp/channel-named">>,
               <<q.m["d.sessionProtocol"] = "bad", "mpp/session-protocol">>,
               <<q.m["d.sessionProtocol"] = "v2" /\ ~(Has(q, "d.chainId") /\ Has(q, "d.escrowContract")),
                 "mpp/chain-id-required">>,
               <<~Opt(q, {"d.chainId"}), "mpp/chain-id-required">>,
               <<~Ok(q, {"d.escrowContract"}), "mpp/escrow-malformed">>,
               <<~Opt(q, {"d.operator"}) \/ ~Ok(q, {"r.currency", "r.recipient"}), "mpp/request-malformed">> >>
  <2>1. PAIRING_CHECKS(ch, TRUE) = FirstFault(faults, {"mpp/session/tempo"})
    BY <1>2 DEF PAIRING_CHECKS, tempo_session_pairings
  <2>2. /\ faults[2][1] = (q.m["d.sessionProtocol"] = "bad")
        /\ faults[3][1] = (q.m["d.sessionProtocol"] = "v2" /\ ~(Has(q, "d.chainId") /\ Has(q, "d.escrowContract")))
        /\ faults[4][1] = ~Opt(q, {"d.chainId"})
        /\ faults[5][1] = ~Ok(q, {"d.escrowContract"})
    OBVIOUS
  <2>3. DOMAIN faults = 1..6 /\ 6 \in Nat /\ 2 \in 1..6 /\ 3 \in 1..6 /\ 4 \in 1..6 /\ 5 \in 1..6
    OBVIOUS
  <2>4. \A i \in 1..6 : faults[i][2] # "none"
    OBVIOUS
  <2> HIDE DEF faults, q
  <2>5. \A i \in 1..6 : ~faults[i][1]
    BY <2>1, <2>3, <2>4, NamedClears
  <2>6. ~faults[2][1] /\ ~faults[3][1] /\ ~faults[4][1] /\ ~faults[5][1]
    BY <2>3, <2>5
  <2>7. ch.key # "mpp/subscription/tempo"
    BY <1>2
  <2> QED
    BY <1>2, <2>2, <2>6, <2>7, Zenon DEF q
<1>3. CASE ch.key = "mpp/subscription/tempo"
  <2> DEFINE faults ==
            << <<~Ok(q, {"d.accessKey"}), "mpp/access-key-malformed">>,
               <<~Ok(q, {"r.subscriptionExpires"}), "mpp/request-malformed">>,
               <<~Ok(q, {"d.chainId"}), "mpp/chain-id-required">>,
               <<\/ ~Ok(q, {"r.currency", "r.recipient", "r.amount"})
                 \/ q.m["r.periodUnit"] \notin {"day", "week"}
                 \/ q.m["r.periodCount"] \notin {"good", "mid", "long"} \/ PeriodOver(q), "mpp/request-malformed">> >>
  <2>1. PAIRING_CHECKS(ch, TRUE) = FirstFault(faults, {"mpp/subscription/tempo"})
    BY <1>3 DEF PAIRING_CHECKS, subscription_pairings
  <2>2. faults[3][1] = ~Ok(q, {"d.chainId"})
    OBVIOUS
  <2>3. DOMAIN faults = 1..4 /\ 4 \in Nat /\ 3 \in 1..4
    OBVIOUS
  <2>4. \A i \in 1..4 : faults[i][2] # "none"
    OBVIOUS
  <2> HIDE DEF faults, q
  <2>5. \A i \in 1..4 : ~faults[i][1]
    BY <2>1, <2>3, <2>4, NamedClears
  <2>6. ch.key # "mpp/session/tempo"
    BY <1>3
  <2> QED
    BY <1>3, <2>2, <2>3, <2>5, <2>6, Zenon DEF q
<1> QED
  BY <1>1, <1>2, <1>3 DEF ParamsKeys

(* params_of refuses no session or subscription the first read took.        *)
LEMMA ParamsRead ==
    ASSUME NEW ch, ch.key \in ParamsKeys,
           Sound(ch, TRUE), PAIRING_CHECKS(ch, TRUE).names # {}
    PROVE  ParamsNetwork(params_of(ch)) \in {"eip155:1", TEMPO_V1_DEFAULT_CHAIN}
<1> DEFINE q == ch.q
           tempo == ch.key = "mpp/session/tempo"
           v2 == tempo /\ q.m["d.sessionProtocol"] = "v2"
           faults ==
            << <<ch.key \notin {"mpp/session/evm", "mpp/session/tempo", "mpp/subscription/tempo"},
              "mpp/not-this-pairing">>,
               <<ch.request = "bad" \/ ~Opt(q, {"methodDetails"}), "mpp/request-malformed">>,
               <<tempo /\ q.m["d.sessionProtocol"] = "bad", "mpp/session-protocol">>,
               <<v2 /\ ~(Has(q, "d.chainId") /\ Has(q, "d.escrowContract")), "mpp/chain-id-required">>,
               <<~Ok(q, {"d.chainId"}) /\ ~V1Default(ch), "mpp/chain-id-required">>,
               <<ch.key # "mpp/subscription/tempo" /\ ~Ok(q, {"d.escrowContract"}), "mpp/escrow-malformed">> >>
<1>1. /\ tempo =>
           /\ q.m["d.sessionProtocol"] # "bad"
           /\ q.m["d.sessionProtocol"] = "v2" => Has(q, "d.chainId") /\ Has(q, "d.escrowContract")
           /\ Opt(q, {"d.chainId"})
      /\ ~tempo => Ok(q, {"d.chainId"})
      /\ ch.key # "mpp/subscription/tempo" => Ok(q, {"d.escrowContract"})
  BY SessionClears
<1>2. /\ faults[1][1] = (ch.key \notin {"mpp/session/evm", "mpp/session/tempo", "mpp/subscription/tempo"})
      /\ faults[2][1] = (ch.request = "bad" \/ ~Opt(q, {"methodDetails"}))
      /\ faults[3][1] = (tempo /\ q.m["d.sessionProtocol"] = "bad")
      /\ faults[4][1] = (v2 /\ ~(Has(q, "d.chainId") /\ Has(q, "d.escrowContract")))
      /\ faults[5][1] = (~Ok(q, {"d.chainId"}) /\ ~V1Default(ch))
      /\ faults[6][1] = (ch.key # "mpp/subscription/tempo" /\ ~Ok(q, {"d.escrowContract"}))
  OBVIOUS
<1>3. Ok(q, {"d.chainId"}) \/ V1Default(ch)
  <2>1. CASE tempo
    BY <1>1, <2>1 DEF Ok, Opt, Has, V1Default
  <2> QED
    BY <1>1, <2>1
<1>4. DOMAIN faults = 1..6 /\ \A i \in 1..6 : i = 1 \/ i = 2 \/ i = 3 \/ i = 4 \/ i = 5 \/ i = 6
  OBVIOUS
<1>5. params_of(ch).code = FirstFault(faults, {}).code
      /\ params_of(ch).network = IF V1Default(ch) THEN TEMPO_V1_DEFAULT_CHAIN ELSE ChainOf(q)
  BY DEF params_of
<1>6. ~faults[1][1] /\ ~faults[2][1] /\ ~faults[3][1] /\ ~faults[4][1] /\ ~faults[5][1] /\ ~faults[6][1]
  BY <1>1, <1>2, <1>3 DEF Sound, ParamsKeys
<1> HIDE DEF faults
<1>7. FirstFault(faults, {}).code = "none"
  <2>1. {i \in DOMAIN faults : faults[i][1]} = {}
    BY <1>4, <1>6
  <2> QED
    BY <2>1 DEF FirstFault, Offers
<1> QED
  BY <1>5, <1>7 DEF ParamsNetwork, ChainOf

(* usdc's check names the pairing of the profile's one network.             *)
LEMMA UsdcKind ==
    ASSUME NEW ch, NEW p \in usdc_charge_pairings(ch).names, p # "mpp/charge/usdc/gateway"
    PROVE  ch.q.m["u.type"] \in {"evm", "solana", "stacks"}
BY DEF usdc_charge_pairings, FirstFault, No, Offers

(* Whatever is offered to be signed for names a network the buyer can pay on.*)
LEMMA NetworkKnown == \A ch \in Challenges : NetworkReads(ch)
<1> DEFINE Unsigned == ConfirmOnly \cup Unnetworked \cup {"mpp/charge/hedera"}
<1> SUFFICES ASSUME NEW ch \in Challenges, NEW p \in pairings_of_placed(ch), p \notin Unsigned,
                    ch.q.m["d.network"] # "localnet"
             PROVE  network(ch) \in Named
  BY DEF NetworkReads
<1> HIDE DEF Unsigned
<1> DEFINE named == PAIRING_CHECKS(ch, TRUE)
<1>1. check_challenge(ch, TRUE, TRUE).code = "none" /\ p \in check_challenge(ch, TRUE, TRUE).names
  BY DEF pairings_of_placed, Offered
<1>2. Sound(ch, TRUE) /\ p \in named.names
  <2>1. Sound(ch, TRUE) /\ p \in TimedNames(ch, named)
    <3>1. named = PAIRING_CHECKS(ch, TRUE)
      OBVIOUS
    <3> HIDE DEF named
    <3> QED
      BY <1>1, <3>1, CheckPasses
  <2> QED
    BY <2>1 DEF TimedNames
<1>3. KeyOf(p) = ch.key
  BY <1>2, NamedOfKey
<1>4. ch.key \notin Lightning
  <2>1. ASSUME ch.key \in Lightning
        PROVE  p = ch.key
    BY <1>2, <2>1 DEF PAIRING_CHECKS, Lightning, lightning_pairings, FirstFault, No, Offers
  <2> QED
    BY <2>1 DEF Unsigned, Unnetworked, Lightning
<1>5. check_challenge(ch, TRUE, FALSE).code = "none"
  <2>1. PAIRING_CHECKS(ch, TRUE) = PAIRING_CHECKS(ch, FALSE)
    BY <1>4, CarriedTellsLightning
  <2> QED
    BY <1>1, <2>1 DEF check_challenge
<1>6. ch.key \notin {"mpp/charge/card", "mpp/charge/stripe", "mpp/subscription/stripe", "mpp/charge/nearintents",
                     "mpp/charge/hedera"}
  <2>1. ASSUME ch.key \in {"mpp/charge/card", "mpp/charge/stripe", "mpp/subscription/stripe", "mpp/charge/nearintents",
                           "mpp/charge/hedera"}
        PROVE  p = ch.key
    BY <1>3, <2>1 DEF KeyOf, EVM_CREDENTIAL_TYPES
  <2> QED
    BY <2>1 DEF Unsigned, ConfirmOnly
<1>7. ch.key \in {"mpp/charge/evm", "mpp/charge/tempo", "mpp/session/evm", "mpp/session/tempo",
                  "mpp/subscription/tempo", "mpp/session/hedera", "mpp/charge/solana", "mpp/session/solana",
                  "mpp/charge/stellar", "mpp/charge/xrpl", "mpp/session/xrpl", "mpp/charge/usdc"}
  <2>1. ASSUME ch.key \notin NamedByKey \cup {"mpp/charge/evm", "mpp/charge/tempo", "mpp/charge/usdc"}
        PROVE  named.names = {}
    BY <2>1 DEF PAIRING_CHECKS, NamedByKey, Lightning, No
  <2>2. ch.key \in NamedByKey \cup {"mpp/charge/evm", "mpp/charge/tempo", "mpp/charge/usdc"}
    BY <1>2, <2>1
  <2> QED
    BY <1>4, <1>6, <2>2 DEF NamedByKey
<1> DEFINE q == ch.q
<1>8. network(ch) =
        IF ch.key \in {"mpp/charge/evm", "mpp/charge/tempo"} THEN IF Has(q, "d.chainId") THEN ChainOf(q)
             ELSE TEMPO_DEFAULT_CHAIN
        ELSE IF ch.key \in {"mpp/session/evm", "mpp/session/tempo", "mpp/subscription/tempo"}
        THEN ParamsNetwork(params_of(ch))
        ELSE IF ch.key \in {"mpp/charge/solana", "mpp/session/solana"} THEN SolanaNetwork(q)
        ELSE IF ch.key \in {"mpp/charge/xrpl", "mpp/session/xrpl"} THEN "xrpl:0"
        ELSE IF ch.key = "mpp/charge/hedera" THEN HederaNetwork(q, "hedera/chain-id-unnamed")
        ELSE IF ch.key = "mpp/session/hedera" THEN HederaNetwork(q, "hedera:mainnet")
        ELSE IF ch.key = "mpp/charge/stellar" THEN "stellar:pubnet"
        ELSE IF ch.key = "mpp/charge/nearintents" THEN "origin:1"
        ELSE IF ch.key = "mpp/charge/usdc" /\ q.m["u.type"] = "evm" THEN ChainOf(q)
        ELSE IF ch.key = "mpp/charge/usdc" /\ q.m["u.type"] = "stacks" THEN "stacks:1"
        ELSE IF ch.key = "mpp/charge/usdc" /\ q.m["u.type"] = "solana" THEN SolanaNetwork(q)
        ELSE "mpp/network-unnamed"
  BY <1>5 DEF network, Or
<1>9. SolanaNetwork(q) = "solana:mainnet" /\ HederaNetwork(q, "hedera:mainnet") = "hedera:mainnet"
      /\ ChainOf(q) = "eip155:1"
  BY DEF SolanaNetwork, HederaNetwork, ChainOf
<1>10. ch.key \in ParamsKeys => ParamsNetwork(params_of(ch)) \in {"eip155:1", TEMPO_V1_DEFAULT_CHAIN}
  <2>1. PAIRING_CHECKS(ch, TRUE).names # {}
    BY <1>2
  <2> QED
    BY <1>2, <2>1, ParamsRead
<1>11. ch.key = "mpp/charge/usdc" => q.m["u.type"] \in {"evm", "solana", "stacks"}
  BY <1>2, UsdcKind DEF PAIRING_CHECKS, Unsigned, Unnetworked
<1> HIDE DEF q
<1> QED
  BY <1>7, <1>8, <1>9, <1>10, <1>11 DEF Named, ParamsKeys

(***************************************************************************)
(* What the seller was told, and what is placed.                           *)
(***************************************************************************)

(* As issued, each challenge is one check_challenge passes, and is told to  *)
(* offer what that check names; once placed, it offers the same.            *)
IssuedNamed ==
    /\ stage = "issued" =>
         \A i \in DOMAIN doc : /\ check_challenge(doc[i], FALSE, FALSE).code = "none"
                               /\ issued[i] = check_challenge(doc[i], FALSE, FALSE).names
    /\ stage = "placed" => \A i \in DOMAIN doc : OffersSame(i)

(* Every step keeps IssuedNamed.                                            *)
LEMMA IssuedSteps == Documented /\ IssuedNamed /\ [Next]_vars => IssuedNamed'
<1> SUFFICES ASSUME Documented, IssuedNamed, [Next]_vars
             PROVE  IssuedNamed'
  OBVIOUS
<1>1. ASSUME NEW d \in Documents, Issue(d)
      PROVE  IssuedNamed'
  <2>1. PICK checked \in {[i \in DOMAIN d |-> check_challenge(d[i], FALSE, FALSE)]} :
          /\ \A i \in DOMAIN d : checked[i].code = "none"
          /\ issued' = [i \in DOMAIN d |-> checked[i].names]
    BY <1>1 DEF Issue
  <2>2. \A i \in DOMAIN d : checked[i] = check_challenge(d[i], FALSE, FALSE)
    OBVIOUS
  <2>3. doc' = d /\ stage' = "issued"
    BY <1>1 DEF Issue
  <2> QED
    BY <2>1, <2>2, <2>3 DEF IssuedNamed
<1>2. ASSUME NEW h \in Hashes, NEW link \in Links, NEW agreement \in Agreements, Place(h, link, agreement)
      PROVE  IssuedNamed'
  <2>1. /\ stage = "issued" /\ stage' = "placed" /\ issued' = issued
        /\ doc' = [i \in DOMAIN doc |-> Placed(doc[i], h, link, agreement)]
    BY <1>2 DEF Place
  <2>2. ASSUME NEW i \in DOMAIN doc
        PROVE  pairings_of_placed(doc'[i]) = issued'[i]
    <3>1. doc[i] \in Challenges
      BY DEF Documented
    <3>2. /\ check_challenge(doc[i], FALSE, FALSE).code = "none"
          /\ issued[i] = check_challenge(doc[i], FALSE, FALSE).names
      BY <2>1 DEF IssuedNamed
    <3>3. doc'[i] = Placed(doc[i], h, link, agreement)
      BY <2>1
    <3> QED
      BY <2>1, <3>1, <3>2, <3>3, PlacedOffers
  <2>3. DOMAIN doc' = DOMAIN doc /\ stage' # "issued"
    BY <2>1
  <2> QED
    BY <2>2, <2>3 DEF IssuedNamed, OffersSame
<1>3. CASE stage' \notin {"issued", "placed"}
  BY <1>3 DEF IssuedNamed
<1>4. CASE UNCHANGED <<stage, doc, issued>>
  BY <1>4 DEF IssuedNamed, OffersSame
<1>5. ASSUME NEW i \in DOMAIN doc, NEW ch \in Challenges, Change(i, ch)
      PROVE  IssuedNamed'
  BY <1>3, <1>5 DEF Change
<1>6. CASE Read
  BY <1>3, <1>6 DEF Read
<1>7. ASSUME NEW p, NEW account, Choose(p, account)
      PROVE  IssuedNamed'
  BY <1>3, <1>7 DEF Choose
<1>8. ASSUME NEW ours, NEW funding, Build(ours, funding)
      PROVE  IssuedNamed'
  BY <1>3, <1>8 DEF Build
<1>9. ASSUME NEW ch, ChangeMine(ch)
      PROVE  IssuedNamed'
  BY <1>4, <1>9 DEF ChangeMine
<1>10. CASE Complete
  BY <1>3, <1>10 DEF Complete
<1>11. CASE Bound
  BY <1>3, <1>11 DEF Bound
<1>12. CASE UNCHANGED vars
  BY <1>4, <1>12 DEF vars
<1> QED
  BY <1>1, <1>2, <1>5, <1>6, <1>7, <1>8, <1>9, <1>10, <1>11, <1>12 DEF Next

(* Placing the LCP members, the id and the invoice takes no pairing from a  *)
(* challenge and gives it none, and what is to be signed for names a network*)
(* (check_challenge before and after placing, and params_of).               *)
THEOREM PlacedOffersSameHolds == Spec => []PlacedOffersSame
<1>1. Init => IssuedNamed
  BY DEF Init, IssuedNamed
<1>2. Documented /\ IssuedNamed => PlacedOffersSame
  <2> SUFFICES ASSUME Documented, IssuedNamed, stage = "placed", NEW i \in DOMAIN doc
               PROVE  OffersSame(i) /\ NetworkReads(doc[i])
    BY DEF PlacedOffersSame
  <2>1. doc[i] \in Challenges
    BY DEF Documented
  <2> QED
    BY <2>1, NetworkKnown DEF IssuedNamed
<1> QED
  BY <1>1, <1>2, DocumentedHolds, IssuedSteps, PTL DEF Spec
================================================================================
