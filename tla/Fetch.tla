--------------------------------- MODULE Fetch ---------------------------------
(***************************************************************************)
(* Fetching an ATR from its link: the gate's _fetch (_gate.py), one GET of *)
(* bounded size and time, over the server's publicFetch (public-fetch.ts), *)
(* which connects only to public addresses.  The resolver, the network and *)
(* the host are the environment: a name may resolve to anything each time  *)
(* it is asked, and any connection may fail or stay silent.                *)
(***************************************************************************)
EXTENDS Naturals, Sequences, FiniteSets, PublicAddress

CONSTANTS
    Public,         \* addresses isPublicAddress accepts
    Private,        \* addresses it refuses
    Schemes,        \* the schemes of links, "https" among them
    Named,          \* the addresses a name may resolve to
    Name,           \* the host of a link that names no address
    Sizes,          \* the sizes of a body's chunks
    Declared,       \* the declared lengths, each a sequence of decimal digits
    Absent,         \* no content-length, or none that is all digits
    MAX_ATR_BYTES   \* the bound of a body

Addresses == Public \cup Private

ASSUME FetchAssumption ==
    /\ MAX_ATR_BYTES \in Nat
    /\ Sizes \subseteq Nat
    /\ Declared \subseteq Seq(0..9)
    /\ Public \cap Private = {}
    /\ Named \subseteq Addresses
    /\ Name \notin Addresses
    /\ Absent \notin Declared

(* Addresses are IP addresses, public as isPublicAddress judges them.       *)
ASSUME JudgedAssumption ==
    /\ Addresses \subseteq [1..4 -> 0..255] \cup [1..16 -> 0..255]
    /\ \A a \in Public : IsPublicAddress(a)
    /\ \A a \in Private : ~IsPublicAddress(a)

VARIABLES
    pc,         \* "idle", "lookup", "connect", "waiting", "reading" or "done"
    host,       \* what the link names, an address or Name
    given,      \* the addresses the connection may be tried at, in order
    peers,      \* every address a connection was tried at
    answer,     \* the response's head, [status, identity, declared, consumed]
    sent,       \* the size of the body sent so far
    ended,      \* the host has sent all of the body
    held,       \* the bytes the gate holds of it
    result      \* "none", "bytes", "atr-too-large" or "atr-unfetchable"

vars == <<pc, host, given, peers, answer, sent, ended, held, result>>

NoAnswer == [status |-> 0, identity |-> FALSE, declared |-> Absent, consumed |-> FALSE]
Answers == [status : {200, 302, 404}, identity : BOOLEAN, declared : Declared \cup {Absent}, consumed : BOOLEAN]

------------------------------------------------------------------------------
Significant(digits) ==
    LET nonzero == {i \in DOMAIN digits : digits[i] # 0}
    IN  IF nonzero = {} THEN <<0>>
        ELSE SubSeq(digits, CHOOSE i \in nonzero : \A k \in nonzero : i <= k, Len(digits))

(* The decimal value of digits. *)
Value(digits) ==
    LET value[i \in 0..Len(digits)] == IF i = 0 THEN 0 ELSE 10 * value[i - 1] + digits[i]
    IN  value[Len(digits)]

(* The digits of a power of ten, a one and d zeros. *)
Ten(d) == <<1>> \o Zeros(d)

(* The length of a number in decimal. *)
DecimalLength(n) == CHOOSE d \in 1..(n + 1) : n < Value(Ten(d)) /\ (d = 1 \/ n >= Value(Ten(d - 1)))

(* Mutant of DeclaredOver: a value longer than the bound's is taken as over *)
(* it, leading zeros and all.                                               *)
DeclaredOverByLength(declared) ==
    /\ declared # Absent
    /\ \/ Len(declared) > DecimalLength(MAX_ATR_BYTES)
       \/ Value(declared) > MAX_ATR_BYTES

(* A content-length declares more than the bound: by length, then by value. *)
DeclaredOver(declared) ==
    /\ declared # Absent
    /\ \/ Len(Significant(declared)) > DecimalLength(MAX_ATR_BYTES)
       \/ Value(Significant(declared)) > MAX_ATR_BYTES

Fits(size) == size <= MAX_ATR_BYTES

------------------------------------------------------------------------------
Init ==
    /\ pc = "idle"
    /\ host = Name
    /\ given = <<>>
    /\ peers = {}
    /\ answer = NoAnswer
    /\ sent = 0
    /\ ended = FALSE
    /\ held = 0
    /\ result = "none"

(* Mutant of End: a failure is not told. *)
EndSilent(r) ==
    /\ pc' = "done"
    /\ result' = IF r = "atr-unfetchable" THEN "none" ELSE r

End(r) ==
    /\ pc' = "done"
    /\ result' = r

(* The transport takes an https link, of a public address or of a name. *)
Start ==
    /\ pc = "idle"
    /\ \E scheme \in Schemes, h \in Addresses \cup {Name} :
          /\ host' = h
          /\ IF scheme # "https" \/ h \in Private
             THEN End("atr-unfetchable") /\ UNCHANGED given
             ELSE /\ pc' = IF h = Name THEN "lookup" ELSE "connect"
                  /\ given' = IF h = Name THEN <<>> ELSE <<h>>
                  /\ UNCHANGED result
    /\ UNCHANGED <<peers, answer, sent, ended, held>>

(* Mutant of Lookup: the checked name is resolved again to connect. *)
LookupAgain ==
    /\ pc = "lookup"
    /\ \E found, again \in UNION {[1..n -> Named] : n \in 0..2} :
          IF found = <<>> \/ \E i \in DOMAIN found : found[i] \in Private
          THEN End("atr-unfetchable") /\ UNCHANGED given
          ELSE pc' = "connect" /\ given' = again /\ UNCHANGED result
    /\ UNCHANGED <<host, peers, answer, sent, ended, held>>

(* The name resolves to any addresses; every one must be public, and the    *)
(* socket is given them all or the first.                                   *)
Lookup ==
    /\ pc = "lookup"
    /\ \E found \in UNION {[1..n -> Named] : n \in 0..2} :
          IF found = <<>> \/ \E i \in DOMAIN found : found[i] \in Private
          THEN End("atr-unfetchable") /\ UNCHANGED given
          ELSE /\ pc' = "connect"
               /\ given' \in {found, <<found[1]>>}
               /\ UNCHANGED result
    /\ UNCHANGED <<host, peers, answer, sent, ended, held>>

(* The next address given is tried; it takes the request or not. *)
Connect ==
    /\ pc = "connect"
    /\ given # <<>>
    /\ peers' = peers \cup {Head(given)}
    /\ given' = Tail(given)
    /\ pc' \in {"connect", "waiting"}
    /\ UNCHANGED <<host, answer, sent, ended, held, result>>

NoneConnects ==
    /\ pc = "connect"
    /\ given = <<>>
    /\ End("atr-unfetchable")
    /\ UNCHANGED <<host, given, peers, answer, sent, ended, held>>

(* A head arrives.  A redirect is an answer as any other; nothing of a body *)
(* is read that is not of a 200, is coded, or is declared too large.        *)
Headers ==
    /\ pc = "waiting"
    /\ \E a \in Answers :
          /\ answer' = a
          /\ IF a.status # 200 \/ ~a.identity THEN End("atr-unfetchable")
             ELSE IF DeclaredOver(a.declared) THEN End("atr-too-large")
             ELSE pc' = "reading" /\ UNCHANGED result
    /\ UNCHANGED <<host, given, peers, sent, ended, held>>

(* Mutant of Chunk: the size is checked once the body has ended. *)
ChunkUnchecked ==
    /\ pc = "reading"
    /\ ~answer.consumed
    /\ ~ended
    /\ sent < 2 * MAX_ATR_BYTES
    /\ \E size \in Sizes : sent' = sent + size
    /\ ended' \in BOOLEAN
    /\ held' = sent'
    /\ UNCHANGED <<pc, host, given, peers, answer, result>>

(* A chunk of the body arrives, the last one or not, and is kept; the body  *)
(* is given up as soon as it is over the bound.                             *)
Chunk ==
    /\ pc = "reading"
    /\ ~answer.consumed
    /\ ~ended
    /\ \E size \in Sizes : sent' = sent + size
    /\ ended' \in BOOLEAN
    /\ held' = sent'
    /\ IF Fits(held') THEN UNCHANGED <<pc, result>> ELSE End("atr-too-large")
    /\ UNCHANGED <<host, given, peers, answer>>

(* A transport that has read the whole body hands it over at once. *)
Consumed ==
    /\ pc = "reading"
    /\ answer.consumed
    /\ \E size \in {0, MAX_ATR_BYTES, MAX_ATR_BYTES + 1} :
          /\ sent' = size
          /\ held' = size
          /\ End(IF Fits(size) THEN "bytes" ELSE "atr-too-large")
    /\ ended' = TRUE
    /\ UNCHANGED <<host, given, peers, answer>>

BodyEnds ==
    /\ pc = "reading"
    /\ ended
    /\ End("bytes")
    /\ UNCHANGED <<host, given, peers, answer, sent, ended, held>>

(* The lookup, the connection or the body fails. *)
Fails ==
    /\ pc \in {"lookup", "connect", "waiting", "reading"}
    /\ End("atr-unfetchable")
    /\ UNCHANGED <<host, given, peers, answer, sent, ended, held>>

(* Mutant of DeadlinePasses: the deadline is over the head alone. *)
DeadlineOfHead ==
    /\ pc \in {"lookup", "connect", "waiting"}
    /\ End("atr-unfetchable")
    /\ UNCHANGED <<host, given, peers, answer, sent, ended, held>>

(* The one deadline, over connecting, head and body. *)
DeadlinePasses ==
    /\ pc \notin {"idle", "done"}
    /\ End("atr-unfetchable")
    /\ UNCHANGED <<host, given, peers, answer, sent, ended, held>>

Next ==
    \/ Start
    \/ Lookup
    \/ Connect
    \/ NoneConnects
    \/ Headers
    \/ Chunk
    \/ Consumed
    \/ BodyEnds
    \/ Fails
    \/ DeadlinePasses

(* Time passes, whatever the host does. *)
Spec == Init /\ [][Next]_vars /\ WF_vars(DeadlinePasses)

------------------------------------------------------------------------------
(* The state's types. *)
TypeOK ==
    /\ pc \in {"idle", "lookup", "connect", "waiting", "reading", "done"}
    /\ host \in Addresses \cup {Name}
    /\ given \in Seq(Addresses)
    /\ peers \subseteq Addresses
    /\ answer \in Answers \cup {NoAnswer}
    /\ sent \in Nat
    /\ ended \in BOOLEAN
    /\ held \in Nat
    /\ result \in {"none", "bytes", "atr-too-large", "atr-unfetchable"}
    /\ result # "none" <=> pc = "done"

(* No connection is ever tried at an address that is not public, whatever   *)
(* the link names and whatever its name resolves to from one query to the   *)
(* next (publicLookup answers with the addresses it checked).               *)
ConnectsPublic == peers \subseteq Public

(* The gate never holds more than one chunk past the bound, and what it     *)
(* returns is the whole body, within the bound, of a 200 with no coding,    *)
(* whatever the head declared (_fetch's three bounds); and a body is        *)
(* declined as too large only when it is, or is declared to be: no form of  *)
(* a declared length within the bound turns one away (_declared_over).      *)
ReturnsWhole ==
    /\ \E size \in Sizes \cup {1} : held <= MAX_ATR_BYTES + size
    /\ result = "bytes" => /\ answer.status = 200 /\ answer.identity
                           /\ ended /\ held = sent /\ sent <= MAX_ATR_BYTES
    /\ result = "atr-too-large" =>
        \/ sent > MAX_ATR_BYTES
        \/ answer.declared # Absent /\ Value(answer.declared) > MAX_ATR_BYTES

(* A fetch that is begun ends, though the host may accept a connection and  *)
(* stay silent at any point of its answer (asyncio.timeout in _fetch).      *)
FetchEnds == (pc # "idle") ~> (pc = "done")

(* An IPv4 address a link names is refused exactly when it is inside the    *)
(* registries' ranges, first and last address included, and one carried in  *)
(* IPv6 exactly when the address it carries is (isPublicAddress).           *)
RangesRefused ==
    host # Name /\ (Len(host) = 4 \/ Carries(host)) => (host \in Public <=> ~Reserved(host))
================================================================================
