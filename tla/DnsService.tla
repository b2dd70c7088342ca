----------------------------- MODULE DnsService ------------------------------
(***************************************************************************)
(* One query of the DNS service (dns.py): the name is read from the        *)
(* packet, perhaps along compression pointers, and answered at once or     *)
(* forwarded to one upstream resolver after the other.                     *)
(***************************************************************************)
EXTENDS Naturals

CONSTANTS
  Offsets,   \* bound: the last offset of a packet, a label or a pointer at each
  Upstreams  \* how many resolvers there are

ASSUME DnsAssumption == Offsets \in Nat \ {0} /\ Upstreams \in Nat

VARIABLES
  stageOfQuery,
  packet,     \* what is at each offset: a label, the end, a pointer, or rubbish
  offset,     \* where the name is read
  jumped,
  pointers,   \* the pointers followed so far (seen)
  resumeAt,   \* original_offset: where the question goes on
  replies,    \* what each resolver will do
  consulted,      \* how many have been consulted
  firstEmpty, \* 0 or the number of a resolver
  firstNxdomain,
  answer,
  source       \* the resolver whose reply is passed on

dnsVars == <<stageOfQuery, packet, offset, jumped, pointers, resumeAt, replies, consulted,
             firstEmpty, firstNxdomain, answer, source>>

\* "foreign" has another id or question, or no question at all; "other" has an rcode
\* that says nothing about the name.
Reply == {"positive", "empty", "nxdomain", "other", "foreign", "silent"}
Pointer == 1..Offsets
Label == 0
End == Offsets + 1
Bad == Offsets + 2
Cell == 0..Bad
StartOffset == 1

DnsInit ==
  /\ stageOfQuery = "waiting" /\ packet = [i \in 1..Offsets |-> Bad]
  /\ offset = StartOffset /\ jumped = FALSE /\ pointers = {} /\ resumeAt = StartOffset
  /\ replies = [i \in 1..Upstreams |-> "silent"] /\ consulted = 0
  /\ firstEmpty = 0 /\ firstNxdomain = 0 /\ answer = "none" /\ source = 0

DnsTypeOK ==
  /\ stageOfQuery \in {"waiting", "decoding", "forwarding", "answered"}
  /\ packet \in [1..Offsets -> Cell] /\ offset \in 1..(Offsets + 1) /\ jumped \in BOOLEAN
  /\ pointers \subseteq 1..Offsets /\ resumeAt \in 1..(Offsets + 1)
  /\ replies \in [1..Upstreams -> Reply] /\ consulted \in 0..Upstreams
  /\ firstEmpty \in 0..Upstreams /\ firstNxdomain \in 0..Upstreams
  /\ answer \in {"none", "refused", "format error", "local", "servfail", "forwarded"}
  /\ source \in 0..Upstreams

nameVars == <<packet, offset, jumped, pointers, resumeAt>>
forwardVars == <<replies, consulted, firstEmpty, firstNxdomain>>

\* A query from outside is refused, whatever it asks.
Receive ==
  /\ stageOfQuery = "waiting"
  /\ \/ /\ packet' \in [1..Offsets -> Cell]
        /\ stageOfQuery' = "decoding" /\ UNCHANGED answer
     \/ stageOfQuery' = "answered" /\ answer' = "refused" /\ UNCHANGED packet
  /\ UNCHANGED <<offset, jumped, pointers, resumeAt, source, forwardVars>>

-----------------------------------------------------------------------------
(* _decode_name *)

WellFormed == offset <= Offsets /\ packet[offset] \notin {Bad} \cup pointers

DecodeError ==
  /\ stageOfQuery = "decoding" /\ ~WellFormed
  /\ stageOfQuery' = "answered" /\ answer' = "format error"
  /\ UNCHANGED <<nameVars, source, forwardVars>>

DecodeLabel ==
  /\ stageOfQuery = "decoding" /\ WellFormed /\ packet[offset] = Label
  /\ offset' = offset + 1
  /\ UNCHANGED <<stageOfQuery, packet, jumped, pointers, resumeAt, answer, source, forwardVars>>

\* Mutant of FollowPointer: the last pointer decides where the question goes on.
FollowLast ==
  /\ stageOfQuery = "decoding" /\ WellFormed /\ packet[offset] \in Pointer
  /\ pointers' = pointers \cup {packet[offset]}
  /\ resumeAt' = offset + 1 /\ jumped' = TRUE
  /\ offset' = packet[offset]
  /\ UNCHANGED <<stageOfQuery, packet, answer, source, forwardVars>>

FollowPointer ==
  /\ stageOfQuery = "decoding" /\ WellFormed /\ packet[offset] \in Pointer
  /\ pointers' = pointers \cup {packet[offset]}
  /\ resumeAt' = (IF jumped THEN resumeAt ELSE offset + 1) /\ jumped' = TRUE
  /\ offset' = packet[offset]
  /\ UNCHANGED <<stageOfQuery, packet, answer, source, forwardVars>>

\* Without room for the type and class (one offset here) the question is malformed. A
\* name in the base domain is answered from the settings; for any other the resolvers
\* are consulted.
DecodeEnd ==
  /\ stageOfQuery = "decoding" /\ WellFormed /\ packet[offset] = End
  /\ resumeAt' = IF jumped THEN resumeAt ELSE offset + 1
  /\ \/ /\ resumeAt' > Offsets
        /\ stageOfQuery' = "answered" /\ answer' = "format error" /\ UNCHANGED replies
     \/ /\ resumeAt' <= Offsets
        /\ stageOfQuery' = "answered" /\ answer' = "local" /\ UNCHANGED replies
     \/ /\ resumeAt' <= Offsets
        /\ stageOfQuery' = "forwarding" /\ replies' \in [1..Upstreams -> Reply]
        /\ UNCHANGED answer
  /\ UNCHANGED <<packet, offset, jumped, pointers, source, consulted, firstEmpty, firstNxdomain>>

-----------------------------------------------------------------------------
(* _forward_query *)

PassOn(i) == stageOfQuery' = "answered" /\ answer' = "forwarded" /\ source' = i

First(recorded, i) == IF recorded = 0 THEN i ELSE recorded

\* A positive answer ends the search; the first empty one and the first NXDOMAIN are
\* kept; a resolver that fails or answers something else is passed over.
AskUpstream ==
  /\ stageOfQuery = "forwarding" /\ consulted < Upstreams
  /\ consulted' = consulted + 1
  /\ LET i == consulted + 1 IN
       /\ IF replies[i] = "positive" THEN PassOn(i) ELSE UNCHANGED <<stageOfQuery, answer, source>>
       /\ firstEmpty' = IF replies[i] = "empty" THEN First(firstEmpty, i) ELSE firstEmpty
       /\ firstNxdomain' = IF replies[i] = "nxdomain" THEN First(firstNxdomain, i)
                                                      ELSE firstNxdomain
  /\ UNCHANGED <<nameVars, replies>>

GiveBest ==
  /\ stageOfQuery = "forwarding" /\ consulted = Upstreams
  /\ IF firstEmpty # 0 THEN PassOn(firstEmpty)
     ELSE IF firstNxdomain # 0 THEN PassOn(firstNxdomain)
     ELSE stageOfQuery' = "answered" /\ answer' = "servfail" /\ UNCHANGED source
  /\ UNCHANGED <<nameVars, forwardVars>>

DnsNext ==
  \/ Receive \/ DecodeError \/ DecodeLabel \/ FollowPointer \/ DecodeEnd
  \/ AskUpstream \/ GiveBest

DnsSpec == DnsInit /\ [][DnsNext]_dnsVars

-----------------------------------------------------------------------------
(* What it promises. *)

\* The offsets a name is read from, one after the other, without an end if it has none.
Walk ==
  LET at[k \in 0..Offsets] ==
        IF k = 0 THEN StartOffset
        ELSE LET i == at[k - 1] IN
             IF i \notin 1..Offsets THEN i
             ELSE IF packet[i] = Label THEN i + 1
             ELSE IF packet[i] \in Pointer THEN packet[i] ELSE i
  IN at

NameIsRead ==
  LET ends == \E k \in 0..Offsets : Walk[k] \in 1..Offsets /\ packet[Walk[k]] = End
      plain(i) == i \in 1..Offsets /\ packet[i] = Label
  IN /\ stageOfQuery = "forwarding" \/ answer = "local" =>
          /\ ends
          /\ ~plain(resumeAt - 1)
          /\ \A i \in StartOffset..(resumeAt - 2) : plain(i)
     /\ answer = "format error" => ~ends \/ resumeAt > Offsets

BestIsGiven ==
  LET has(kind) == \E i \in 1..Upstreams : replies[i] = kind
      first(kind) == /\ answer = "forwarded" /\ replies[source] = kind
                     /\ \A i \in 1..(source - 1) : replies[i] # kind
  IN answer \in {"forwarded", "servfail"} =>
       IF has("positive") THEN first("positive")
       ELSE IF has("empty") THEN first("empty")
       ELSE IF has("nxdomain") THEN first("nxdomain") ELSE answer = "servfail"

AnswerIsRight == NameIsRead /\ BestIsGiven

\* No step of the reading can be taken twice: it follows a pointer that is not in seen, or
\* goes on in the packet.
ReadsOn ==
  stageOfQuery = "decoding" =>
    \/ stageOfQuery' # "decoding"
    \/ pointers \subseteq pointers' /\ pointers' # pointers
    \/ pointers' = pointers /\ offset' > offset

\* A query that is answered has a name that reading brings to an end, one that is refused
\* has none or no room for a question, and the type and class are read where the name as
\* written ends: after its first pointer, or after its end when it has none
\* (_decode_name).  No loop of pointers keeps the reading going.  Of what the resolvers
\* have, the client gets the best: a positive answer if any has one, otherwise an empty
\* one, otherwise NXDOMAIN, the first of each kind, and a failure only if there is none of
\* them (_forward_query; public_dict calls it "try-all-prefer-positive").
AnsweredRightly == [][AnswerIsRight' /\ ReadsOn]_dnsVars
=============================================================================
