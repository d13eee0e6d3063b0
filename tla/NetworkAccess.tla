--------------------------- MODULE NetworkAccess ---------------------------
(***************************************************************************)
(* ctx.network() (crates/access-network): a fetch asks for a grant, which  *)
(* the pipeline answers (Authorizer), and then the backend.  The policies  *)
(* and the backend see the text of a URL; a request here also keeps the    *)
(* parts that text has by the syntax of URLs (RFC 3986), which the code    *)
(* does not parse, so that both can be compared.                           *)
(*                                                                         *)
(* Texts are sequences of pieces: separators, and words between them.      *)
(* Every such text is that of a request: a scheme and "://", or neither;   *)
(* user information up to its "@"; a host by its labels; a port from its   *)
(* ":" on; and what starts with a "/", a "?" or a "#".                     *)
(***************************************************************************)
EXTENDS Naturals, SequencesExt

CONSTANTS
  Word,     \* what separators stand between
  Fetch,    \* calls of fetch_url
  Request,  \* [absolute, scheme, user, host, port, rest], the host by its labels
  ExactUrl, \* the texts of AllowExactUrlFetchPolicy policies
  Domain,   \* the labels of AllowDomainFetchPolicy policies
  Responses \* StaticNetworkBackend.responses; DenyNetworkBackend has none

Separator == {"://", "/", ":", ".", "@", "?", "#"}
Piece == Word \cup Separator
Label == Seq(Word)

(* A host of one empty label has the text of none. *)
ASSUME NetworkAssumption ==
  /\ Word \cap Separator = {}
  /\ Request \subseteq [absolute : BOOLEAN, scheme : Seq(Word \cup {"."}),
                        user : Seq(Word \cup {":", ".", "@"}), host : Seq(Label) \ {<< <<>> >>},
                        port : Seq(Word \cup {":", "."}), rest : Seq(Piece)]
  /\ Domain \subseteq Seq(Label) \ {<<>>}
  /\ \A r \in Request :
       /\ r.user # <<>> => Last(r.user) = "@"
       /\ r.port # <<>> => Head(r.port) = ":"
       /\ r.rest # <<>> => Head(r.rest) \in {"/", "?", "#", "://"}

VARIABLES
  pc,      \* where each fetch is
  request, \* what it was asked for
  holds,   \* whether its context holds NetworkFetch
  body     \* what it returned

vars == <<pc, request, holds, body>>

NoBody == <<>>

(* Host names and URLs as text *)
Joined(labels) ==
  LET first[n \in 0..Len(labels)] == \* the first n labels
        IF n = 0 THEN <<>>
        ELSE IF n = 1 THEN labels[1]
        ELSE first[n - 1] \o <<".">> \o labels[n]
  IN  first[Len(labels)]

(* What stands before the port, and what follows. *)
Named(r) == r.user \o Joined(r.host)
After(r) == r.port \o r.rest

Text(r) == (IF r.absolute THEN r.scheme \o <<"://">> ELSE <<>>) \o (Named(r) \o After(r))

Init ==
  /\ pc = [f \in Fetch |-> "idle"]
  /\ request \in [Fetch -> Request]
  /\ holds \in [Fetch -> BOOLEAN]
  /\ body = [f \in Fetch |-> NoBody]

-----------------------------------------------------------------------------
(* The policies *)

FirstOf(text, pieces) == SelectInSeq(text, LAMBDA t : t \in pieces)

Before(text, pieces) ==
  LET i == FirstOf(text, pieces)
  IN  IF i = 0 THEN text ELSE SubSeq(text, 1, i - 1)

(* Slip: the port stays. *)
ExtractHostWithPort(url) ==
  LET i == FirstOf(url, {"://"})
  IN  IF i = 0 THEN <<>> ELSE Before(SubSeq(url, i + 1, Len(url)), {"/", "://"})

(* extract_host, with <<>> for None.  A "://" in what follows the first    *)
(* has both a "/" and a ":".                                               *)
ExtractHost(url) ==
  LET i == FirstOf(url, {"://"})
  IN  IF i = 0
      THEN <<>>
      ELSE Before(Before(SubSeq(url, i + 1, Len(url)), {"/", "://"}), {":", "://"})

(* Slip: any suffix will do. *)
MatchesDomainText(url, domain) ==
  ExtractHost(url) # <<>> /\ IsSuffix(Joined(domain), ExtractHost(url))

(* AllowDomainFetchPolicy *)
MatchesDomain(url, domain) ==
  /\ ExtractHost(url) # <<>>
  /\ \/ ExtractHost(url) = Joined(domain)
     \/ IsSuffix(<<".">> \o Joined(domain), ExtractHost(url))

(* AllowExactUrlFetchPolicy *)
MatchesUrl(url) == url \in ExactUrl

(* Both abstain otherwise. *)
Allowed(url) == MatchesUrl(url) \/ \E d \in Domain : MatchesDomain(url, d)

-----------------------------------------------------------------------------
(* fetch_url *)

Ask(f) ==
  /\ pc[f] = "idle"
  /\ pc' = [pc EXCEPT ![f] = "asking"]
  /\ UNCHANGED <<request, holds, body>>

(* The envelope, another policy, or nobody to allow it. *)
Refuse(f) ==
  /\ pc[f] = "asking"
  /\ pc' = [pc EXCEPT ![f] = "unauthorized"]
  /\ UNCHANGED <<request, holds, body>>

Grant(f) ==
  /\ pc[f] = "asking"
  /\ holds[f]
  /\ Allowed(Text(request[f]))
  /\ pc' = [pc EXCEPT ![f] = "granted"]
  /\ UNCHANGED <<request, holds, body>>

(* Slip: what is not configured is not answered. *)
AnswerConfigured(f) ==
  /\ pc[f] = "granted"
  /\ Text(request[f]) \in DOMAIN Responses
  /\ pc' = [pc EXCEPT ![f] = "ok"]
  /\ body' = [body EXCEPT ![f] = Responses[Text(request[f])]]
  /\ UNCHANGED <<request, holds>>

(* fetch_raw: the backend knows URLs by their text. *)
Answer(f) ==
  /\ pc[f] = "granted"
  /\ IF Text(request[f]) \in DOMAIN Responses
     THEN /\ pc' = [pc EXCEPT ![f] = "ok"]
          /\ body' = [body EXCEPT ![f] = Responses[Text(request[f])]]
     ELSE /\ pc' = [pc EXCEPT ![f] = "denied"]
          /\ UNCHANGED body
  /\ UNCHANGED <<request, holds>>

Drop(f) ==
  /\ pc[f] \in {"asking", "granted"}
  /\ pc' = [pc EXCEPT ![f] = "dropped"]
  /\ UNCHANGED <<request, holds, body>>

Proceed(f) == Refuse(f) \/ Grant(f) \/ Answer(f)

Next == \E f \in Fetch : Ask(f) \/ Proceed(f) \/ Drop(f)

(* Policies and backend answer without waiting for anything. *)
Spec == Init /\ [][Next]_vars /\ \A f \in Fetch : WF_vars(Proceed(f))

-----------------------------------------------------------------------------
(* Properties *)

Under(r, d) == r.absolute /\ IsSuffix(d, r.host)

(* Where extract_host reads something else than the user information and   *)
(* the host: it stops at a ":" of the user information, does not stop at a *)
(* "?" or "#", and finds a "://" that a query, say, has.                   *)
Misread(r) ==
  \/ ":" \in ToSet(r.user)
  \/ r.port = <<>> /\ r.rest # <<>> /\ Head(r.rest) \in {"?", "#"}
  \/ ~r.absolute /\ "://" \in ToSet(r.rest)

(* What the domain policy reads off the text is what the parts say: the    *)
(* labels of the domain end those of the host.  A word that ends like the  *)
(* domain, a port, or a domain named in the path make no difference.  With *)
(* user information before it the domain itself is not allowed, but what   *)
(* is under it is; and of a URL that is misread nothing is said.           *)
DomainByLabels ==
  \A f \in Fetch, d \in Domain :
    LET r == request[f] IN
    ~Misread(r) => (MatchesDomain(Text(r), d) <=> Under(r, d) /\ (r.user = <<>> \/ r.host # d))

(* A fetch returns only what the backend has for its URL, to a context     *)
(* with the capability, for a URL that is listed, that is under a domain,  *)
(* or whose host extract_host did not read.                                *)
FetchAsGranted ==
  \A f \in Fetch : pc[f] = "ok" =>
    /\ holds[f]
    /\ \/ Text(request[f]) \in ExactUrl
       \/ \E d \in Domain : Under(request[f], d)
       \/ Misread(request[f])
    /\ body[f] = Responses[Text(request[f])]

(* A fetch that was asked for comes back, or was given up. *)
FetchesEnd ==
  \A f \in Fetch : pc[f] = "asking" ~> pc[f] \in {"ok", "denied", "unauthorized", "dropped"}
=============================================================================
