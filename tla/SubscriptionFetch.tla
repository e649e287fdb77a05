------------------------- MODULE SubscriptionFetch -------------------------
(***************************************************************************)
(* SubscriptionFetcher: one fetch of a subscription, with its redirects,   *)
(* its deadline and its abort.  What Qt's network reply reports are the    *)
(* actions; a reply aborted by the fetcher ends within the call.  The      *)
(* answer is posted to the event loop and dropped there if the fetch was   *)
(* aborted or started anew meanwhile (m_generation).                       *)
(*                                                                         *)
(* A certificate is what the fetcher tells apart: whether it is one of the *)
(* pins, and what the TLS backend finds wrong with it.  A body is counted  *)
(* in pieces, of which the cap allows MaxBody.                             *)
(***************************************************************************)
EXTENDS Naturals, Sequences, FiniteSets

CONSTANTS
    Home,          \* addresses of the subscription's origin
    Elsewhere,     \* an address of another origin
    First,         \* the subscription's own address
    MaxRedirects,  \* kMaxRedirects
    MaxBody,       \* kMaxSubscriptionBodyBytes
    MaxCalls,      \* bound: starts and aborts
    NoReply

VARIABLES
    f,      \* SubscriptionFetcher
    reply,  \* m_reply, and what the server has sent of it
    posted  \* answers on the event loop

vars == <<f, reply, posted>>

(***************************************************************************)
(* Types                                                                   *)
(***************************************************************************)
Certs == [pin : BOOLEAN,                             \* isPinned()
          wrong : {"nothing", "chain", "other"}]     \* the errors reported
Errors == {"None", "BadUrl", "BadPin", "Network", "Timeout", "RefusedByServer",
           "CertificateUntrusted", "BadRedirect", "HttpStatus", "BadContentType",
           "TooLarge", "Document"}
Answers == [gen : 0..MaxCalls, error : Errors, whole : BOOLEAN]
Replies == [url : Home \cup {Elsewhere}, phase : {"connecting", "failing", "asked", "body"},
            cert : Certs, json : BOOLEAN, pieces : 0..MaxBody]

FetchAssumption ==
    /\ First \in Home /\ Elsewhere \notin Home
    /\ MaxRedirects \in Nat /\ MaxBody \in Nat /\ MaxCalls \in Nat
    /\ NoReply \notin Replies

ASSUME FetchConstants == FetchAssumption

TypeOK ==
    /\ f \in [gen : 0..MaxCalls, pinned : BOOLEAN, url : Home, seen : SUBSET Home,
              redirects : 0..MaxRedirects, deadline : BOOLEAN,
              timedOut : BOOLEAN, tooLarge : BOOLEAN, untrusted : BOOLEAN, handshakeDone : BOOLEAN,
              sent : SUBSET [url : Home \cup {Elsewhere}, cert : Certs],  \* history: requests sent
              open : BOOLEAN,                 \* history: started, and not aborted
              answered : BOOLEAN]             \* history: since the start
    /\ reply \in Replies \cup {NoReply}
    /\ posted \in Seq(Answers)

(***************************************************************************)
(* Ends                                                                    *)
(***************************************************************************)
\* stop, without the reply
Stopped(s) == [s EXCEPT !.deadline = FALSE]

\* finish: the answer, through the event loop.
Finish(s, error, whole) ==
    /\ f' = Stopped(s)
    /\ reply' = NoReply
    /\ posted' = Append(posted, [gen |-> s.gen, error |-> error, whole |-> whole])

\* onFinished: why this fetch ended its reply itself, the gravest first.
Flagged(s) == IF s.tooLarge THEN "TooLarge" ELSE IF s.untrusted THEN "CertificateUntrusted"
              ELSE IF s.timedOut THEN "Timeout" ELSE "None"

(***************************************************************************)
(* Requests                                                                *)
(***************************************************************************)
Fresh(url, cert) ==
    [url |-> url, phase |-> "connecting", cert |-> cert, json |-> FALSE, pieces |-> 0]

\* sendRequest
SendRequest(s, url) ==
    /\ f' = [s EXCEPT !.url = url, !.handshakeDone = FALSE]
    /\ \E cert \in Certs : reply' = Fresh(url, cert)

\* start
Start(pinned) ==
    /\ f.gen < MaxCalls
    /\ LET s == [f EXCEPT !.gen = @ + 1, !.pinned = pinned, !.url = First, !.seen = {First},
                          !.redirects = 0, !.timedOut = FALSE, !.tooLarge = FALSE,
                          !.untrusted = FALSE, !.handshakeDone = FALSE, !.sent = {},
                          !.open = TRUE, !.answered = FALSE]
       IN  \/ Finish(s, "BadUrl", FALSE)
           \/ pinned /\ Finish(s, "BadPin", FALSE)
           \/ SendRequest([s EXCEPT !.deadline = TRUE], First) /\ UNCHANGED posted

\* abort
Abort ==
    /\ f.gen < MaxCalls
    /\ f' = [Stopped(f) EXCEPT !.gen = @ + 1, !.open = FALSE]
    /\ reply' = NoReply
    /\ UNCHANGED posted

(***************************************************************************)
(* The handshake                                                           *)
(***************************************************************************)
\* onSslErrors: only what a pin answers is ignored.
Ignores(s, cert) == s.pinned /\ cert.wrong = "chain" /\ cert.pin

SslErrors ==
    /\ reply # NoReply /\ reply.phase = "connecting" /\ reply.cert.wrong # "nothing"
    /\ ~Ignores(f, reply.cert)
    /\ f' = [f EXCEPT !.untrusted = TRUE]
    /\ reply' = [reply EXCEPT !.phase = "failing"]
    /\ UNCHANGED posted

\* Mutant: a certificate the backend takes is taken.
TakesWhatTlsTakes(s, cert) == FALSE

\* onEncrypted: with pins, the server's own certificate has to be one.
Refuses(s, cert) == s.pinned /\ ~cert.pin

Encrypted ==
    /\ reply # NoReply /\ reply.phase = "connecting"
    /\ reply.cert.wrong = "nothing" \/ Ignores(f, reply.cert)
    /\ LET s == [f EXCEPT !.handshakeDone = TRUE]
       IN  IF Refuses(s, reply.cert)
           THEN LET u == [s EXCEPT !.untrusted = TRUE] IN Finish(u, Flagged(u), FALSE)
           ELSE /\ f' = [s EXCEPT !.sent = @ \cup {[url |-> reply.url, cert |-> reply.cert]}]
                /\ reply' = [reply EXCEPT !.phase = "asked"]
                /\ UNCHANGED posted

(***************************************************************************)
(* The answer                                                              *)
(***************************************************************************)

\* isSameOrigin, followRedirect
Followed(s, next) == s.redirects < MaxRedirects /\ next \in Home /\ next \notin s.seen

\* onMetaDataChanged, onHttpReply: a redirect.
Redirected ==
    /\ reply # NoReply /\ reply.phase = "asked"
    /\ \E next \in Home \cup {Elsewhere} :
          IF Followed(f, next)
          THEN /\ SendRequest([f EXCEPT !.redirects = @ + 1, !.seen = @ \cup {next}], next)
               /\ UNCHANGED posted
          ELSE Finish(f, "BadRedirect", FALSE)

\* onMetaDataChanged: any other status than 200, judged on its headers.
StatusArrives ==
    /\ reply # NoReply /\ reply.phase = "asked"
    /\ Finish(f, "HttpStatus", FALSE)

\* onMetaDataChanged: a 200, whose length may say already that it is too large.
HeadersArrive ==
    /\ reply # NoReply /\ reply.phase = "asked"
    /\ \/ LET s == [f EXCEPT !.tooLarge = TRUE] IN Finish(s, Flagged(s), FALSE)
       \/ /\ \E json \in BOOLEAN : reply' = [reply EXCEPT !.phase = "body", !.json = json]
          /\ UNCHANGED <<f, posted>>

\* onReadyRead, readBounded
BodyArrives ==
    /\ reply # NoReply /\ reply.phase = "body"
    /\ IF reply.pieces = MaxBody
       THEN LET s == [f EXCEPT !.tooLarge = TRUE] IN Finish(s, Flagged(s), FALSE)
       ELSE reply' = [reply EXCEPT !.pieces = @ + 1] /\ UNCHANGED <<f, posted>>

\* onFinished: Qt is done with the reply.  `unread` is what readyRead left of it,
\* `cut` a connection lost before the end.
ReplyFinishes ==
    /\ reply # NoReply
    /\ \E cut \in BOOLEAN, unread \in 0..1 :
          LET large == reply.phase = "body" /\ reply.pieces + unread > MaxBody
              s == [f EXCEPT !.tooLarge = large]
          IN  IF Flagged(s) # "None" THEN Finish(s, Flagged(s), FALSE)
              ELSE IF reply.phase # "body"
              THEN \/ Finish(s, "Network", FALSE)
                   \/ ~f.handshakeDone /\ Finish(s, "RefusedByServer", FALSE)
              ELSE IF cut THEN Finish(s, "Network", FALSE)
              ELSE IF ~reply.json THEN Finish(s, "BadContentType", FALSE)
              ELSE Finish(s, "Document", FALSE) \/ Finish(s, "None", ~large)

\* m_deadline
Deadline ==
    /\ f.deadline
    /\ LET s == [f EXCEPT !.timedOut = TRUE] IN Finish(s, Flagged(s), FALSE)

\* The posted call of finish(): an answer of an earlier generation is dropped.
Current(s, answer) == answer.gen = s.gen

Deliver ==
    /\ posted # <<>>
    /\ posted' = Tail(posted)
    /\ f' = [f EXCEPT !.answered = @ \/ Current(f, Head(posted))]
    /\ UNCHANGED reply

Init ==
    /\ f = [gen |-> 0, pinned |-> FALSE, url |-> First, seen |-> {}, redirects |-> 0,
            deadline |-> FALSE, timedOut |-> FALSE, tooLarge |-> FALSE, untrusted |-> FALSE,
            handshakeDone |-> FALSE, sent |-> {}, open |-> FALSE, answered |-> FALSE]
    /\ reply = NoReply /\ posted = <<>>

Qt == SslErrors \/ Encrypted \/ Redirected \/ StatusArrives \/ HeadersArrive \/ BodyArrives \/ ReplyFinishes

Next == (\E pinned \in BOOLEAN : Start(pinned)) \/ Abort \/ Qt \/ Deadline \/ Deliver

Spec == Init /\ [][Next]_vars

(***************************************************************************)
(* Properties                                                              *)
(***************************************************************************)
\* SecretsStayHome.  The credentials, which go with every request, reach nobody but
\* the subscription's origin, and with pins nobody but who holds a pinned certificate
\* with nothing wrong but its chain (onSslErrors, onEncrypted, followRedirect).
SecretsStayHome ==
    \A r \in f.sent : /\ r.url \in Home
                      /\ IF f.pinned THEN r.cert.pin /\ r.cert.wrong # "other"
                         ELSE r.cert.wrong = "nothing"

\* OneAnswer.  A fetch that was started and not aborted has one answer: none while
\* its reply is open, one under way or given once it is not (finish, abort, start).
OneAnswer ==
    LET coming == Cardinality({i \in DOMAIN posted : posted[i].gen = f.gen})
    IN  /\ f.open => coming + (IF f.answered THEN 1 ELSE 0) = IF reply = NoReply THEN 1 ELSE 0
        /\ ~f.open => coming = 0 /\ reply = NoReply

\* DocumentIsWhole.  A document comes of a whole body within the cap, of the server
\* the fetch trusts, before the deadline.
DocumentIsWhole ==
    \A i \in DOMAIN posted : posted[i].error = "None"
        => posted[i].whole /\ (posted[i].gen = f.gen => ~f.timedOut /\ ~f.untrusted /\ f.sent # {})
=============================================================================
