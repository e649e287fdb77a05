---------------------- MODULE SubscriptionFetchProofs ----------------------
(***************************************************************************)
(* Theorems about SubscriptionFetch, for any origin, any number of         *)
(* redirects, calls and pieces of a body.                                  *)
(***************************************************************************)
EXTENDS SubscriptionFetch, FiniteSetTheorems, TLAPS

FetcherType ==
    [gen : 0..MaxCalls, pinned : BOOLEAN, url : Home, seen : SUBSET Home,
     redirects : 0..MaxRedirects, deadline : BOOLEAN,
     timedOut : BOOLEAN, tooLarge : BOOLEAN, untrusted : BOOLEAN, handshakeDone : BOOLEAN,
     sent : SUBSET [url : Home \cup {Elsewhere}, cert : Certs],
     open : BOOLEAN, answered : BOOLEAN]

(***************************************************************************)
(* The inductive invariant.                                                *)
(***************************************************************************)
\* Where the answers of the fetch under way stand on the event loop.
Coming == {i \in DOMAIN posted : posted[i].gen = f.gen}

\* A reply belongs to a fetch that is open, goes to its origin, keeps the deadline
\* running, and was asked for something only once its server was trusted.
ReplyRight ==
    /\ f.deadline <=> reply # NoReply
    /\ reply # NoReply => /\ f.open /\ reply.url \in Home
                          /\ reply.phase \in {"asked", "body"} => f.sent # {}

\* Of the fetch under way there is its reply, one answer under way, or one given.
AnswersRight ==
    /\ \A i \in DOMAIN posted : posted[i].gen <= f.gen
    /\ \A i, j \in Coming : i = j
    /\ f.open => (reply # NoReply \/ f.answered <=> Coming = {})
    /\ reply # NoReply => ~f.answered
    /\ ~f.open => Coming = {}

FetchInv == TypeOK /\ SecretsStayHome /\ ReplyRight /\ AnswersRight /\ DocumentIsWhole

(***************************************************************************)
(* What a step leaves.  SecretsOf(s) is SecretsStayHome of the fetcher s.  *)
(***************************************************************************)
SecretsOf(s) ==
    \A r \in s.sent : /\ r.url \in Home
                      /\ IF s.pinned THEN r.cert.pin /\ r.cert.wrong # "other"
                         ELSE r.cert.wrong = "nothing"

\* Every answer on the event loop is of a fetch before the one of generation n.
OnlyOlder(n) == \A i \in DOMAIN posted : posted[i].gen < n

\* The fetcher s has a fetch open that has no answer yet, given or under way.
Unanswered(s) ==
    /\ s \in FetcherType /\ SecretsOf(s) /\ s.open /\ ~s.answered
    /\ posted \in Seq(Answers) /\ OnlyOlder(s.gen)
    /\ \A i \in DOMAIN posted : posted[i].error = "None" => posted[i].whole

LEMMA PostedTypes ==
  ASSUME FetchAssumption, posted \in Seq(Answers)
  PROVE  /\ Len(posted) \in Nat /\ DOMAIN posted = 1..Len(posted)
         /\ \A i \in DOMAIN posted : posted[i] \in Answers /\ posted[i].gen \in Nat
  <1>1. \A i \in DOMAIN posted : posted[i] \in Answers
    OBVIOUS
  <1>2. \A a \in Answers : a.gen \in Nat
    BY DEF FetchAssumption, Answers
  <1> QED BY <1>1, <1>2

\* While a reply is open the fetch has no answer.
LEMMA OpenIsUnanswered ==
  ASSUME FetchAssumption, FetchInv, reply # NoReply
  PROVE  Unanswered(f) /\ reply \in Replies /\ reply.url \in Home /\ f.deadline
  <1>1. /\ f \in FetcherType /\ f.gen \in Nat /\ posted \in Seq(Answers) /\ reply \in Replies
    BY DEF FetchInv, TypeOK, FetcherType, FetchAssumption
  <1>2. Coming = {} /\ f.open /\ ~f.answered
    BY DEF FetchInv, ReplyRight, AnswersRight
  <1>3. OnlyOlder(f.gen)
    BY <1>1, <1>2, PostedTypes DEF OnlyOlder, Coming, FetchInv, AnswersRight
  <1> QED
    BY <1>1, <1>2, <1>3
    DEF Unanswered, FetchInv, ReplyRight, DocumentIsWhole, SecretsStayHome, SecretsOf

\* A step that leaves a reply open.
LEMMA StaysOpen ==
  ASSUME FetchAssumption, Unanswered(f'), UNCHANGED posted, f'.deadline, reply' \in Replies,
         reply'.url \in Home, reply'.phase \in {"asked", "body"} => f'.sent # {}
  PROVE  FetchInv'
  <1>1. /\ f' \in FetcherType /\ f'.gen \in Nat /\ posted' = posted /\ reply' # NoReply
        /\ f'.open /\ ~f'.answered /\ OnlyOlder(f'.gen) /\ posted \in Seq(Answers)
    BY DEF Unanswered, FetcherType, FetchAssumption
  <1>2. \A i \in DOMAIN posted : posted[i].gen \in Nat /\ posted[i].gen < f'.gen
    BY <1>1, PostedTypes DEF OnlyOlder
  <1>3. TypeOK'
    BY <1>1 DEF TypeOK, FetcherType
  <1>4. Coming' = {}
    BY <1>1, <1>2 DEF Coming
  <1>5. AnswersRight'
    <2>1. \A i \in DOMAIN posted : posted[i].gen <= f'.gen
      BY <1>1, <1>2
    <2> QED BY <1>1, <1>4, <2>1 DEF AnswersRight
  <1>6. DocumentIsWhole'
    BY <1>1, <1>2 DEF DocumentIsWhole, Unanswered
  <1> QED BY <1>1, <1>3, <1>5, <1>6 DEF FetchInv, ReplyRight, SecretsStayHome, SecretsOf, Unanswered

\* finish() answers a fetch that has no answer, and closes its reply.
LEMMA FinishRight ==
  ASSUME FetchAssumption, NEW s, Unanswered(s), NEW error \in Errors, NEW whole \in BOOLEAN,
         error = "None" => whole /\ ~s.timedOut /\ ~s.untrusted /\ s.sent # {},
         Finish(s, error, whole)
  PROVE  FetchInv'
  <1> DEFINE a == [gen |-> s.gen, error |-> error, whole |-> whole]
             n == Len(posted) + 1
  <1>1. /\ s \in FetcherType /\ s.gen \in Nat /\ posted \in Seq(Answers) /\ s.open /\ ~s.answered
        /\ OnlyOlder(s.gen) /\ reply' = NoReply /\ f' = [s EXCEPT !.deadline = FALSE]
        /\ posted' = Append(posted, a)
    BY DEF Unanswered, FetcherType, FetchAssumption, Finish, Stopped
  <1>2. /\ f' \in FetcherType /\ ~f'.deadline /\ f'.gen = s.gen /\ f'.open /\ ~f'.answered
        /\ f'.sent = s.sent /\ f'.pinned = s.pinned /\ f'.timedOut = s.timedOut
        /\ f'.untrusted = s.untrusted
    BY <1>1 DEF FetcherType
  <1>3. a \in Answers
    BY <1>1 DEF Answers, FetcherType
  <1>4. /\ Len(posted) \in Nat /\ DOMAIN posted = 1..Len(posted)
        /\ \A i \in DOMAIN posted : posted[i].gen \in Nat /\ posted[i].gen < s.gen
    BY <1>1, PostedTypes DEF OnlyOlder
  <1>5. /\ posted' \in Seq(Answers) /\ DOMAIN posted' = 1..n /\ posted'[n] = a
        /\ \A i \in 1..Len(posted) : posted'[i] = posted[i]
    <2> HIDE DEF a
    <2> QED BY <1>1, <1>3, <1>4
  <1>6. \A i \in DOMAIN posted' : i = n \/ (i \in DOMAIN posted /\ posted'[i] = posted[i])
    BY <1>4, <1>5
  <1>7. n \in DOMAIN posted' /\ posted'[n].gen = s.gen
    BY <1>4, <1>5
  <1> HIDE DEF n, a
  <1>8. \A i \in DOMAIN posted' : posted'[i].gen <= s.gen /\ (posted'[i].gen = s.gen => i = n)
    BY <1>1, <1>4, <1>6, <1>7
  <1>9. Coming' = {n}
    BY <1>2, <1>7, <1>8 DEF Coming
  <1>10. AnswersRight'
    BY <1>1, <1>2, <1>8, <1>9 DEF AnswersRight
  <1>11. DocumentIsWhole'
    <2> SUFFICES ASSUME NEW i \in DOMAIN posted', posted'[i].error = "None"
                 PROVE  /\ posted'[i].whole
                        /\ posted'[i].gen = f'.gen
                               => ~f'.timedOut /\ ~f'.untrusted /\ f'.sent # {}
      BY DEF DocumentIsWhole
    <2>1. CASE i = n
      BY <2>1, <1>2, <1>5 DEF a
    <2>2. CASE i # n
      BY <2>2, <1>2, <1>6, <1>8 DEF Unanswered
    <2> QED BY <2>1, <2>2
  <1>12. SecretsStayHome'
    BY <1>2 DEF SecretsStayHome, SecretsOf, Unanswered
  <1>13. TypeOK'
    BY <1>1, <1>2, <1>5 DEF TypeOK, FetcherType
  <1> QED BY <1>1, <1>2, <1>10, <1>11, <1>12, <1>13 DEF FetchInv, ReplyRight

(***************************************************************************)
(* The actions.                                                            *)
(***************************************************************************)
LEMMA FreshIsAReply ==
  ASSUME FetchAssumption, NEW url \in Home, NEW cert \in Certs
  PROVE  /\ Fresh(url, cert) \in Replies /\ Fresh(url, cert).url = url
         /\ Fresh(url, cert).phase = "connecting"
  <1>1. 0 \in 0..MaxBody
    BY DEF FetchAssumption
  <1> QED BY <1>1 DEF Fresh, Replies

\* A request is sent for a fetch that has no answer.
LEMMA RequestRight ==
  ASSUME FetchAssumption, NEW s, Unanswered(s), s.deadline, NEW url \in Home,
         SendRequest(s, url), UNCHANGED posted
  PROVE  FetchInv'
  <1>1. PICK cert \in Certs : reply' = Fresh(url, cert)
    BY DEF SendRequest
  <1>2. f' = [s EXCEPT !.url = url, !.handshakeDone = FALSE] /\ s \in FetcherType
    BY DEF SendRequest, Unanswered
  <1>3. f' \in FetcherType /\ \A x \in {"gen", "pinned", "sent", "open", "answered", "deadline"} :
           f'[x] = s[x]
    BY <1>2 DEF FetcherType
  <1>4. Unanswered(f')
    BY <1>3 DEF Unanswered, SecretsOf
  <1> QED BY <1>1, <1>3, <1>4, FreshIsAReply, StaysOpen

LEMMA StartRight ==
  ASSUME FetchAssumption, FetchInv, NEW pinned \in BOOLEAN, Start(pinned)
  PROVE  FetchInv'
  <1> DEFINE s == [f EXCEPT !.gen = @ + 1, !.pinned = pinned, !.url = First, !.seen = {First},
                            !.redirects = 0, !.timedOut = FALSE, !.tooLarge = FALSE,
                            !.untrusted = FALSE, !.handshakeDone = FALSE, !.sent = {},
                            !.open = TRUE, !.answered = FALSE]
             t == [s EXCEPT !.deadline = TRUE]
  <1>1. /\ f \in FetcherType /\ f.gen \in 0..MaxCalls /\ MaxCalls \in Nat /\ f.gen < MaxCalls
        /\ First \in Home /\ MaxRedirects \in Nat /\ posted \in Seq(Answers)
    BY DEF FetchInv, TypeOK, FetcherType, FetchAssumption, Start
  <1>0. f.gen + 1 \in 0..MaxCalls /\ 0 \in 0..MaxRedirects /\ {First} \in SUBSET Home
    BY <1>1
  <1>2. /\ s \in FetcherType /\ s.gen = f.gen + 1 /\ s.sent = {} /\ s.open /\ ~s.answered
    <2> DEFINE n == f.gen + 1
    <2>1. n \in 0..MaxCalls /\ {} \in SUBSET [url : Home \cup {Elsewhere}, cert : Certs]
      BY <1>0
    <2> HIDE DEF n
    <2>2. s = [f EXCEPT !.gen = n, !.pinned = pinned, !.url = First, !.seen = {First},
                        !.redirects = 0, !.timedOut = FALSE, !.tooLarge = FALSE,
                        !.untrusted = FALSE, !.handshakeDone = FALSE, !.sent = {},
                        !.open = TRUE, !.answered = FALSE]
      BY DEF n
    <2> HIDE DEF s
    <2>3. s = [gen |-> n, pinned |-> pinned, url |-> First, seen |-> {First}, redirects |-> 0,
               deadline |-> f.deadline, timedOut |-> FALSE, tooLarge |-> FALSE,
               untrusted |-> FALSE, handshakeDone |-> FALSE, sent |-> {}, open |-> TRUE,
               answered |-> FALSE]
      BY <1>1, <2>2 DEF FetcherType
    <2>4. f.deadline \in BOOLEAN
      BY <1>1 DEF FetcherType
    <2>5. s \in FetcherType /\ s.gen = n /\ s.sent = {} /\ s.open /\ ~s.answered
      BY <1>0, <1>1, <2>1, <2>3, <2>4 DEF FetcherType
    <2> QED BY <2>5 DEF n
  <1> HIDE DEF s
  <1>3. /\ t \in FetcherType /\ t.gen = f.gen + 1 /\ t.sent = {} /\ t.open /\ ~t.answered
        /\ t.deadline
    BY <1>2 DEF FetcherType
  <1> USE DEF s
  <1>4. \/ Finish(s, "BadUrl", FALSE) \/ Finish(s, "BadPin", FALSE)
        \/ SendRequest(t, First) /\ UNCHANGED posted
    BY DEF Start
  <1> HIDE DEF s, t
  <1>5. OnlyOlder(f.gen + 1)
    BY <1>1, PostedTypes DEF OnlyOlder, FetchInv, AnswersRight
  <1>6. \A i \in DOMAIN posted : posted[i].error = "None" => posted[i].whole
    BY DEF FetchInv, DocumentIsWhole
  <1>7. Unanswered(s) /\ Unanswered(t)
    BY <1>1, <1>2, <1>3, <1>5, <1>6 DEF Unanswered, SecretsOf
  <1>8. "BadUrl" \in Errors /\ "BadPin" \in Errors
    BY DEF Errors
  <1> QED BY <1>1, <1>3, <1>4, <1>7, <1>8, FinishRight, RequestRight

LEMMA AbortRight == ASSUME FetchAssumption, FetchInv, Abort PROVE FetchInv'
  <1>1. /\ f \in FetcherType /\ f.gen \in Nat /\ MaxCalls \in Nat /\ f.gen < MaxCalls
        /\ posted \in Seq(Answers) /\ posted' = posted /\ reply' = NoReply
        /\ f' = [f EXCEPT !.deadline = FALSE, !.gen = @ + 1, !.open = FALSE]
    BY DEF FetchInv, TypeOK, FetcherType, FetchAssumption, Abort, Stopped
  <1>0. f.gen \in 0..MaxCalls /\ f.gen + 1 \in 0..MaxCalls
    BY <1>1 DEF FetcherType
  <1>2. /\ f' \in FetcherType /\ f'.gen = f.gen + 1 /\ ~f'.open /\ ~f'.deadline
        /\ f'.sent = f.sent /\ f'.pinned = f.pinned
    BY <1>1, <1>0 DEF FetcherType
  <1>3. \A i \in DOMAIN posted : posted[i].gen \in Nat /\ posted[i].gen < f'.gen
    BY <1>1, <1>2, PostedTypes DEF FetchInv, AnswersRight
  <1>4. Coming' = {} /\ \A i \in DOMAIN posted : posted[i].gen <= f'.gen
    BY <1>1, <1>2, <1>3 DEF Coming
  <1>5. AnswersRight'
    BY <1>1, <1>2, <1>4 DEF AnswersRight
  <1>6. DocumentIsWhole'
    BY <1>1, <1>2, <1>3 DEF FetchInv, DocumentIsWhole
  <1>7. TypeOK' /\ SecretsStayHome'
    BY <1>1, <1>2 DEF TypeOK, FetcherType, FetchInv, SecretsStayHome
  <1> QED BY <1>1, <1>2, <1>5, <1>6, <1>7 DEF FetchInv, ReplyRight

\* A step of the open reply that only marks the fetcher.
LEMMA Marked ==
  ASSUME FetchAssumption, NEW s, NEW t, Unanswered(s), t \in FetcherType,
         \A x \in {"gen", "pinned", "sent", "open", "answered"} : t[x] = s[x]
  PROVE  Unanswered(t)
  BY DEF Unanswered, SecretsOf

LEMMA FlaggedTypes ==
  ASSUME NEW s
  PROVE  Flagged(s) \in Errors /\ (Flagged(s) = "None" => ~s.timedOut /\ ~s.untrusted /\ ~s.tooLarge)
  BY DEF Flagged, Errors

LEMMA HandshakeRight ==
  ASSUME FetchAssumption, FetchInv, SslErrors \/ Encrypted PROVE FetchInv'
  <1>1. /\ Unanswered(f) /\ reply \in Replies /\ reply.url \in Home /\ f.deadline
        /\ f \in FetcherType
    BY OpenIsUnanswered DEF SslErrors, Encrypted, Unanswered
  <1>2. CASE SslErrors
    <2>1. /\ f' = [f EXCEPT !.untrusted = TRUE] /\ reply' = [reply EXCEPT !.phase = "failing"]
          /\ UNCHANGED posted
      BY <1>2 DEF SslErrors
    <2>2. f' \in FetcherType /\ \A x \in {"gen", "pinned", "sent", "open", "answered", "deadline"} :
             f'[x] = f[x]
      BY <1>1, <2>1 DEF FetcherType
    <2>3. reply' \in Replies /\ reply'.url = reply.url /\ reply'.phase = "failing"
      BY <1>1, <2>1 DEF Replies
    <2> QED BY <1>1, <2>1, <2>2, <2>3, Marked, StaysOpen
  <1>3. CASE Encrypted
    <2> DEFINE s == [f EXCEPT !.handshakeDone = TRUE]
               u == [s EXCEPT !.untrusted = TRUE]
               q == [url |-> reply.url, cert |-> reply.cert]
    <2>1. /\ s \in FetcherType /\ u \in FetcherType /\ u.untrusted
          /\ \A x \in {"gen", "pinned", "sent", "open", "answered", "deadline"} :
                s[x] = f[x] /\ u[x] = f[x]
      BY <1>1 DEF FetcherType
    <2>2. /\ reply.cert \in Certs
          /\ reply.cert.wrong = "nothing" \/ Ignores(f, reply.cert)
          /\ IF Refuses(s, reply.cert) THEN Finish(u, Flagged(u), FALSE)
             ELSE /\ f' = [s EXCEPT !.sent = @ \cup {q}]
                  /\ reply' = [reply EXCEPT !.phase = "asked"]
                  /\ UNCHANGED posted
      BY <1>1, <1>3 DEF Encrypted, Replies
    <2> HIDE DEF s, u
    <2>3. CASE Refuses(s, reply.cert)
      <3>1. Unanswered(u) /\ Flagged(u) \in Errors /\ Flagged(u) # "None"
        BY <1>1, <2>1, Marked, FlaggedTypes
      <3> QED BY <2>2, <2>3, <3>1, FinishRight
    <2>4. CASE ~Refuses(s, reply.cert)
      <3>1. /\ f' = [s EXCEPT !.sent = @ \cup {q}] /\ reply' = [reply EXCEPT !.phase = "asked"]
            /\ UNCHANGED posted
        BY <2>2, <2>4
      <3>2. q \in [url : Home \cup {Elsewhere}, cert : Certs] /\ q.url = reply.url /\ q.cert = reply.cert
        BY <1>1, <2>2
      <3> HIDE DEF q
      <3>3. /\ f' \in FetcherType /\ f'.sent = f.sent \cup {q}
            /\ \A x \in {"gen", "pinned", "open", "answered", "deadline"} : f'[x] = f[x]
        BY <2>1, <3>1, <3>2 DEF FetcherType
      <3>4. SecretsOf(f')
        <4>1. IF f.pinned THEN q.cert.pin /\ q.cert.wrong # "other" ELSE q.cert.wrong = "nothing"
          BY <2>1, <2>2, <2>4, <3>2 DEF Refuses, Ignores
        <4> QED BY <1>1, <3>2, <3>3, <4>1 DEF Unanswered, SecretsOf
      <3>5. Unanswered(f')
        BY <1>1, <3>3, <3>4 DEF Unanswered
      <3>6. reply' \in Replies /\ reply'.url = reply.url
        BY <1>1, <3>1 DEF Replies
      <3> QED BY <1>1, <3>1, <3>3, <3>5, <3>6, StaysOpen
    <2> QED BY <2>3, <2>4
  <1> QED BY <1>2, <1>3

LEMMA HeadersRight ==
  ASSUME FetchAssumption, FetchInv, Redirected \/ StatusArrives \/ HeadersArrive PROVE FetchInv'
  <1>1. /\ Unanswered(f) /\ reply \in Replies /\ reply.url \in Home /\ f.deadline
        /\ f \in FetcherType /\ f.sent # {}
    BY OpenIsUnanswered
    DEF Redirected, StatusArrives, HeadersArrive, Unanswered, FetchInv, ReplyRight
  <1>2. {"BadRedirect", "HttpStatus"} \subseteq Errors
    BY DEF Errors
  <1>3. CASE Redirected
    <2>1. PICK next \in Home \cup {Elsewhere} :
            IF Followed(f, next)
            THEN /\ SendRequest([f EXCEPT !.redirects = @ + 1, !.seen = @ \cup {next}], next)
                 /\ UNCHANGED posted
            ELSE Finish(f, "BadRedirect", FALSE)
      BY <1>3 DEF Redirected
    <2>2. CASE Followed(f, next)
      <3> DEFINE s == [f EXCEPT !.redirects = @ + 1, !.seen = @ \cup {next}]
      <3>1. next \in Home /\ f.redirects < MaxRedirects /\ MaxRedirects \in Nat
        BY <2>2 DEF Followed, FetchAssumption
      <3>0. f.redirects + 1 \in 0..MaxRedirects /\ f.seen \cup {next} \in SUBSET Home
        BY <1>1, <3>1 DEF FetcherType
      <3>2. /\ s \in FetcherType
            /\ \A x \in {"gen", "pinned", "sent", "open", "answered", "deadline"} : s[x] = f[x]
        BY <1>1, <3>0 DEF FetcherType
      <3>3. SendRequest(s, next) /\ UNCHANGED posted
        BY <2>1, <2>2
      <3> HIDE DEF s
      <3> QED BY <1>1, <3>1, <3>2, <3>3, Marked, RequestRight
    <2> QED BY <1>1, <1>2, <2>1, <2>2, FinishRight
  <1>4. CASE StatusArrives
    BY <1>1, <1>2, <1>4, FinishRight DEF StatusArrives
  <1>5. CASE HeadersArrive
    <2> DEFINE s == [f EXCEPT !.tooLarge = TRUE]
    <2>1. CASE Finish(s, Flagged(s), FALSE)
      <3>1. /\ s \in FetcherType /\ s.tooLarge
            /\ \A x \in {"gen", "pinned", "sent", "open", "answered"} : s[x] = f[x]
        BY <1>1 DEF FetcherType
      <3> HIDE DEF s
      <3> QED BY <1>1, <2>1, <3>1, Marked, FlaggedTypes, FinishRight
    <2>2. CASE /\ \E json \in BOOLEAN : reply' = [reply EXCEPT !.phase = "body", !.json = json]
               /\ UNCHANGED <<f, posted>>
      <3>1. reply' \in Replies /\ reply'.url = reply.url
        BY <1>1, <2>2 DEF Replies
      <3> QED BY <1>1, <2>2, <3>1, StaysOpen
    <2> QED BY <1>5, <2>1, <2>2 DEF HeadersArrive
  <1> QED BY <1>3, <1>4, <1>5

LEMMA BodyRight ==
  ASSUME FetchAssumption, FetchInv, BodyArrives PROVE FetchInv'
  <1>1. /\ Unanswered(f) /\ reply \in Replies /\ reply.url \in Home /\ f.deadline
        /\ f \in FetcherType /\ f.sent # {} /\ reply.phase = "body"
    BY OpenIsUnanswered DEF BodyArrives, Unanswered, FetchInv, ReplyRight
  <1> DEFINE s == [f EXCEPT !.tooLarge = TRUE]
  <1>2. CASE reply.pieces = MaxBody /\ Finish(s, Flagged(s), FALSE)
    <2>1. /\ s \in FetcherType /\ s.tooLarge
          /\ \A x \in {"gen", "pinned", "sent", "open", "answered"} : s[x] = f[x]
      BY <1>1 DEF FetcherType
    <2> HIDE DEF s
    <2> QED BY <1>1, <1>2, <2>1, Marked, FlaggedTypes, FinishRight
  <1>3. CASE /\ reply.pieces # MaxBody /\ reply' = [reply EXCEPT !.pieces = @ + 1]
             /\ UNCHANGED <<f, posted>>
    <2>1. reply.pieces + 1 \in 0..MaxBody
      BY <1>1, <1>3 DEF Replies, FetchAssumption
    <2>2. reply' \in Replies /\ reply'.url = reply.url
      BY <1>1, <1>3, <2>1 DEF Replies
    <2> QED BY <1>1, <1>3, <2>2, StaysOpen
  <1> QED BY <1>2, <1>3 DEF BodyArrives

LEMMA RepliedRight ==
  ASSUME FetchAssumption, FetchInv, ReplyFinishes PROVE FetchInv'
  <1>1. /\ Unanswered(f) /\ f \in FetcherType /\ (reply.phase = "body" => f.sent # {})
    BY OpenIsUnanswered DEF ReplyFinishes, Unanswered, FetchInv, ReplyRight
  <1>2. PICK cut \in BOOLEAN, unread \in 0..1 :
          LET large == reply.phase = "body" /\ reply.pieces + unread > MaxBody
              s == [f EXCEPT !.tooLarge = large]
          IN  IF Flagged(s) # "None" THEN Finish(s, Flagged(s), FALSE)
              ELSE IF reply.phase # "body"
              THEN \/ Finish(s, "Network", FALSE)
                   \/ ~f.handshakeDone /\ Finish(s, "RefusedByServer", FALSE)
              ELSE IF cut THEN Finish(s, "Network", FALSE)
              ELSE IF ~reply.json THEN Finish(s, "BadContentType", FALSE)
              ELSE Finish(s, "Document", FALSE) \/ Finish(s, "None", ~large)
    BY DEF ReplyFinishes
  <1> DEFINE large == reply.phase = "body" /\ reply.pieces + unread > MaxBody
             s == [f EXCEPT !.tooLarge = large]
  <1>3. /\ s \in FetcherType /\ s.tooLarge = large
        /\ \A x \in {"gen", "pinned", "sent", "open", "answered"} : s[x] = f[x]
    BY <1>1 DEF FetcherType
  <1>4. /\ Unanswered(s) /\ s.sent = f.sent
        /\ {"Network", "RefusedByServer", "BadContentType", "Document", "None"} \subseteq Errors
    BY <1>1, <1>3, Marked DEF Errors
  <1>5. CASE Finish(s, Flagged(s), FALSE) /\ Flagged(s) # "None"
    <2> HIDE DEF s, large
    <2> QED BY <1>4, <1>5, FlaggedTypes, FinishRight
  <1>6. CASE \E e \in {"Network", "RefusedByServer", "BadContentType", "Document"} :
                Finish(s, e, FALSE)
    <2> HIDE DEF s, large
    <2> QED BY <1>4, <1>6, FinishRight
  <1>7. CASE Flagged(s) = "None" /\ reply.phase = "body" /\ Finish(s, "None", ~large)
    <2>1. ~s.timedOut /\ ~s.untrusted /\ ~large /\ s.sent # {} /\ (~large) \in BOOLEAN
      <3>1. large \in BOOLEAN
        OBVIOUS
      <3> HIDE DEF s, large
      <3> QED BY <1>1, <1>3, <1>4, <1>7, <3>1, FlaggedTypes
    <2> HIDE DEF s, large
    <2> QED BY <1>4, <1>7, <2>1, FinishRight
  <1> QED BY <1>2, <1>5, <1>6, <1>7

LEMMA DeadlineRight == ASSUME FetchAssumption, FetchInv, Deadline PROVE FetchInv'
  <1> DEFINE s == [f EXCEPT !.timedOut = TRUE]
  <1>1. Unanswered(f) /\ f \in FetcherType /\ Finish(s, Flagged(s), FALSE)
    BY OpenIsUnanswered DEF Deadline, Unanswered, FetchInv, ReplyRight
  <1>2. /\ s \in FetcherType /\ s.timedOut
        /\ \A x \in {"gen", "pinned", "sent", "open", "answered"} : s[x] = f[x]
    BY <1>1 DEF FetcherType
  <1> HIDE DEF s
  <1> QED BY <1>1, <1>2, Marked, FlaggedTypes, FinishRight

LEMMA DeliverRight == ASSUME FetchAssumption, FetchInv, Deliver PROVE FetchInv'
  <1> DEFINE q == Tail(posted)
  <1>1. /\ f \in FetcherType /\ posted \in Seq(Answers) /\ posted # <<>> /\ UNCHANGED reply
        /\ posted' = q /\ f' = [f EXCEPT !.answered = @ \/ Current(f, Head(posted))]
    BY DEF FetchInv, TypeOK, FetcherType, Deliver
  <1>2. /\ Len(posted) \in Nat /\ Len(posted) > 0 /\ DOMAIN posted = 1..Len(posted)
        /\ q \in Seq(Answers) /\ DOMAIN q = 1..(Len(posted) - 1) /\ Head(posted) = posted[1]
        /\ \A i \in 1..(Len(posted) - 1) : q[i] = posted[i + 1]
    BY <1>1
  <1>3. /\ 1 \in DOMAIN posted
        /\ \A i \in DOMAIN q : i \in Nat /\ i > 0 /\ i + 1 \in DOMAIN posted /\ q[i] = posted[i + 1]
        /\ \A i \in DOMAIN posted : i \in Nat
               /\ (i # 1 => i - 1 \in DOMAIN q /\ q[i - 1] = posted[i])
    BY <1>2
  <1>4. /\ f' \in FetcherType /\ f'.answered = (f.answered \/ posted[1].gen = f.gen)
        /\ \A x \in {"gen", "pinned", "sent", "open", "deadline", "timedOut", "untrusted"} :
              f'[x] = f[x]
    BY <1>1, <1>2 DEF FetcherType, Current
  <1> HIDE DEF q
  <1>5. \A i \in Coming' : i \in Nat /\ i > 0 /\ i + 1 \in Coming
    BY <1>1, <1>3, <1>4 DEF Coming
  <1>6. \A i \in Coming : i = 1 \/ i - 1 \in Coming'
    BY <1>1, <1>3, <1>4 DEF Coming
  <1>7. 1 \in Coming <=> posted[1].gen = f.gen
    BY <1>3 DEF Coming
  <1>8. AnswersRight'
    <2>1. \A i \in DOMAIN posted' : posted'[i].gen <= f'.gen
      BY <1>1, <1>3, <1>4 DEF FetchInv, AnswersRight
    <2>2. \A i, j \in Coming' : i = j
      <3>1. \A i, j \in Coming' : i + 1 = j + 1
        BY <1>5 DEF FetchInv, AnswersRight
      <3> QED BY <1>5, <3>1
    <2>3. posted[1].gen = f.gen => Coming' = {} /\ Coming # {}
      <3>1. ASSUME posted[1].gen = f.gen, NEW i \in Coming' PROVE FALSE
        <4>1. i + 1 = 1 /\ i > 0 /\ i \in Nat
          BY <1>5, <1>7, <3>1 DEF FetchInv, AnswersRight
        <4> QED BY <4>1
      <3> QED BY <1>7, <3>1
    <2>4. posted[1].gen # f.gen => (Coming' = {} <=> Coming = {})
      BY <1>5, <1>6, <1>7
    <2>5. /\ f.open => (reply # NoReply \/ f.answered <=> Coming = {})
          /\ reply # NoReply => ~f.answered /\ f.open
          /\ ~f.open => Coming = {}
      BY DEF FetchInv, AnswersRight, ReplyRight
    <2>6. /\ f'.open = f.open /\ reply' = reply
          /\ f'.answered = (f.answered \/ posted[1].gen = f.gen)
      BY <1>1, <1>4
    <2>7. /\ f'.open => (reply' # NoReply \/ f'.answered <=> Coming' = {})
          /\ reply' # NoReply => ~f'.answered
          /\ ~f'.open => Coming' = {}
      BY <2>3, <2>4, <2>5, <2>6
    <2> QED BY <2>1, <2>2, <2>7 DEF AnswersRight
  <1>9. DocumentIsWhole'
    BY <1>1, <1>3, <1>4 DEF FetchInv, DocumentIsWhole
  <1>10. TypeOK' /\ SecretsStayHome' /\ ReplyRight'
    <2>1. TypeOK'
      BY <1>1, <1>2, <1>4 DEF FetchInv, TypeOK, FetcherType
    <2>2. SecretsStayHome' /\ ReplyRight'
      BY <1>1, <1>4 DEF FetchInv, SecretsStayHome, ReplyRight
    <2> QED BY <2>1, <2>2
  <1> QED BY <1>8, <1>9, <1>10 DEF FetchInv

(***************************************************************************)
(* The theorems.                                                           *)
(***************************************************************************)
LEMMA FetchStarts == ASSUME FetchAssumption, Init PROVE FetchInv
  <1>1. f \in FetcherType /\ reply = NoReply /\ posted = <<>>
    <2>1. 0 \in 0..MaxCalls /\ 0 \in 0..MaxRedirects /\ First \in Home
      BY DEF FetchAssumption
    <2> QED BY <2>1 DEF Init, FetcherType
  <1>2. DOMAIN posted = {} /\ posted \in Seq(Answers)
    BY <1>1
  <1> QED
    BY <1>1, <1>2 DEF FetchInv, TypeOK, FetcherType, SecretsStayHome, ReplyRight, AnswersRight,
                      DocumentIsWhole, Coming, Init

LEMMA FetchStep == ASSUME FetchAssumption, FetchInv, [Next]_vars PROVE FetchInv'
  <1>1. CASE UNCHANGED vars
    BY <1>1 DEF vars, FetchInv, TypeOK, SecretsStayHome, ReplyRight, AnswersRight,
                DocumentIsWhole, Coming
  <1>2. CASE Next
    BY <1>2, StartRight, AbortRight, HandshakeRight, HeadersRight, BodyRight, RepliedRight,
       DeadlineRight, DeliverRight DEF Next, Qt
  <1> QED BY <1>1, <1>2

LEMMA FetchInvariant == Spec => []FetchInv
  <1>1. Init => FetchInv
    BY FetchStarts, FetchConstants
  <1>2. FetchInv /\ [Next]_vars => FetchInv'
    BY FetchStep, FetchConstants
  <1> QED BY <1>1, <1>2, PTL DEF Spec

\* Whatever certificates, redirects, deadlines and aborts a fetch meets, the credentials
\* went to the subscription's origin only, behind a certificate it trusts.
THEOREM SecretsNeverLeave ==
  Spec => [](TypeOK /\ SecretsStayHome)
  <1>1. FetchInv => TypeOK /\ SecretsStayHome
    BY DEF FetchInv
  <1> QED BY <1>1, FetchInvariant, PTL

\* A fetch that was started and not aborted has its reply open, one answer under way, or
\* one given; an aborted one has none.
THEOREM FetchIsAnsweredOnce == Spec => []OneAnswer
  <1>1. FetchInv => OneAnswer
    <2> SUFFICES ASSUME FetchInv PROVE OneAnswer
      OBVIOUS
    <2>1. Coming = {} => Cardinality(Coming) = 0
      BY FS_EmptySet
    <2>2. Coming # {} => Cardinality(Coming) = 1
      <3> SUFFICES ASSUME NEW i \in Coming PROVE Cardinality(Coming) = 1
        OBVIOUS
      <3>1. Coming = {i}
        BY DEF FetchInv, AnswersRight
      <3> QED BY <3>1, FS_Singleton
    <2>3. /\ f.open => (reply # NoReply \/ f.answered <=> Coming = {})
          /\ reply # NoReply => ~f.answered /\ f.open
          /\ ~f.open => Coming = {}
      BY DEF FetchInv, AnswersRight, ReplyRight
    <2>4. /\ f.open => Cardinality(Coming) + (IF f.answered THEN 1 ELSE 0)
                           = IF reply = NoReply THEN 1 ELSE 0
          /\ ~f.open => Cardinality(Coming) = 0 /\ reply = NoReply
      BY <2>1, <2>2, <2>3
    <2> QED BY <2>4 DEF OneAnswer, Coming
  <1> QED BY <1>1, FetchInvariant, PTL

\* A document is only ever made of a whole body within the cap, of a server the fetch
\* trusted, before its deadline.
THEOREM DocumentsAreWhole == Spec => []DocumentIsWhole
  <1>1. FetchInv => DocumentIsWhole
    BY DEF FetchInv
  <1> QED BY <1>1, FetchInvariant, PTL
=============================================================================
