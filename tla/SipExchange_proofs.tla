-------------------------- MODULE SipExchange_proofs --------------------------
(***************************************************************************)
(* Proofs about module SipExchange, for any phones, what they send, the    *)
(* addresses it comes from, and all times.                                 *)
(***************************************************************************)
EXTENDS SipExchange, Extremes, SequenceTheorems, TLAPS

\* When the last copy of p's report has come in or never will.
LastCopy(p) == starts[p] + RetryFor + MaxDelay

\* The current process has taken p's report: it is handled or will be.
Taken(p) ==
    \/ \E publish \in pending : publish.body = message[p].body
    \/ handled[<<message[p].body, life>>] # 0

Types ==
    /\ now \in Nat /\ mix \in DOMAIN Mixes
    /\ now <= MaxTime
    /\ starts \in [Phones -> 0..MaxStart]
    /\ life \in 1..MaxLives /\ up \in BOOLEAN
    /\ ~up => DOMAIN seen = {} /\ pending = {}
    /\ minted \in 0..Len(Tokens)
    /\ \A k \in DOMAIN seen : seen[k].expires \in Nat
    /\ DOMAIN handled = Bodies \X (1..MaxLives)
    /\ \A publish \in pending : publish.body \in Bodies
    /\ lost \subseteq Bodies \X (1..life)
    /\ up => \A x \in lost : x[2] # life
    /\ probe \in {"none", "waiting", "healthy", "unhealthy"}
    /\ asked \in Nat \cup {NotYet}

\* A report is counted once, and is pending only as long as it is not counted.
Once ==
    /\ \A x \in DOMAIN handled :
          handled[x] \in {0, 1} /\ (x[2] > life => handled[x] = 0)
    /\ \A publish \in pending : handled[<<publish.body, life>>] = 0
    /\ \A s, t \in pending : s.body = t.body => s = t

\* While the process runs its cache holds what was taken for as long as copies may come.
Remembered ==
    up => \A p \in Phones : Taken(p) =>
        \/ now > LastCopy(p)
        \/ /\ KeyOf(request(p)) \in DOMAIN seen
           /\ seen[KeyOf(request(p))].expires > LastCopy(p)

\* And nothing that was not.
KeptIsTaken ==
    \A p \in Phones :
        Identified(message[p]) /\ KeyOf(request(p)) \in DOMAIN seen => Taken(p)

Settled ==
    \A p \in Phones : Identified(message[p]) =>
        \A reply \in Replies(p) : reply.response.status = 200 =>
            LET x == <<message[p].body, reply.life>> IN
            \/ handled[x] = 1
            \/ reply.life = life /\ \E publish \in pending : publish.body = message[p].body
            \/ x \in lost

\* What the verdicts rest on: the collector refuses the probe with 405, and who is called
\* healthy did.
ProbeSound ==
    /\ \A reply \in ProbeReplies : reply.life # 0 => reply.response.status = 405
    /\ probe = "healthy" => \E reply \in ProbeReplies : reply.response.status = 405

\* Another server answers only the probe.
Lives ==
    /\ \A reply \in replies : /\ reply.life \in 0..life
                              /\ reply.life = 0 => reply.to = ProbeAddress
    /\ ProbeSound

\* The 200s to phones have tokens that were drawn.
Tokened ==
    \A p \in Phones : Identified(message[p]) =>
        \A reply \in Replies(p) : reply.response.status = 200 =>
            \E n \in 1..minted : reply.response.etag = Tokens[n]

\* The cache holds the very response that the phone was given.
Cached ==
    \A p \in Phones : Identified(message[p]) /\ KeyOf(request(p)) \in DOMAIN seen =>
        \E reply \in Replies(p) :
            /\ reply.life = life /\ reply.response.status = 200
            /\ reply.response = seen[KeyOf(request(p))].response

Told == Tokened /\ Cached /\ SameAnswer

WellFormed(resp) ==
    /\ resp.status \in {200, 405, 415, 489}
    /\ resp.expires \in IF resp.status = 200 THEN 0..MaxExpires ELSE {-1}

Granted ==
    /\ \A reply \in replies : WellFormed(reply.response)
    /\ \A k \in DOMAIN seen : WellFormed(seen[k].response)

IInv ==
    /\ Types /\ Once /\ Remembered /\ KeptIsTaken /\ Settled /\ Lives
    /\ Told /\ Granted

-----------------------------------------------------------------------------
(* The requests *)

LEMMA Numbers ==
    /\ Window \in Nat /\ RetryFor \in Nat /\ MaxDelay \in Nat /\ Deadline \in Nat
    /\ MaxStart \in Nat /\ MaxTime \in Nat /\ MaxLives \in Nat
    /\ RetryFor + MaxDelay < Window
  BY PatienceAssumption

LEMMA Requested ==
    ASSUME mix \in DOMAIN Mixes, NEW p \in Phones
    PROVE  /\ request(p) = parseRequest(message[p])
           /\ request(p).body = message[p].body /\ message[p].body \in Bodies
<1>1. request(p) = parseRequest(message[p])
  BY DEF request, Requests, message, Messages
<1>2. parseRequest(message[p]).body = message[p].body
  BY DEF parseRequest
<1> QED
  BY <1>1, <1>2 DEF Bodies

LEMMA OneBody ==
    ASSUME mix \in DOMAIN Mixes, NEW p \in Phones, NEW q \in Phones,
           message[p].body = message[q].body
    PROVE  p = q
  BY MixesAssumption DEF message, Messages

LEMMA OneKey ==
    ASSUME mix \in DOMAIN Mixes, NEW p \in Phones, NEW q \in Phones,
           Identified(message[p]), KeyOf(request(p)) = KeyOf(request(q))
    PROVE  p = q
<1>1. /\ KeyOf(request(p)) = <<header(parseRequest(message[p]), "call-id"),
                               header(parseRequest(message[p]), "cseq")>>
      /\ KeyOf(request(q)) = <<header(parseRequest(message[q]), "call-id"),
                               header(parseRequest(message[q]), "cseq")>>
  BY Requested DEF KeyOf
<1>2. p # q =>
        <<header(parseRequest(message[p]), "call-id"), header(parseRequest(message[p]), "cseq")>>
          # <<header(parseRequest(message[q]), "call-id"), header(parseRequest(message[q]), "cseq")>>
  BY MixesAssumption DEF message, Messages
<1> QED
  BY <1>1, <1>2

LEMMA SameRequests ==
    ASSUME UNCHANGED mix
    PROVE  /\ message' = message /\ Bodies' = Bodies
           /\ \A p : request(p)' = request(p) /\ KeyOf(request(p))' = KeyOf(request(p))
           /\ \A p : Accepted(p)' = Accepted(p)
<1>1. message' = message
  BY DEF message, Messages
<1>2. Bodies' = Bodies
  BY <1>1 DEF Bodies
<1>3. \A p : request(p)' = request(p)
  BY DEF request
<1> QED
  BY <1>1, <1>2, <1>3 DEF KeyOf, Accepted

\* A copy that comes is of this phone, and finds what was taken of it in the cache.
LEMMA CopyFindsEntry ==
    ASSUME IInv, NEW p \in Phones, NEW from \in Addresses[p], Arrives(p, from), Taken(p)
    PROVE  KeyOf(request(p)) \in Live
<1>1. now <= LastCopy(p) /\ now \in Nat /\ LastCopy(p) \in Nat
  <2>1. starts[p] \in Nat
    BY Numbers DEF IInv, Types
  <2> QED
    BY <2>1, Numbers DEF Arrives, LastCopy, IInv, Types
<1>2. /\ KeyOf(request(p)) \in DOMAIN seen
      /\ seen[KeyOf(request(p))].expires > LastCopy(p)
  BY <1>1 DEF IInv, Remembered, Arrives
<1>3. seen[KeyOf(request(p))].expires \in Nat
  BY <1>2 DEF IInv, Types
<1> QED
  BY <1>1, <1>2, <1>3 DEF Live

\* Entries that are purged are of no use to any copy.
LEMMA PurgedIsLate ==
    ASSUME IInv, up, NEW p \in Phones, Taken(p)
    PROVE  \/ now > LastCopy(p)
           \/ /\ KeyOf(request(p)) \in Live
              /\ seen[KeyOf(request(p))].expires > LastCopy(p)
<1>1. now \in Nat /\ LastCopy(p) \in Nat
  <2>1. starts[p] \in Nat
    BY Numbers DEF IInv, Types
  <2> QED
    BY <2>1, Numbers DEF LastCopy, IInv, Types
<1>2. CASE /\ KeyOf(request(p)) \in DOMAIN seen
           /\ seen[KeyOf(request(p))].expires > LastCopy(p)
  <2>1. seen[KeyOf(request(p))].expires \in Nat
    BY <1>2 DEF IInv, Types
  <2> QED
    BY <1>1, <1>2, <2>1 DEF Live
<1> QED
  BY <1>2 DEF IInv, Remembered

\* The addresses are the phones' own.
LEMMA OwnAddress ==
    ASSUME NEW p \in Phones, NEW from \in Addresses[p], NEW q \in Phones, from \in Addresses[q]
    PROVE  p = q
  BY AddressesAssumption

LEMMA NotTheProbe ==
    ASSUME NEW p \in Phones, NEW from \in Addresses[p]
    PROVE  from # ProbeAddress
  BY AddressesAssumption

-----------------------------------------------------------------------------
(* What a step leaves alone *)

LEMMA SameTaken ==
    ASSUME UNCHANGED <<mix, pending, handled, life>>
    PROVE  \A p : Taken(p)' = Taken(p)
  BY SameRequests DEF Taken

LEMMA SameReplies == \A p : UNCHANGED replies => Replies(p)' = Replies(p)
  BY DEF Replies

\* Answers to nobody's report, and answers that are not 200, settle nothing.
LEMMA NothingSettled ==
    ASSUME IInv, UNCHANGED <<mix, pending, handled, life, lost>>,
           \A reply \in replies' : \/ reply \in replies
                                   \/ reply.response.status # 200
                                   \/ reply.to = ProbeAddress
    PROVE  Settled'
<1> SUFFICES ASSUME NEW p \in Phones, Identified(message[p]),
                    NEW reply \in Replies(p)', reply.response.status = 200
             PROVE  LET x == <<message[p].body, reply.life>> IN
                    \/ handled[x] = 1
                    \/ /\ reply.life = life
                       /\ \E publish \in pending : publish.body = message[p].body
                    \/ x \in lost
  BY SameRequests DEF Settled
<1>1. reply \in replies' /\ reply.to \in Addresses[p]
  BY DEF Replies
<1>2. reply.to # ProbeAddress
  BY <1>1, NotTheProbe
<1>3. reply \in Replies(p)
  BY <1>1, <1>2 DEF Replies
<1> QED
  BY <1>3 DEF IInv, Settled

\* Steps that neither touch the cache nor what was taken.
LEMMA CacheAlone ==
    ASSUME IInv, UNCHANGED <<now, mix, starts, life, up, seen, pending, handled>>
    PROVE  Once' /\ Remembered' /\ KeptIsTaken'
<1>1. Once'
  BY DEF IInv, Once
<1>2. Remembered'
  BY SameRequests, SameTaken DEF IInv, Remembered, LastCopy
<1>3. KeptIsTaken'
  BY SameRequests, SameTaken DEF IInv, KeptIsTaken
<1> QED
  BY <1>1, <1>2, <1>3

\* Steps that give no phone a 200, and forget all responses or none.
LEMMA NothingTold ==
    ASSUME IInv, UNCHANGED <<mix, minted>>,
           UNCHANGED <<seen, life>> \/ DOMAIN seen' = {},
           replies \subseteq replies',
           \A reply \in replies' : \/ reply \in replies
                                   \/ reply.response.status # 200
                                   \/ reply.to = ProbeAddress
    PROVE  Told'
<1>1. \A p \in Phones : \A reply \in Replies(p)' :
          reply.response.status = 200 => reply \in Replies(p)
  BY NotTheProbe DEF Replies
<1>2. \A p \in Phones : Replies(p) \subseteq Replies(p)'
  BY DEF Replies
<1>3. \A p : Identified(message[p])' = Identified(message[p])
  BY SameRequests DEF Identified
<1>4. Tokened'
  <2> SUFFICES ASSUME NEW p \in Phones, Identified(message[p]),
                      NEW reply \in Replies(p)', reply.response.status = 200
               PROVE  \E n \in 1..minted : reply.response.etag = Tokens[n]
    BY <1>3 DEF Tokened
  <2> QED
    BY <1>1 DEF IInv, Told, Tokened
<1>5. Cached'
  <2>1. CASE UNCHANGED <<seen, life>>
    BY <2>1, <1>2, <1>3, SameRequests DEF IInv, Told, Cached
  <2>2. CASE DOMAIN seen' = {}
    BY <2>2 DEF Cached
  <2> QED
    BY <2>1, <2>2
<1>6. SameAnswer'
  BY <1>1, <1>3 DEF IInv, Told, SameAnswer
<1> QED
  BY <1>4, <1>5, <1>6 DEF Told

\* What the listener builds is well formed.
LEMMA Responded ==
    ASSUME NEW r, NEW remote, NEW status, NEW token, NEW expires
    PROVE  LET resp == response(r, remote, status, token, expires) IN
           resp.status = status /\ resp.etag = token /\ resp.expires = expires
  BY DEF response

LEMMA ExpiryBounded ==
    ASSUME NEW value
    PROVE  grantedExpiry(value, MaxExpires) \in 0..MaxExpires
<1> DEFINE e == Atoi[value[1].name]
<1>1. CASE /\ Len(value) = 1 /\ value[1].name \in DOMAIN Atoi
           /\ e >= 0
  <2>1. e \in Int
    BY <1>1, AtoiAssumption
  <2>2. grantedExpiry(value, 3600) = IF e < 3600 THEN e ELSE 3600
    BY <1>1 DEF grantedExpiry
  <2>3. e >= 0
    BY <1>1
  <2> HIDE DEF e
  <2>4. e < 3600 => e \in 0..3600
    BY <2>1, <2>3
  <2>5. grantedExpiry(value, 3600) \in 0..3600
    BY <2>2, <2>4
  <2> QED
    BY <2>5 DEF MaxExpires
<1>2. CASE ~(/\ Len(value) = 1 /\ value[1].name \in DOMAIN Atoi
             /\ e >= 0)
  <2>1. grantedExpiry(value, 3600) = 0
    BY <1>2 DEF grantedExpiry
  <2> QED
    BY <2>1 DEF MaxExpires
<1> QED
  BY <1>1, <1>2

LEMMA BuiltWellFormed ==
    /\ \A r, remote, token :
          /\ WellFormed(buildResponse(r, remote, token))
          /\ buildResponse(r, remote, token).status = 200
          /\ buildResponse(r, remote, token).etag = token
    /\ \A r, remote : validatePublish(r) # 200 =>
          WellFormed(buildErrorResponse(r, remote, validatePublish(r)))
<1>1. ASSUME NEW r, NEW remote, NEW token
      PROVE  /\ WellFormed(buildResponse(r, remote, token))
             /\ buildResponse(r, remote, token).status = 200
             /\ buildResponse(r, remote, token).etag = token
  <2> DEFINE granted == grantedExpiry(header(r, "expires"), MaxExpires)
             resp == response(r, remote, 200, token, granted)
  <2>1. granted \in 0..MaxExpires
    BY ExpiryBounded
  <2> HIDE DEF granted
  <2>2. resp.status = 200 /\ resp.etag = token /\ resp.expires = granted
    BY Responded
  <2>3. buildResponse(r, remote, token) = resp
    BY DEF buildResponse, granted
  <2> QED
    BY <2>1, <2>2, <2>3 DEF WellFormed
<1>2. ASSUME NEW r, NEW remote, validatePublish(r) # 200
      PROVE  WellFormed(buildErrorResponse(r, remote, validatePublish(r)))
  <2> DEFINE status == validatePublish(r)
             none == -1
             untagged == ""
             resp == response(r, remote, status, untagged, none)
  <2>1. status \in {200, 405, 415, 489}
    BY DEF validatePublish
  <2>2. buildErrorResponse(r, remote, status) = resp /\ none = -1
    BY DEF buildErrorResponse
  <2> HIDE DEF status, none, untagged
  <2>3. resp.status = status /\ resp.expires = none
    BY Responded
  <2>4. status # 200
    BY <1>2 DEF status
  <2>5. WellFormed(resp)
    BY <2>1, <2>2, <2>3, <2>4 DEF WellFormed
  <2> QED
    BY <2>2, <2>5 DEF status
<1> QED
  BY <1>1, <1>2

\* Steps that send nothing, and forget all responses or none.
LEMMA NothingGranted ==
    ASSUME IInv, UNCHANGED replies, UNCHANGED seen \/ DOMAIN seen' = {}
    PROVE  Granted'
  BY DEF IInv, Granted

-----------------------------------------------------------------------------
(* Each action keeps the invariant *)

LEMMA InitHolds == Init => IInv
<1> SUFFICES ASSUME Init PROVE IInv
  OBVIOUS
<1>0. \A p \in Phones : message[p].body \in Bodies
  BY DEF Bodies
<1>5. 1 \in 1..MaxLives
  BY Numbers, PatienceAssumption
<1>1. Types
  BY Numbers, <1>5, TokensAssumption DEF Init, Types
<1>2. Once
  BY DEF Init, Once
<1>3. \A p \in Phones : ~Taken(p)
  BY <1>0, <1>5 DEF Init, Taken
<1>4. Remembered /\ KeptIsTaken
  BY <1>3 DEF Init, Remembered, KeptIsTaken
<1>6. Settled /\ Lives
  BY DEF Init, Settled, Replies, Lives, ProbeSound, ProbeReplies
<1>7. Told /\ Granted
  BY DEF Init, Told, Tokened, Cached, SameAnswer, Granted, Replies
<1> QED
  BY <1>1, <1>2, <1>4, <1>6, <1>7 DEF IInv

LEMMA RefuseKeeps ==
    ASSUME IInv, NEW p \in Phones, NEW from \in Addresses[p], Refuse(p, from)
    PROVE  IInv'
<1> DEFINE new == Reply(from, life, buildErrorResponse(request(p), from, Statuses[mix][p]))
<1>1. replies' = replies \cup {new} /\ Statuses[mix][p] # 200
  BY DEF Refuse
<1>2. new.response.status # 200 /\ new.life = life /\ new.to = from
  BY <1>1 DEF Reply, buildErrorResponse, response
<1>3. Types'
  BY SameRequests DEF IInv, Types, Refuse
<1>4. Once' /\ Remembered' /\ KeptIsTaken'
  BY CacheAlone DEF Refuse
<1>5. Settled'
  BY <1>1, <1>2, NothingSettled DEF Refuse
<1>6. Lives'
  <2>1. life \in Nat /\ life # 0
    BY Numbers DEF IInv, Types
  <2> QED
    BY <1>1, <1>2, <2>1, NotTheProbe
    DEF IInv, Lives, ProbeSound, ProbeReplies, Refuse
<1>7. Told'
  BY <1>1, <1>2, NothingTold DEF Refuse
<1>8. Granted'
  <2>1. Statuses[mix][p] = validatePublish(request(p))
    BY DEF Statuses, request, IInv, Types
  <2>2. WellFormed(new.response)
    BY <1>1, <2>1, BuiltWellFormed DEF Reply
  <2> QED
    BY <1>1, <2>2 DEF IInv, Granted, Refuse
<1> QED
  BY <1>3, <1>4, <1>5, <1>6, <1>7, <1>8 DEF IInv

\* A report is new: no copy of it was taken before, so it is taken once.
LEMMA AdmitKeeps ==
    ASSUME IInv, NEW p \in Phones, NEW from \in Addresses[p], Admit(p, from)
    PROVE  IInv'
<1> DEFINE k == KeyOf(request(p))
           pub == Publish(request(p), from)
           resp == buildResponse(request(p), from, Tokens[minted + 1])
<1>1. /\ Arrives(p, from) /\ k \notin Live
      /\ DOMAIN seen' = Live \cup {k}
      /\ seen'[k] = Entry(resp)
      /\ \A x \in Live : x # k => seen'[x] = seen[x]
      /\ pending' = pending \cup {pub}
      /\ replies' = replies \cup {Reply(from, life, resp)}
      /\ minted' = minted + 1 /\ minted < Len(Tokens)
      /\ UNCHANGED <<now, mix, starts, life, up, handled, lost, probe, asked>>
  BY DEF Admit
<1>2. ~Taken(p)
  BY <1>1, CopyFindsEntry
<1>3. pub.body = message[p].body /\ message[p].body \in Bodies
  BY Requested DEF Publish, IInv, Types
<1>4. Live \subseteq DOMAIN seen
  BY DEF Live
<1>5. now + Window \in Nat /\ seen'[k].expires = now + Window
  BY <1>1, Numbers DEF Entry, IInv, Types
<1>6. handled[<<message[p].body, life>>] = 0
  BY <1>2 DEF Taken
<1>7. \A t \in pending : t.body # message[p].body
  BY <1>2 DEF Taken
<1>8. up
  BY <1>1 DEF Arrives
<1>9. \A q \in Phones : q # p => Taken(q)' = Taken(q)
  <2> SUFFICES ASSUME NEW q \in Phones, q # p PROVE Taken(q)' = Taken(q)
    OBVIOUS
  <2>1. pub.body # message[q].body
    BY <1>3, OneBody DEF IInv, Types
  <2> QED
    BY <1>1, <2>1, SameRequests DEF Taken
<1>10. Taken(p)'
  BY <1>1, <1>3, SameRequests DEF Taken
<1>11. Types'
  <2>1. \A x \in DOMAIN seen' : seen'[x].expires \in Nat
    BY <1>1, <1>4, <1>5 DEF IInv, Types
  <2>2. \A t \in pending' : t.body \in Bodies
    BY <1>1, <1>3 DEF IInv, Types
  <2> QED
    BY <1>1, <1>8, <2>1, <2>2, SameRequests, TokensAssumption DEF IInv, Types
<1>12. Once'
  <2>1. \A t \in pending' : handled[<<t.body, life>>] = 0
    BY <1>1, <1>3, <1>6 DEF IInv, Once
  <2>2. \A s, t \in pending' : s.body = t.body => s = t
    BY <1>1, <1>3, <1>7 DEF IInv, Once
  <2> QED
    BY <1>1, <2>1, <2>2 DEF IInv, Once
<1>13. Remembered'
  <2> SUFFICES ASSUME NEW q \in Phones, Taken(q)'
               PROVE  \/ now > LastCopy(q)
                      \/ /\ KeyOf(request(q)) \in DOMAIN seen'
                         /\ seen'[KeyOf(request(q))].expires > LastCopy(q)
    BY <1>1, SameRequests DEF Remembered, LastCopy
  <2>1. CASE q = p
    <3>1. starts[p] \in Nat /\ starts[p] <= now /\ now \in Nat
      BY <1>1, Numbers DEF Arrives, IInv, Types
    <3>2. now + Window > LastCopy(p)
      BY <3>1, Numbers DEF LastCopy
    <3> QED
      BY <1>1, <1>5, <2>1, <3>2
  <2>2. CASE q # p
    BY <1>1, <1>8, <1>9, <2>2, PurgedIsLate
  <2> QED
    BY <2>1, <2>2
<1>14. KeptIsTaken'
  <2> SUFFICES ASSUME NEW q \in Phones, Identified(message[q]),
                      KeyOf(request(q)) \in DOMAIN seen'
               PROVE  Taken(q)'
    BY <1>1, SameRequests DEF KeptIsTaken
  <2>1. CASE q = p
    BY <2>1, <1>10
  <2>2. CASE q # p
    <3>1. KeyOf(request(q)) # k
      BY <2>2, OneKey DEF IInv, Types
    <3>2. Taken(q)
      BY <1>1, <1>4, <3>1 DEF IInv, KeptIsTaken
    <3> QED
      BY <1>9, <2>2, <3>2
  <2> QED
    BY <2>1, <2>2
<1>15. Settled'
  <2> SUFFICES ASSUME NEW q \in Phones, Identified(message[q]),
                      NEW reply \in Replies(q)', reply.response.status = 200
               PROVE  LET x == <<message[q].body, reply.life>> IN
                      \/ handled[x] = 1
                      \/ /\ reply.life = life
                         /\ \E publish \in pending' : publish.body = message[q].body
                      \/ x \in lost
    BY <1>1, SameRequests DEF Settled
  <2>1. CASE reply \in replies
    <3>1. reply \in Replies(q)
      BY <2>1 DEF Replies
    <3> QED
      BY <1>1, <3>1 DEF IInv, Settled
  <2>2. CASE reply = Reply(from, life, resp)
    <3>1. reply.to = from /\ reply.life = life
      BY <2>2 DEF Reply
    <3>2. q = p
      BY <3>1, OwnAddress DEF Replies
    <3> QED
      BY <1>1, <1>3, <3>1, <3>2
  <2> QED
    BY <1>1, <2>1, <2>2 DEF Replies
<1>16. Lives'
  <2>1. life \in Nat /\ life # 0
    BY Numbers DEF IInv, Types
  <2>2. Reply(from, life, resp).life = life /\ Reply(from, life, resp).to # ProbeAddress
    BY NotTheProbe DEF Reply
  <2> QED
    BY <1>1, <2>1, <2>2 DEF IInv, Lives, ProbeSound, ProbeReplies
<1> DEFINE new == Reply(from, life, resp)
<1>17. /\ new.to = from /\ new.life = life /\ new.response = resp
       /\ resp.status = 200 /\ resp.etag = Tokens[minted + 1]
  BY BuiltWellFormed DEF Reply
<1>18. minted \in Nat /\ minted + 1 \in DOMAIN Tokens /\ 1..minted \subseteq DOMAIN Tokens
  BY <1>1, TokensAssumption DEF IInv, Types
<1>19. /\ \A q \in Phones : Replies(q) \subseteq Replies(q)'
       /\ \A q \in Phones : \A reply \in Replies(q)' :
             reply \in Replies(q) \/ (reply = new /\ q = p)
       /\ new \in Replies(p)'
  BY <1>1, <1>17, OwnAddress DEF Replies
<1>20. \A q : Identified(message[q])' = Identified(message[q])
  BY <1>1, SameRequests DEF Identified
<1>21. Identified(message[p]) =>
           \A reply \in Replies(p) : reply.response.status = 200 => reply.life # life
  <2> SUFFICES ASSUME Identified(message[p]), NEW reply \in Replies(p),
                      reply.response.status = 200, reply.life = life
               PROVE  FALSE
    OBVIOUS
  <2>1. <<message[p].body, life>> \notin lost
    BY <1>8 DEF IInv, Types
  <2> QED
    BY <1>6, <1>7, <2>1 DEF IInv, Settled
<1>22. Tokened'
  <2> SUFFICES ASSUME NEW q \in Phones, Identified(message[q]),
                      NEW reply \in Replies(q)', reply.response.status = 200
               PROVE  \E n \in 1..minted + 1 : reply.response.etag = Tokens[n]
    BY <1>1, <1>20 DEF Tokened
  <2>1. CASE reply \in Replies(q)
    <3>1. \E n \in 1..minted : reply.response.etag = Tokens[n]
      BY <2>1 DEF IInv, Told, Tokened
    <3> QED
      BY <1>18, <3>1
  <2>2. CASE reply = new
    BY <1>17, <1>18, <2>2
  <2> QED
    BY <1>19, <2>1, <2>2
<1>23. Cached'
  <2> SUFFICES ASSUME NEW q \in Phones, Identified(message[q]),
                      KeyOf(request(q)) \in DOMAIN seen'
               PROVE  \E reply \in Replies(q)' :
                          /\ reply.life = life /\ reply.response.status = 200
                          /\ reply.response = seen'[KeyOf(request(q))].response
    BY <1>1, <1>20, SameRequests DEF Cached
  <2>1. CASE q = p
    BY <1>1, <1>17, <1>19, <2>1 DEF Entry
  <2>2. CASE q # p
    <3>1. KeyOf(request(q)) # k
      BY <2>2, OneKey DEF IInv, Types
    <3>2. /\ KeyOf(request(q)) \in DOMAIN seen
          /\ seen'[KeyOf(request(q))] = seen[KeyOf(request(q))]
      BY <1>1, <1>4, <3>1
    <3> QED
      BY <1>19, <3>2 DEF IInv, Told, Cached
  <2> QED
    BY <2>1, <2>2
<1>24. \A q \in Phones : Identified(message[q]) =>
          \A reply \in Replies(q) : reply.response.status = 200 =>
              reply.response.etag # resp.etag
  <2> SUFFICES ASSUME NEW q \in Phones, Identified(message[q]),
                      NEW reply \in Replies(q), reply.response.status = 200
               PROVE  reply.response.etag # resp.etag
    OBVIOUS
  <2>1. PICK n \in 1..minted : reply.response.etag = Tokens[n]
    BY DEF IInv, Told, Tokened
  <2>2. n # minted + 1 /\ n \in DOMAIN Tokens
    BY <1>18
  <2> QED
    BY <1>17, <1>18, <2>1, <2>2, TokensAssumption
<1>25. SameAnswer'
  <2> SUFFICES ASSUME NEW q1 \in Phones, NEW q2 \in Phones,
                      Identified(message[q1]), Identified(message[q2]),
                      NEW s \in Replies(q1)', NEW t \in Replies(q2)',
                      s.response.status = 200, t.response.status = 200
               PROVE  IF q1 = q2 /\ s.life = t.life THEN s.response = t.response
                      ELSE s.response.etag # t.response.etag
    BY <1>20 DEF SameAnswer
  <2>1. CASE s \in Replies(q1) /\ t \in Replies(q2)
    BY <2>1 DEF IInv, Told, SameAnswer
  <2>2. CASE s \in Replies(q1) /\ t = new /\ q2 = p
    BY <1>17, <1>21, <1>24, <2>2
  <2>3. CASE s = new /\ q1 = p /\ t \in Replies(q2)
    BY <1>17, <1>21, <1>24, <2>3
  <2>4. CASE s = new /\ q1 = p /\ t = new /\ q2 = p
    BY <2>4
  <2> QED
    BY <1>19, <2>1, <2>2, <2>3, <2>4
<1>26. Granted'
  <2>1. WellFormed(resp)
    BY BuiltWellFormed
  <2> QED
    BY <1>1, <1>4, <1>17, <2>1 DEF IInv, Granted, Entry
<1> QED
  BY <1>11, <1>12, <1>13, <1>14, <1>15, <1>16, <1>22, <1>23, <1>25, <1>26 DEF IInv, Told

\* A copy: the report it is of was taken.
LEMMA RepeatKeeps ==
    ASSUME IInv, NEW p \in Phones, NEW from \in Addresses[p], Repeat(p, from)
    PROVE  IInv'
<1> DEFINE k == KeyOf(request(p))
           new == Reply(from, life, seen[k].response)
<1>1. /\ up /\ k \in Live
      /\ DOMAIN seen' = Live
      /\ \A x \in Live : seen'[x] = seen[x]
      /\ replies' = replies \cup {new}
      /\ UNCHANGED <<now, mix, starts, life, up, minted, pending, handled, lost,
                     probe, asked>>
  BY DEF Repeat, Arrives, Purged
<1>2. Live \subseteq DOMAIN seen
  BY DEF Live
<1>3. new.to = from /\ new.life = life
  BY DEF Reply
<1>4. Types'
  BY <1>1, <1>2, SameRequests DEF IInv, Types
<1>5. Once'
  BY <1>1 DEF IInv, Once
<1>6. Remembered'
  BY <1>1, SameRequests, SameTaken, PurgedIsLate DEF Remembered, LastCopy
<1>7. KeptIsTaken'
  BY <1>1, <1>2, SameRequests, SameTaken DEF IInv, KeptIsTaken
<1>8. Settled'
  <2> SUFFICES ASSUME NEW q \in Phones, Identified(message[q]),
                      NEW reply \in Replies(q)', reply.response.status = 200
               PROVE  LET x == <<message[q].body, reply.life>> IN
                      \/ handled[x] = 1
                      \/ /\ reply.life = life
                         /\ \E publish \in pending : publish.body = message[q].body
                      \/ x \in lost
    BY <1>1, SameRequests DEF Settled
  <2>1. CASE reply \in replies
    <3>1. reply \in Replies(q)
      BY <2>1 DEF Replies
    <3> QED
      BY <3>1 DEF IInv, Settled
  <2>2. CASE reply = new
    <3>1. q = p
      BY <1>3, <2>2, OwnAddress DEF Replies
    <3>2. Taken(q)
      BY <1>1, <1>2, <3>1 DEF IInv, KeptIsTaken
    <3>3. <<message[q].body, life>> \in DOMAIN handled
      BY Requested DEF IInv, Types
    <3>4. handled[<<message[q].body, life>>] \in {0, 1}
      BY <3>3 DEF IInv, Once
    <3> QED
      BY <1>3, <2>2, <3>2, <3>4 DEF Taken
  <2> QED
    BY <1>1, <2>1, <2>2 DEF Replies
<1>9. Lives'
  <2>1. life \in Nat /\ life # 0
    BY Numbers DEF IInv, Types
  <2> QED
    BY <1>1, <1>3, <2>1, NotTheProbe DEF IInv, Lives, ProbeSound, ProbeReplies
<1>10. /\ new.response = seen[k].response
       /\ \A q \in Phones : Replies(q) \subseteq Replies(q)'
       /\ \A q \in Phones : \A reply \in Replies(q)' :
             reply \in Replies(q) \/ (reply = new /\ q = p)
  BY <1>1, <1>3, OwnAddress DEF Replies, Reply
<1>11. \A q : Identified(message[q])' = Identified(message[q])
  BY <1>1, SameRequests DEF Identified
\* What a phone gets again it had got before.
<1>12. \A q \in Phones : Identified(message[q]) =>
          \A reply \in Replies(q)' : \E first \in Replies(q) :
              reply.life = first.life /\ reply.response = first.response
  <2> SUFFICES ASSUME NEW q \in Phones, Identified(message[q]),
                      NEW reply \in Replies(q)'
               PROVE  \E first \in Replies(q) :
                          reply.life = first.life /\ reply.response = first.response
    OBVIOUS
  <2>1. CASE reply = new /\ q = p
    BY <1>1, <1>2, <1>3, <1>10, <2>1 DEF IInv, Told, Cached
  <2> QED
    BY <1>10, <2>1
<1>13. Tokened'
  <2> SUFFICES ASSUME NEW q \in Phones, Identified(message[q]),
                      NEW reply \in Replies(q)', reply.response.status = 200
               PROVE  \E n \in 1..minted : reply.response.etag = Tokens[n]
    BY <1>1, <1>11 DEF Tokened
  <2>1. PICK first \in Replies(q) : reply.response = first.response
    BY <1>12
  <2> QED
    BY <2>1 DEF IInv, Told, Tokened
<1>14. Cached'
  BY <1>1, <1>2, <1>10, <1>11, SameRequests DEF IInv, Told, Cached
<1>15. SameAnswer'
  <2> SUFFICES ASSUME NEW q1 \in Phones, NEW q2 \in Phones,
                      Identified(message[q1]), Identified(message[q2]),
                      NEW s \in Replies(q1)', NEW t \in Replies(q2)',
                      s.response.status = 200, t.response.status = 200
               PROVE  IF q1 = q2 /\ s.life = t.life THEN s.response = t.response
                      ELSE s.response.etag # t.response.etag
    BY <1>11 DEF SameAnswer
  <2>1. PICK s1 \in Replies(q1) : s.life = s1.life /\ s.response = s1.response
    BY <1>12
  <2>2. PICK t1 \in Replies(q2) : t.life = t1.life /\ t.response = t1.response
    BY <1>12
  <2> QED
    BY <2>1, <2>2 DEF IInv, Told, SameAnswer
<1>16. Granted'
  BY <1>1, <1>2, <1>10 DEF IInv, Granted
<1> QED
  BY <1>4, <1>5, <1>6, <1>7, <1>8, <1>9, <1>13, <1>14, <1>15, <1>16 DEF IInv, Told

\* What was pending is counted, for the first time.
LEMMA CallHandlerKeeps ==
    ASSUME IInv, NEW publish \in pending, CallHandler(publish)
    PROVE  IInv'
<1> DEFINE y == <<publish.body, life>>
<1>1. /\ pending' = pending \ {publish}
      /\ handled' = [handled EXCEPT ![y] = @ + 1]
      /\ UNCHANGED <<now, mix, starts, life, up, seen, minted, lost, replies,
                     probe, asked>>
  BY DEF CallHandler
<1>2. y \in DOMAIN handled /\ handled[y] = 0
  BY DEF IInv, Types, Once
<1>3. /\ DOMAIN handled' = DOMAIN handled
      /\ handled'[y] = 1
      /\ \A x \in DOMAIN handled : x # y => handled'[x] = handled[x]
  BY <1>1, <1>2
<1>4. \A q \in Phones : message[q].body \in Bodies
                        /\ <<message[q].body, life>> \in DOMAIN handled
  BY DEF IInv, Types, Bodies
<1>5. \A q \in Phones : Taken(q)' = Taken(q)
  <2> SUFFICES ASSUME NEW q \in Phones PROVE Taken(q)' = Taken(q)
    OBVIOUS
  <2>1. Taken(q)' = (\/ \E t \in pending' : t.body = message[q].body
                     \/ handled'[<<message[q].body, life>>] # 0)
    BY <1>1, SameRequests DEF Taken
  <2>2. CASE message[q].body = publish.body
    BY <1>3, <2>1, <2>2 DEF Taken
  <2>3. CASE message[q].body # publish.body
    <3>1. handled'[<<message[q].body, life>>] = handled[<<message[q].body, life>>]
      BY <1>3, <1>4, <2>3
    <3> QED
      BY <1>1, <2>1, <2>3, <3>1 DEF Taken
  <2> QED
    BY <2>2, <2>3
<1>6. Types'
  <2>1. UNCHANGED Bodies
    BY <1>1, SameRequests
  <2>2. \A t \in pending' : t.body \in Bodies
    BY <1>1 DEF IInv, Types
  <2>3. ~up => pending' = {}
    BY <1>1 DEF IInv, Types
  <2> QED
    BY <1>1, <1>3, <2>1, <2>2, <2>3 DEF IInv, Types
<1>7. Once'
  <2>1. \A x \in DOMAIN handled' :
           handled'[x] \in {0, 1} /\ (x[2] > life => handled'[x] = 0)
    <3>1. ~(life > life)
      BY DEF IInv, Types
    <3> QED
      BY <1>3, <3>1 DEF IInv, Once
  <2>2. \A t \in pending' : handled'[<<t.body, life>>] = 0
    <3> SUFFICES ASSUME NEW t \in pending' PROVE handled'[<<t.body, life>>] = 0
      OBVIOUS
    <3>1. t \in pending /\ t # publish
      BY <1>1
    <3>2. t.body # publish.body
      BY <3>1 DEF IInv, Once
    <3>3. <<t.body, life>> \in DOMAIN handled
      BY <3>1 DEF IInv, Types
    <3>4. handled[<<t.body, life>>] = 0
      BY <3>1 DEF IInv, Once
    <3> QED
      BY <1>3, <3>2, <3>3, <3>4
  <2>3. \A s, t \in pending' : s.body = t.body => s = t
    BY <1>1 DEF IInv, Once
  <2> QED
    BY <1>1, <2>1, <2>2, <2>3 DEF Once
<1>8. Remembered'
  BY <1>1, <1>5, SameRequests DEF IInv, Remembered, LastCopy
<1>9. KeptIsTaken'
  BY <1>1, <1>5, SameRequests DEF IInv, KeptIsTaken
<1>10. Settled'
  <2> SUFFICES ASSUME NEW q \in Phones, Identified(message[q]),
                      NEW reply \in Replies(q), reply.response.status = 200
               PROVE  LET x == <<message[q].body, reply.life>> IN
                      \/ handled'[x] = 1
                      \/ /\ reply.life = life
                         /\ \E t \in pending' : t.body = message[q].body
                      \/ x \in lost
    BY <1>1, SameRequests, SameReplies DEF Settled
  <2> DEFINE x == <<message[q].body, reply.life>>
  <2>1. CASE handled[x] = 1
    <3>1. reply \in replies /\ reply.to \in Addresses[q]
      BY DEF Replies
    <3>2. reply.life # 0
      BY <3>1, NotTheProbe DEF IInv, Lives
    <3>3. reply.life \in 1..MaxLives
      BY <3>1, <3>2, Numbers DEF IInv, Lives, Types
    <3>4. x \in DOMAIN handled
      <4>1. message[q].body \in Bodies
        BY <1>4
      <4>2. DOMAIN handled = Bodies \X (1..MaxLives)
        BY DEF IInv, Types
      <4> QED
        BY <3>3, <4>1, <4>2
    <3> QED
      BY <1>3, <2>1, <3>4
  <2>2. CASE reply.life = life /\ \E t \in pending : t.body = message[q].body
    <3>1. PICK t \in pending : t.body = message[q].body
      BY <2>2
    <3>2. CASE t = publish
      BY <1>3, <2>2, <3>1, <3>2
    <3>3. CASE t # publish
      BY <1>1, <2>2, <3>1, <3>3
    <3> QED
      BY <3>2, <3>3
  <2> QED
    BY <2>1, <2>2 DEF IInv, Settled
<1>11. Lives'
  BY <1>1 DEF IInv, Lives, ProbeSound, ProbeReplies
<1>12. Told' /\ Granted'
  BY <1>1, NothingTold, NothingGranted
<1> QED
  BY <1>6, <1>7, <1>8, <1>9, <1>10, <1>11, <1>12 DEF IInv

LEMMA StopKeeps ==
    ASSUME IInv, Stop
    PROVE  IInv'
<1>1. /\ up' = FALSE /\ DOMAIN seen' = {} /\ pending' = {}
      /\ lost' = lost \cup {<<publish.body, life>> : publish \in pending}
      /\ UNCHANGED <<now, mix, starts, life, minted, handled, replies, probe, asked>>
  BY DEF Stop
<1>2. Types'
  <2>1. life \in 1..life
    BY DEF IInv, Types
  <2>2. lost' \subseteq Bodies \X (1..life)
    BY <1>1, <2>1 DEF IInv, Types
  <2> QED
    BY <1>1, <2>2, SameRequests DEF IInv, Types
<1>3. Once'
  BY <1>1 DEF IInv, Once
<1>4. Remembered' /\ KeptIsTaken'
  BY <1>1 DEF Remembered, KeptIsTaken
<1>5. Settled'
  <2> SUFFICES ASSUME NEW q \in Phones, Identified(message[q]),
                      NEW reply \in Replies(q), reply.response.status = 200
               PROVE  \/ handled[<<message[q].body, reply.life>>] = 1
                      \/ <<message[q].body, reply.life>> \in lost'
    BY <1>1, SameRequests, SameReplies DEF Settled
  <2> QED
    BY <1>1 DEF IInv, Settled
<1>6. Lives'
  BY <1>1 DEF IInv, Lives, ProbeSound, ProbeReplies
<1>7. Told' /\ Granted'
  BY <1>1, NothingTold, NothingGranted
<1> QED
  BY <1>2, <1>3, <1>4, <1>5, <1>6, <1>7 DEF IInv

\* A new life has taken nothing yet.
LEMMA RestartKeeps ==
    ASSUME IInv, Restart
    PROVE  IInv'
<1>1. /\ ~up /\ up' = TRUE /\ life < MaxLives /\ life' = life + 1
      /\ UNCHANGED <<now, mix, starts, seen, minted, pending, handled, lost, replies,
                     probe, asked>>
  BY DEF Restart
<1>2. DOMAIN seen = {} /\ pending = {}
  BY <1>1 DEF IInv, Types
<1>3. life \in Nat /\ life >= 1 /\ life + 1 \in 1..MaxLives /\ MaxLives \in Nat
  BY <1>1, Numbers DEF IInv, Types
<1>4. Types'
  <2>1. lost \subseteq Bodies \X (1..(life + 1))
    BY <1>3 DEF IInv, Types
  <2> QED
    BY <1>1, <1>2, <1>3, <2>1, SameRequests DEF IInv, Types
<1>5. Once'
  <2>1. \A x \in DOMAIN handled : x[2] > life + 1 => handled[x] = 0
    <3>1. \A x \in DOMAIN handled : x[2] \in Nat
      BY Numbers DEF IInv, Types
    <3> QED
      BY <1>3, <3>1 DEF IInv, Once
  <2> QED
    BY <1>1, <1>2, <2>1 DEF IInv, Once
<1>6. \A q \in Phones : ~Taken(q)'
  <2> SUFFICES ASSUME NEW q \in Phones PROVE ~Taken(q)'
    OBVIOUS
  <2>1. <<message[q].body, life + 1>> \in DOMAIN handled
    BY <1>3 DEF IInv, Types, Bodies
  <2>2. handled[<<message[q].body, life + 1>>] = 0
    BY <1>3, <2>1 DEF IInv, Once
  <2> QED
    BY <1>1, <1>2, <2>2, SameRequests DEF Taken
<1>7. Remembered' /\ KeptIsTaken'
  BY <1>1, <1>2, <1>6 DEF Remembered, KeptIsTaken
<1>8. Settled'
  <2> SUFFICES ASSUME NEW q \in Phones, Identified(message[q]),
                      NEW reply \in Replies(q), reply.response.status = 200
               PROVE  \/ handled[<<message[q].body, reply.life>>] = 1
                      \/ <<message[q].body, reply.life>> \in lost
    BY <1>1, SameRequests, SameReplies DEF Settled
  <2> QED
    BY <1>2 DEF IInv, Settled
<1>9. Lives'
  <2>1. \A reply \in replies : reply.life \in 0..(life + 1)
    BY <1>3 DEF IInv, Lives
  <2> QED
    BY <1>1, <2>1 DEF IInv, Lives, ProbeSound, ProbeReplies
<1>10. Told' /\ Granted'
  BY <1>1, <1>2, NothingTold, NothingGranted
<1> QED
  BY <1>4, <1>5, <1>7, <1>8, <1>9, <1>10 DEF IInv

LEMMA SendProbeKeeps ==
    ASSUME IInv, SendProbe
    PROVE  IInv'
<1>1. Types'
  BY SameRequests DEF IInv, Types, SendProbe
<1>2. Once' /\ Remembered' /\ KeptIsTaken'
  BY CacheAlone DEF SendProbe
<1>3. Settled'
  BY NothingSettled DEF SendProbe
<1>4. Lives'
  BY DEF IInv, Lives, ProbeSound, ProbeReplies, SendProbe
<1>5. Told' /\ Granted'
  BY NothingTold, NothingGranted DEF SendProbe
<1> QED
  BY <1>1, <1>2, <1>3, <1>4, <1>5 DEF IInv

\* The probe's OPTIONS is no PUBLISH.
LEMMA ProbeRefused == validatePublish(probeHeard) = 405
  BY DEF validatePublish, probeHeard, parseRequest, probeRequest

LEMMA AnswerProbeKeeps ==
    ASSUME IInv, AnswerProbe
    PROVE  IInv'
<1>1. PICK resp : replies' = replies \cup {Reply(ProbeAddress, life, resp)}
                  /\ WellFormed(resp) /\ resp.status = 405
  <2>1. buildErrorResponse(probeHeard, ProbeAddress, 405).status = 405
    BY DEF buildErrorResponse, response
  <2>2. WellFormed(buildErrorResponse(probeHeard, ProbeAddress, 405))
    BY BuiltWellFormed, ProbeRefused
  <2> QED
    BY <2>1, <2>2, ProbeRefused DEF AnswerProbe
<1>2. /\ Reply(ProbeAddress, life, resp).to = ProbeAddress
      /\ Reply(ProbeAddress, life, resp).life = life
      /\ Reply(ProbeAddress, life, resp).response = resp
  BY DEF Reply
<1>3. Types'
  BY SameRequests DEF IInv, Types, AnswerProbe
<1>4. Once' /\ Remembered' /\ KeptIsTaken'
  BY CacheAlone DEF AnswerProbe
<1>5. Settled'
  BY <1>1, <1>2, NothingSettled DEF AnswerProbe
<1>6. Lives'
  <2>1. life \in Nat /\ life # 0
    BY Numbers DEF IInv, Types
  <2>2. UNCHANGED <<life, probe>>
    BY DEF AnswerProbe
  <2> QED
    BY <1>1, <1>2, <2>1, <2>2 DEF IInv, Lives, ProbeSound, ProbeReplies
<1>7. Told'
  BY <1>1, <1>2, NothingTold DEF AnswerProbe
<1>8. Granted'
  BY <1>1, <1>2 DEF IInv, Granted, AnswerProbe
<1> QED
  BY <1>3, <1>4, <1>5, <1>6, <1>7, <1>8 DEF IInv

LEMMA AnswerInItsPlaceKeeps ==
    ASSUME IInv, AnswerInItsPlace
    PROVE  IInv'
<1>1. PICK resp : replies' = replies \cup {Reply(ProbeAddress, 0, resp)}
                  /\ WellFormed(resp) /\ UNCHANGED <<life, probe>>
  <2>1. WellFormed(buildResponse(probeHeard, ProbeAddress, "other"))
    BY BuiltWellFormed
  <2>2. WellFormed(buildErrorResponse(probeHeard, ProbeAddress, 405))
    BY BuiltWellFormed, ProbeRefused
  <2> QED
    BY <2>1, <2>2 DEF AnswerInItsPlace
<1> DEFINE new == Reply(ProbeAddress, 0, resp)
<1>2. new.to = ProbeAddress /\ new.life = 0 /\ new.response = resp
  BY DEF Reply
<1>3. Types'
  BY SameRequests DEF IInv, Types, AnswerInItsPlace
<1>4. Once' /\ Remembered' /\ KeptIsTaken'
  BY CacheAlone DEF AnswerInItsPlace
<1>5. Settled'
  BY <1>1, <1>2, NothingSettled DEF AnswerInItsPlace
<1>6. Lives'
  <2>1. 0 \in 0..life
    BY DEF IInv, Types
  <2> QED
    BY <1>1, <1>2, <2>1 DEF IInv, Lives, ProbeSound, ProbeReplies
<1>7. Told'
  BY <1>1, <1>2, NothingTold DEF AnswerInItsPlace
<1>8. Granted'
  BY <1>1, <1>2 DEF IInv, Granted, AnswerInItsPlace
<1> QED
  BY <1>3, <1>4, <1>5, <1>6, <1>7, <1>8 DEF IInv

\* A verdict that calls nobody healthy without a refusal.
LEMMA VerdictKeeps ==
    ASSUME IInv, NEW v \in {"healthy", "unhealthy"}, Verdict(v),
           v = "healthy" => \E reply \in ProbeReplies : reply.response.status = 405
    PROVE  IInv'
<1>1. Types'
  BY SameRequests DEF IInv, Types, Verdict
<1>2. Once' /\ Remembered' /\ KeptIsTaken'
  BY CacheAlone DEF Verdict
<1>3. Settled'
  BY NothingSettled DEF Verdict
<1>4. Lives'
  BY DEF IInv, Lives, ProbeSound, ProbeReplies, Verdict
<1>5. Told' /\ Granted'
  BY NothingTold, NothingGranted DEF Verdict
<1> QED
  BY <1>1, <1>2, <1>3, <1>4, <1>5 DEF IInv

LEMMA ReadReplyKeeps ==
    ASSUME IInv, ReadReply
    PROVE  IInv'
<1>1. PICK reply \in ProbeReplies :
          Verdict(IF reply.response.status = 405 THEN "healthy" ELSE "unhealthy")
  BY DEF ReadReply
<1> QED
  BY <1>1, VerdictKeeps

LEMMA TickKeeps ==
    ASSUME IInv, Tick
    PROVE  IInv'
<1>1. /\ now \in Nat /\ now' = now + 1 /\ now' <= MaxTime /\ now' \in Nat
      /\ UNCHANGED <<mix, starts, life, up, seen, minted, pending, handled, lost,
                     replies, probe, asked>>
  BY Numbers DEF IInv, Types, Tick
<1>2. Types'
  BY <1>1, SameRequests DEF IInv, Types
<1>3. Once'
  BY <1>1 DEF IInv, Once
<1>4. Remembered'
  <2>1. \A p \in Phones : now > LastCopy(p) => now + 1 > LastCopy(p)
    <3>1. \A p \in Phones : LastCopy(p) \in Nat
      BY Numbers DEF LastCopy, IInv, Types
    <3> QED
      BY <1>1, <3>1
  <2> QED
    BY <1>1, <2>1, SameRequests, SameTaken DEF IInv, Remembered, LastCopy
<1>5. KeptIsTaken'
  BY <1>1, SameRequests, SameTaken DEF IInv, KeptIsTaken
<1>6. Settled'
  BY <1>1, NothingSettled
<1>7. Lives'
  BY <1>1 DEF IInv, Lives, ProbeSound, ProbeReplies
<1>8. Told' /\ Granted'
  BY <1>1, NothingTold, NothingGranted
<1> QED
  BY <1>2, <1>3, <1>4, <1>5, <1>6, <1>7, <1>8 DEF IInv

LEMMA StutterKeeps ==
    ASSUME IInv, UNCHANGED vars
    PROVE  IInv'
<1>1. Types'
  BY SameRequests DEF IInv, Types, vars
<1>2. Once' /\ Remembered' /\ KeptIsTaken'
  BY CacheAlone DEF vars
<1>3. Settled'
  BY NothingSettled DEF vars
<1>4. Lives'
  BY DEF IInv, Lives, ProbeSound, ProbeReplies, vars
<1>5. Told' /\ Granted'
  BY NothingTold, NothingGranted DEF vars
<1> QED
  BY <1>1, <1>2, <1>3, <1>4, <1>5 DEF IInv

-----------------------------------------------------------------------------
(* What the listener says again *)

\* The function Parsed is defined by exists.
LEMMA ParsedFunction ==
    ASSUME NEW m, NEW n \in Nat
    PROVE  \E f : /\ f[0] = NothingParsed(m)
                  /\ \A k \in 1..n : f[k] = ParseLine(f[k - 1], m.lines[k])
                  /\ Parsed(m, n) = f[n]
<1> DEFINE To(f, j) == f = [k \in 0..j |-> IF k = 0 THEN NothingParsed(m)
                                           ELSE ParseLine(f[k - 1], m.lines[k])]
           Reached == {j \in 0..n : \E f : To(f, j)}
<1>1. 0 \in Reached
  <2>1. To([k \in 0..0 |-> NothingParsed(m)], 0)
    <3> HIDE DEF NothingParsed, ParseLine
    <3> QED
      OBVIOUS
  <2>2. 0 \in 0..n
    OBVIOUS
  <2> HIDE DEF To
  <2> QED
    BY <2>1, <2>2
<1>2. ASSUME NEW j \in 1..n, j - 1 \in Reached PROVE j \in Reached
  <2>1. PICK f : To(f, j - 1)
    BY <1>2
  <2> DEFINE g == [k \in 0..j |-> IF k = j THEN ParseLine(f[j - 1], m.lines[j]) ELSE f[k]]
             h == [k \in 0..j |-> IF k = 0 THEN NothingParsed(m)
                                  ELSE ParseLine(g[k - 1], m.lines[k])]
  <2>2. ASSUME NEW k \in 0..j PROVE g[k] = h[k]
    <3>1. CASE k = 0
      <4>1. f[0] = NothingParsed(m)
        BY <2>1
      <4> QED
        BY <3>1, <4>1
    <3>2. CASE k = j
      <4>1. k - 1 \in 0..j /\ k - 1 # j /\ k # 0
        BY <3>2
      <4>2. g[k - 1] = f[k - 1]
        BY <4>1
      <4> QED
        BY <3>2, <4>1, <4>2
    <3>3. CASE k # 0 /\ k # j
      <4>1. k \in 0..j - 1 /\ k - 1 \in 0..j /\ k - 1 # j
        BY <3>3
      <4>2. g[k - 1] = f[k - 1] /\ g[k] = f[k]
        BY <3>3, <4>1
      <4>3. f[k] = ParseLine(f[k - 1], m.lines[k])
        BY <2>1, <3>3, <4>1
      <4> QED
        BY <3>3, <4>2, <4>3
    <3> QED
      BY <3>1, <3>2, <3>3
  <2>3. g = h
    BY <2>2
  <2>4. To(g, j)
    BY <2>3
  <2>5. j \in 0..n
    OBVIOUS
  <2> HIDE DEF To, g
  <2> QED
    BY <2>4, <2>5
<1>3. n \in Reached
  <2> HIDE DEF Reached
  <2>1. \A j \in 0..n : j \in Reached
    BY <1>1, <1>2, StepByStep
  <2> QED
    BY <2>1
<1>4. PICK f : f = (CHOOSE g : To(g, n)) /\ To(f, n)
  <2> HIDE DEF To
  <2> QED
    BY <1>3
<1>5. Parsed(m, n) = f[n]
  BY <1>4 DEF Parsed
<1>6. f[0] = NothingParsed(m)
  <2>1. 0 \in 0..n
    OBVIOUS
  <2> HIDE DEF NothingParsed, ParseLine
  <2> QED
    BY <1>4, <2>1
<1>7. ASSUME NEW k \in 1..n PROVE f[k] = ParseLine(f[k - 1], m.lines[k])
  <2>1. k \in 0..n /\ k # 0
    OBVIOUS
  <2> QED
    BY <1>4, <2>1
<1> QED
  BY <1>5, <1>6, <1>7

\* And that Said is made of.
LEMMA SaidFunction ==
    ASSUME NEW m, NEW first, NEW n \in Nat
    PROVE  \E f : /\ f[0] = <<>>
                  /\ \A k \in 1..n : f[k] = IF Tells(m, first, k)
                                            THEN f[k - 1] \o m.lines[k].value ELSE f[k - 1]
                  /\ SaidBy(m, first, n) = f[n]
<1> DEFINE Further(s, k) == IF Tells(m, first, k) THEN s \o m.lines[k].value ELSE s
           nothing == <<>>
           To(f, j) == f = [k \in 0..j |-> IF k = 0 THEN nothing ELSE Further(f[k - 1], k)]
           Reached == {j \in 0..n : \E f : To(f, j)}
<1>1. 0 \in Reached
  <2>1. To([k \in 0..0 |-> nothing], 0)
    <3> HIDE DEF nothing, Further
    <3> QED
      OBVIOUS
  <2>2. 0 \in 0..n
    OBVIOUS
  <2> HIDE DEF To
  <2> QED
    BY <2>1, <2>2
<1>2. ASSUME NEW j \in 1..n, j - 1 \in Reached PROVE j \in Reached
  <2> HIDE DEF Further, nothing
  <2>1. PICK f : To(f, j - 1)
    BY <1>2
  <2> DEFINE g == [k \in 0..j |-> IF k = j THEN Further(f[j - 1], j) ELSE f[k]]
             h == [k \in 0..j |-> IF k = 0 THEN nothing ELSE Further(g[k - 1], k)]
  <2>2. ASSUME NEW k \in 0..j PROVE g[k] = h[k]
    <3>1. CASE k = 0
      <4>1. f[0] = nothing
        BY <2>1
      <4> QED
        BY <3>1, <4>1
    <3>2. CASE k = j
      <4>1. k - 1 \in 0..j /\ k - 1 # j /\ k # 0
        BY <3>2
      <4>2. g[k - 1] = f[k - 1]
        BY <4>1
      <4> QED
        BY <3>2, <4>1, <4>2
    <3>3. CASE k # 0 /\ k # j
      <4>1. k \in 0..j - 1 /\ k - 1 \in 0..j /\ k - 1 # j
        BY <3>3
      <4>2. g[k - 1] = f[k - 1] /\ g[k] = f[k]
        BY <3>3, <4>1
      <4>3. f[k] = Further(f[k - 1], k)
        BY <2>1, <3>3, <4>1
      <4> QED
        BY <3>3, <4>2, <4>3
    <3> QED
      BY <3>1, <3>2, <3>3
  <2>3. g = h
    BY <2>2
  <2>4. To(g, j)
    BY <2>3
  <2>5. j \in 0..n
    OBVIOUS
  <2> HIDE DEF To, g
  <2> QED
    BY <2>4, <2>5
<1>3. n \in Reached
  <2> HIDE DEF Reached
  <2>1. \A j \in 0..n : j \in Reached
    BY <1>1, <1>2, StepByStep
  <2> QED
    BY <2>1
<1>4. PICK f : f = (CHOOSE g : To(g, n)) /\ To(f, n)
  <2> HIDE DEF To
  <2> QED
    BY <1>3
<1>5. f[0] = nothing
  <2>1. 0 \in 0..n
    OBVIOUS
  <2> HIDE DEF nothing, Further
  <2> QED
    BY <1>4, <2>1
<1>6. ASSUME NEW k \in 1..n PROVE f[k] = Further(f[k - 1], k)
  <2>1. k \in 0..n /\ k # 0
    OBVIOUS
  <2> HIDE DEF Further
  <2> QED
    BY <1>4, <2>1
<1>7. SaidBy(m, first, n) = f[n]
  BY <1>4 DEF SaidBy
<1> HIDE DEF To, Reached
<1> QED
  BY <1>5, <1>6, <1>7

LEMMA Longer ==
    ASSUME NEW s \in Seq(Param), NEW t \in Seq(Param)
    PROVE  s \o t \in Seq(Param) /\ (s # <<>> => s \o t # <<>>)
<1>1. s # <<>> => s \o t # <<>>
  OBVIOUS
<1> QED
  BY <1>1

\* What the parser holds after a line.
Parse == [ok : BOOLEAN, current : HeaderNames \cup {""}, headers : [HeaderNames -> Seq(Param)]]

\* The header continuations go to has been said.
Current(r) == r.ok /\ r.current # "" => r.headers[r.current] # <<>>

\* A continuation goes to the current header; a header becomes the current one, and
\* keeps the value it has.
LEMMA OneLine ==
    ASSUME NEW r \in Parse, NEW line \in Line, Current(r)
    PROVE  LET s == ParseLine(r, line) IN
           /\ s \in Parse /\ Current(s)
           /\ s.ok /\ line.folded =>
                /\ r.ok /\ s.current = r.current /\ r.current \in HeaderNames /\ line.name = ""
                /\ \A name \in HeaderNames : s.headers[name] =
                      IF name = r.current THEN r.headers[name] \o line.value
                      ELSE r.headers[name]
           /\ s.ok /\ ~line.folded =>
                /\ r.ok /\ s.current = line.name /\ line.value # <<>>
                /\ \A name \in HeaderNames : s.headers[name] =
                      IF name = line.name /\ r.headers[name] = <<>> THEN line.value
                      ELSE r.headers[name]
<1> DEFINE s == ParseLine(r, line)
<1>1. /\ line.folded \in BOOLEAN /\ line.name \in HeaderNames \cup {""}
      /\ line.value \in Seq(Param)
      /\ line.folded => line.name = ""
      /\ ~line.folded => (line.name = "" <=> line.value = <<>>)
  BY DEF Line
<1>2. /\ r.ok \in BOOLEAN /\ r.current \in HeaderNames \cup {""}
      /\ r.headers \in [HeaderNames -> Seq(Param)]
      /\ "" \notin HeaderNames
  BY DEF Parse, HeaderNames
<1>4. CASE ~r.ok
  BY <1>4 DEF ParseLine, Current
<1>5. CASE r.ok /\ line.folded /\ r.current # ""
  <2> DEFINE c == r.current
             old == r.headers[c]
             more == old \o line.value
  <2>1. c \in HeaderNames /\ old \in Seq(Param) /\ old # <<>>
    BY <1>2, <1>5 DEF Current
  <2>2. more \in Seq(Param) /\ more # <<>>
    BY <1>1, <2>1, Longer
  <2>3. s = [r EXCEPT !.headers[c] = more]
    BY <1>5 DEF ParseLine
  <2> HIDE DEF more, s
  <2>4. /\ s \in Parse /\ s.ok = r.ok /\ s.current = c
        /\ s.headers = [r.headers EXCEPT ![c] = more]
    BY <1>2, <2>1, <2>2, <2>3 DEF Parse
  <2>5. s.headers[c] = more /\ \A name \in HeaderNames : name # c => s.headers[name] = r.headers[name]
    BY <1>2, <2>1, <2>4
  <2>6. Current(s)
    BY <2>2, <2>4, <2>5 DEF Current
  <2>7. \A name \in HeaderNames : s.headers[name] =
            IF name = c THEN r.headers[name] \o line.value ELSE r.headers[name]
    BY <2>5 DEF more
  <2> QED
    BY <1>1, <1>5, <2>1, <2>4, <2>6, <2>7 DEF s
<1>6. CASE r.ok /\ ~(line.folded /\ r.current # "") /\ line.name = ""
  <2>1. s = [r EXCEPT !.ok = FALSE]
    BY <1>6 DEF ParseLine
  <2> HIDE DEF s
  <2>2. s \in Parse /\ ~s.ok
    BY <2>1, <1>2 DEF Parse
  <2> QED
    BY <2>2 DEF Current, s
<1>7. CASE r.ok /\ line.name # ""
  <2> DEFINE c == line.name
             old == r.headers[c]
             new == IF old = <<>> THEN line.value ELSE old
  <2>1. /\ c \in HeaderNames /\ old \in Seq(Param) /\ ~line.folded
        /\ line.value \in Seq(Param) /\ line.value # <<>>
    BY <1>1, <1>2, <1>7
  <2>2. new \in Seq(Param) /\ new # <<>>
    BY <2>1
  <2>3. s = [r EXCEPT !.current = c, !.headers[c] = new]
    BY <1>7, <2>1 DEF ParseLine
  <2> HIDE DEF new, s
  <2>4. /\ s \in Parse /\ s.ok = r.ok /\ s.current = c
        /\ s.headers = [r.headers EXCEPT ![c] = new]
    BY <1>2, <2>1, <2>2, <2>3 DEF Parse
  <2>5. s.headers[c] = new /\ \A name \in HeaderNames : name # c => s.headers[name] = r.headers[name]
    BY <1>2, <2>1, <2>4
  <2>6. Current(s)
    BY <2>2, <2>4, <2>5 DEF Current
  <2>7. \A name \in HeaderNames : s.headers[name] =
            IF name = c /\ r.headers[name] = <<>> THEN line.value ELSE r.headers[name]
    BY <2>5 DEF new
  <2> QED
    BY <1>7, <2>1, <2>4, <2>6, <2>7 DEF s
<1> QED
  BY <1>1, <1>2, <1>4, <1>5, <1>6, <1>7

\* Of the headers a message begins with, none is lost or mixed up, and each has its own
\* continuations and no others.
LEMMA Heard ==
    ASSUME NEW m \in Message, parseRequest(m).ok, NEW name \in HeaderNames
    PROVE  /\ header(parseRequest(m), name) \in Seq(Param)
           /\ ~Misread(m, name) => header(parseRequest(m), name) = Said(m, name)
<1> DEFINE n == Len(m.lines)
           at == HeadersOf(m, name)
<1>1. m.lines \in Seq(Line) /\ n \in Nat /\ DOMAIN m.lines = 1..n
      /\ \A k \in 1..n : m.lines[k] \in Line
  BY DEF Message
<1>2. PICK f : /\ f[0] = NothingParsed(m)
               /\ \A k \in 1..n : f[k] = ParseLine(f[k - 1], m.lines[k])
               /\ Parsed(m, n) = f[n]
  <2> HIDE DEF n
  <2> QED
    BY <1>1, ParsedFunction
<1>3. header(parseRequest(m), name) = f[n].headers[name] /\ f[n].ok
  BY <1>2 DEF parseRequest, header
<1> DEFINE Typed == {k \in 0..n : f[k] \in Parse /\ Current(f[k])}
<1>4. \A k \in 0..n : k \in Typed
  <2>1. 0 \in Typed
    <3>1. NothingParsed(m) \in Parse /\ Current(NothingParsed(m))
      BY DEF NothingParsed, Parse, Current
    <3> QED
      BY <1>1, <1>2, <3>1
  <2>2. ASSUME NEW k \in 1..n, k - 1 \in Typed PROVE k \in Typed
    <3>1. f[k - 1] \in Parse /\ Current(f[k - 1]) /\ m.lines[k] \in Line /\ k \in 0..n
      BY <1>1, <2>2
    <3>2. f[k] = ParseLine(f[k - 1], m.lines[k])
      BY <1>2
    <3> QED
      BY <3>1, <3>2, OneLine
  <2> HIDE DEF Typed
  <2> QED
    BY <1>1, <2>1, <2>2, StepByStep
<1>5. header(parseRequest(m), name) \in Seq(Param)
  <2>1. n \in Typed
    <3> HIDE DEF Typed, n
    <3> QED
      BY <1>1, <1>4
  <2>2. f[n] \in Parse
    BY <2>1
  <2> QED
    BY <1>3, <2>2 DEF Parse
\* What a line does to the header.
<1>6. ASSUME NEW k \in 1..n, f[k].ok
      PROVE  /\ f[k - 1].ok /\ f[k - 1].headers[name] \in Seq(Param)
             /\ m.lines[k].value \in Seq(Param) /\ m.lines[k].folded \in BOOLEAN
             /\ m.lines[k].folded =>
                   /\ f[k].current = f[k - 1].current /\ m.lines[k].name # name
                   /\ f[k].headers[name] = IF f[k - 1].current = name
                                           THEN f[k - 1].headers[name] \o m.lines[k].value
                                           ELSE f[k - 1].headers[name]
             /\ ~m.lines[k].folded =>
                   /\ f[k].current = m.lines[k].name /\ m.lines[k].value # <<>>
                   /\ f[k].headers[name] = IF m.lines[k].name = name
                                                /\ f[k - 1].headers[name] = <<>>
                                           THEN m.lines[k].value
                                           ELSE f[k - 1].headers[name]
             /\ f[k - 1].current = name => f[k - 1].headers[name] # <<>>
  <2> DEFINE r == f[k - 1]
             line == m.lines[k]
             s == f[k]
  <2>1. r \in Parse /\ Current(r) /\ line \in Line
    BY <1>1, <1>4
  <2>2. s = ParseLine(r, line) /\ s.ok
    BY <1>2, <1>6
  <2>3. /\ line.folded \in BOOLEAN /\ line.value \in Seq(Param)
        /\ r.headers[name] \in Seq(Param) /\ "" \notin HeaderNames
    BY <2>1 DEF Line, Parse, HeaderNames
  <2> HIDE DEF r, s, line
  <2>4. /\ line.folded =>
             /\ r.ok /\ s.current = r.current /\ line.name = ""
             /\ s.headers[name] = IF name = r.current THEN r.headers[name] \o line.value
                                  ELSE r.headers[name]
        /\ ~line.folded =>
             /\ r.ok /\ s.current = line.name /\ line.value # <<>>
             /\ s.headers[name] = IF name = line.name /\ r.headers[name] = <<>>
                                  THEN line.value ELSE r.headers[name]
    BY <2>1, <2>2, OneLine
  <2>5. r.ok /\ (r.current = name => r.headers[name] # <<>>)
    BY <2>1, <2>3, <2>4 DEF Current
  <2> QED
    BY <2>3, <2>4, <2>5 DEF r, s, line
<1>7. ASSUME ~Misread(m, name) PROVE f[n].headers[name] = Said(m, name)
  <2> DEFINE first == CHOOSE i \in at : \A j \in at : i <= j
  <2>1. CASE at = {}
    <3> DEFINE T == {k \in 0..n : f[k].ok => f[k].headers[name] = <<>> /\ f[k].current # name}
    <3>1. 0 \in T
      <4>1. NothingParsed(m).headers[name] = <<>> /\ NothingParsed(m).current # name
        BY DEF NothingParsed, HeaderNames
      <4> QED
        BY <1>1, <1>2, <4>1
    <3>2. ASSUME NEW k \in 1..n, k - 1 \in T PROVE k \in T
      <4>1. m.lines[k].name # name
        BY <1>1, <2>1 DEF HeadersOf
      <4> QED
        BY <1>6, <3>2, <4>1
    <3>3. \A k \in 0..n : k \in T
      <4> HIDE DEF T
      <4> QED
        BY <1>1, <3>1, <3>2, StepByStep
    <3>4. Said(m, name) = <<>>
      BY <2>1 DEF Said
    <3> QED
      BY <1>1, <1>3, <3>3, <3>4
  <2>2. CASE at # {}
    <3>1. first \in at /\ \A j \in at : first <= j
      <4>1. at \subseteq Nat
        BY <1>1 DEF HeadersOf
      <4>2. \E i \in at : \A j \in at : i <= j
        <5> HIDE DEF at
        <5> QED
          BY <2>2, <4>1, Least
      <4> QED
        BY <4>2
    <3>2. Said(m, name) = SaidBy(m, first, n)
      BY <2>2 DEF Said
    <3>3. PICK said :
             /\ said[0] = <<>>
             /\ \A k \in 1..n : said[k] = IF Tells(m, first, k)
                                          THEN said[k - 1] \o m.lines[k].value
                                          ELSE said[k - 1]
             /\ SaidBy(m, first, n) = said[n]
      <4> HIDE DEF first, n
      <4> QED
        BY <1>1, SaidFunction
    <3> HIDE DEF first
    <3>4. first \in 1..n /\ m.lines[first].name = name
          /\ \A j \in 1..n : m.lines[j].name = name => j \in at /\ first <= j
      BY <1>1, <3>1 DEF HeadersOf
    <3> DEFINE Follows(i, k) == i \in at /\ i <= k /\ \A j \in i + 1..k : m.lines[j].folded
               Agrees(k) == /\ f[k].headers[name] = said[k]
                            /\ k < first <=> f[k].headers[name] = <<>>
                            /\ f[k].current = name => \E i \in 1..n : Follows(i, k)
                            /\ Tells(m, first, k) => f[k].current = name
               T == {k \in 0..n : f[k].ok => Agrees(k)}
    <3>5. 0 \in T
      <4>1. NothingParsed(m).headers[name] = <<>> /\ NothingParsed(m).current # name
        BY DEF NothingParsed, HeaderNames
      <4>2. ~Tells(m, first, 0) /\ 0 < first
        BY <3>4 DEF Tells
      <4> QED
        BY <1>1, <1>2, <3>3, <4>1, <4>2
    <3>6. ASSUME NEW k \in 1..n, k - 1 \in T PROVE k \in T
      <4> SUFFICES ASSUME f[k].ok PROVE Agrees(k)
        OBVIOUS
      <4> DEFINE line == m.lines[k]
                 old == f[k - 1].headers[name]
      <4>1. /\ f[k - 1].ok /\ old \in Seq(Param)
            /\ line.value \in Seq(Param) /\ line.folded \in BOOLEAN
            /\ line.folded =>
                  /\ f[k].current = f[k - 1].current /\ line.name # name
                  /\ f[k].headers[name] = IF f[k - 1].current = name
                                          THEN old \o line.value ELSE old
            /\ ~line.folded =>
                  /\ f[k].current = line.name /\ line.value # <<>>
                  /\ f[k].headers[name] = IF line.name = name /\ old = <<>>
                                          THEN line.value ELSE old
            /\ f[k - 1].current = name => old # <<>>
        BY <1>6
      <4>2. Agrees(k - 1)
        BY <3>6, <4>1
      <4>3. said[k] = IF Tells(m, first, k) THEN said[k - 1] \o line.value ELSE said[k - 1]
        BY <3>3
      <4>4. Tells(m, first, k) <=> k = first \/ (Tells(m, first, k - 1) /\ line.folded)
        BY <3>4 DEF Tells
      <4> HIDE DEF line, old
      <4>5. CASE line.folded /\ f[k - 1].current = name
        <5>1. PICK i \in 1..n : Follows(i, k - 1)
          BY <4>2, <4>5
        <5>2. i <= k - 1 /\ i + 1 \in 1..n /\ i + 1 <= k /\ m.lines[i].name = name
          BY <5>1 DEF HeadersOf
        <5>3. m.lines[i + 1].folded
          BY <4>5, <5>1, <5>2 DEF line
        <5>4. i = first
          <6>1. first <= i
            BY <3>1, <5>1
          <6>2. ~(first < i)
            BY <1>1, <1>7, <3>1, <5>1, <5>2, <5>3 DEF Misread
          <6> QED
            BY <3>4, <6>1, <6>2
        <5>5. Tells(m, first, k)
          BY <4>4, <4>5, <5>1, <5>2, <5>4 DEF Tells
        <5>6. Follows(i, k)
          BY <4>5, <5>1, <5>2 DEF line
        <5>7. f[k].headers[name] = old \o line.value /\ old = said[k - 1] /\ old # <<>>
          BY <4>1, <4>2, <4>5 DEF old
        <5>8. old \o line.value # <<>>
          BY <4>1, <5>7, Longer
        <5>9. ~(k < first)
          BY <3>4, <5>2, <5>4
        <5> QED
          BY <4>1, <4>3, <4>5, <5>5, <5>6, <5>7, <5>8, <5>9
      <4>6. CASE line.folded /\ f[k - 1].current # name
        <5>1. k # first /\ ~Tells(m, first, k)
          BY <3>4, <4>1, <4>2, <4>4, <4>6 DEF line
        <5>2. f[k].headers[name] = old /\ f[k].current # name
          BY <4>1, <4>6
        <5>3. k < first <=> k - 1 < first
          BY <3>4, <5>1
        <5> QED
          BY <4>2, <4>3, <5>1, <5>2, <5>3 DEF old
      <4>7. CASE ~line.folded /\ line.name # name
        <5>1. k # first /\ ~Tells(m, first, k)
          BY <3>4, <4>4, <4>7 DEF line
        <5>2. f[k].headers[name] = old /\ f[k].current # name
          BY <4>1, <4>7
        <5>3. k < first <=> k - 1 < first
          BY <3>4, <5>1
        <5> QED
          BY <4>2, <4>3, <5>1, <5>2, <5>3 DEF old
      <4>8. CASE ~line.folded /\ line.name = name
        <5>1. Follows(k, k) /\ first <= k
          BY <3>4, <4>8 DEF line
        <5>2. f[k].current = name
          BY <4>1, <4>8
        <5>3. CASE k = first
          <6>1. old = <<>> /\ said[k - 1] = <<>>
            BY <3>4, <4>2, <5>3 DEF old
          <6>2. f[k].headers[name] = line.value /\ line.value # <<>>
            BY <4>1, <4>8, <6>1
          <6>3. said[k] = line.value
            <7>1. \A v \in Seq(Param) : <<>> \o v = v
              OBVIOUS
            <7> QED
              BY <4>1, <4>3, <4>4, <5>3, <6>1, <7>1
          <6> QED
            BY <3>4, <5>1, <5>2, <5>3, <6>2, <6>3
        <5>4. CASE k # first
          <6>1. ~(k - 1 < first) /\ ~(k < first)
            BY <3>4, <5>1, <5>4
          <6>2. old # <<>> /\ f[k].headers[name] = old
            BY <4>1, <4>2, <4>8, <6>1 DEF old
          <6>3. ~Tells(m, first, k)
            BY <4>4, <4>8, <5>4
          <6> QED
            BY <4>2, <4>3, <5>1, <5>2, <6>1, <6>2, <6>3 DEF old
        <5> QED
          BY <5>3, <5>4
      <4> QED
        BY <4>1, <4>5, <4>6, <4>7, <4>8
    <3>7. \A k \in 0..n : k \in T
      <4> HIDE DEF T
      <4> QED
        BY <1>1, <3>5, <3>6, StepByStep
    <3> QED
      BY <1>1, <1>3, <3>2, <3>3, <3>7
  <2> QED
    BY <2>1, <2>2
<1> QED
  BY <1>3, <1>5, <1>7

LEMMA OneMore ==
    ASSUME NEW S, NEW s \in Seq(S), NEW e \in S
    PROVE  /\ Append(s, e) \in Seq(S) /\ Len(Append(s, e)) = Len(s) + 1
           /\ Append(s, e)[Len(s) + 1] = e
           /\ \A k \in 1..Len(s) : Append(s, e)[k] = s[k]
  OBVIOUS

LEMMA OneBehind ==
    ASSUME NEW S, NEW s \in Seq(S), NEW e \in S
    PROVE  s \o <<e>> = Append(s, e) /\ s \o <<>> = s
<1>1. s \o <<e>> = Append(s, e)
  OBVIOUS
<1>2. s \o <<>> = s
  OBVIOUS
<1> QED
  BY <1>1, <1>2

\* received at the end, and the port of the sender where a port is asked for.
LEMMA DecoratedVia ==
    ASSUME NEW from, NEW via \in Seq(Param), via # <<>>, OnePort(via)
    PROVE  decorateVia(via, from) = Honoured(via, from)
<1> DEFINE n == Len(via)
           received == Set("received", from.ip)
           added == IF containsParam(via, "received") THEN via ELSE Append(via, received)
           filled == FillPort(added, from.port)
           ports == [i \in DOMAIN via |->
                        IF i # 1 /\ via[i] = Bare("rport") THEN Set("rport", from.port)
                        ELSE via[i]]
           behind == IF via = <<>> \/ containsParam(via, "received") THEN <<>>
                     ELSE <<received>>
           P == Param \cup {received, Set("rport", from.port)}
           S == P \cup {[e EXCEPT !.value = <<from.port>> \o @] : e \in P}
<1>1. n \in Nat /\ DOMAIN via = 1..n /\ \A k \in 1..n : via[k] \in Param
  OBVIOUS
<1>2. received.name = "received" /\ "received" # "rport"
  BY DEF Set, Bare
<1>3. ports \in Seq(S) /\ Len(ports) = n /\ \A k \in 1..n : ports[k] =
           IF k # 1 /\ via[k] = Bare("rport") THEN Set("rport", from.port) ELSE via[k]
  <2>1. ports \in [1..n -> S]
    BY <1>1
  <2> HIDE DEF S
  <2> QED
    BY <1>1, <2>1
<1> DEFINE honoured == ports \o behind
<1>4. Honoured(via, from) = honoured
  BY DEF Honoured
<1> DEFINE last == IF containsParam(via, "received") THEN n ELSE n + 1
<1>5. /\ added \in Seq(S) /\ Len(added) = last /\ DOMAIN added = 1..last
      /\ honoured \in Seq(S) /\ Len(honoured) = last
      /\ last \in Nat /\ n <= last /\ last <= n + 1
      /\ \A k \in 1..n : added[k] = via[k] /\ honoured[k] = ports[k]
      /\ \A k \in 1..last : k > n => added[k] = received /\ honoured[k] = received
  <2> HIDE DEF ports, received
  <2>0. via \in Seq(S) /\ received \in S
    BY <1>1
  <2> HIDE DEF S
  <2>1. CASE containsParam(via, "received")
    <3>1. added = via /\ behind = <<>> /\ last = n
      BY <2>1
    <3>2. honoured = ports
      BY <1>3, <2>0, <3>1, OneBehind
    <3>3. Len(via) = n
      OBVIOUS
    <3>4. \A k \in 1..n : ~(k > n)
      BY <1>1
    <3> HIDE DEF added, honoured, last, n
    <3> QED
      BY <1>1, <1>3, <2>0, <3>1, <3>2, <3>3, <3>4
  <2>2. CASE ~containsParam(via, "received")
    <3>1. added = Append(via, received) /\ behind = <<received>> /\ last = n + 1
      BY <2>2
    <3>2. added \in Seq(S) /\ Len(added) = n + 1 /\ added[n + 1] = received
          /\ \A k \in 1..n : added[k] = via[k]
      BY <2>0, <3>1, OneMore
    <3>3. honoured = Append(ports, received)
      BY <1>3, <2>0, <3>1, OneBehind
    <3>4. honoured \in Seq(S) /\ Len(honoured) = n + 1 /\ honoured[n + 1] = received
          /\ \A k \in 1..n : honoured[k] = ports[k]
      <4> HIDE DEF honoured, n
      <4> QED
        BY <1>3, <2>0, <3>3, OneMore
    <3> HIDE DEF added, honoured
    <3>5. DOMAIN added = 1..last /\ n <= last /\ last <= n + 1 /\ last \in Nat
      BY <1>1, <3>1, <3>2
    <3>6. \A k \in 1..last : k > n => k = n + 1
      BY <1>1, <3>1
    <3> HIDE DEF last
    <3> QED
      BY <3>1, <3>2, <3>4, <3>5, <3>6
  <2> QED
    BY <2>1, <2>2
<1> HIDE DEF added, honoured, last
<1>6. ASSUME NEW i \in Params(added), NEW j \in Params(added),
             added[i].name = "rport", added[j].name = "rport"
      PROVE  i = j
  <2>1. i \in Params(via) /\ j \in Params(via)
    BY <1>1, <1>2, <1>5, <1>6 DEF Params
  <2>2. i \in 1..n /\ j \in 1..n
    BY <1>1, <2>1 DEF Params
  <2>3. via[i].name = "rport" /\ via[j].name = "rport"
    BY <1>5, <1>6, <2>2
  <2> QED
    BY <2>1, <2>3 DEF OnePort
<1>7. decorateVia(via, from) = IF containsBareParam(added, "rport") THEN filled ELSE added
  BY DEF decorateVia, added, received
<1> DEFINE Spelled(i) == /\ i \in Params(added) /\ added[i].name = "rport"
                         /\ ~added[i].padded /\ ~added[i].upper
           Is(e) == e.name = "rport" /\ e.value = <<>> /\ ~e.padded /\ ~e.upper
<1>8. \A e \in Param : Is(e) <=> e = Bare("rport")
  BY DEF Param, Bare
<1>9. CASE ~containsBareParam(added, "rport")
  <2>1. ASSUME NEW k \in 1..last PROVE added[k] = honoured[k]
    <3>1. CASE k \in 1..n
      <4>1. k # 1 => via[k] # Bare("rport")
        <5>1. k # 1 => k \in Params(added)
          BY <1>5, <3>1 DEF Params
        <5>2. Bare("rport").name = "rport" /\ Bare("rport").value = <<>>
          BY DEF Bare
        <5> QED
          BY <1>5, <1>9, <3>1, <5>1, <5>2 DEF containsBareParam
      <4> QED
        BY <1>3, <1>5, <3>1, <4>1
    <3>2. CASE k > n
      BY <1>5, <3>2
    <3> QED
      BY <1>1, <1>5, <3>1, <3>2
  <2>2. added = honoured
    <3> HIDE DEF S
    <3> QED
      BY <1>5, <2>1
  <2> QED
    BY <1>4, <1>7, <1>9, <2>2
<1>10. CASE containsBareParam(added, "rport")
  <2> DEFINE spelled == {i \in Params(added) : added[i].name = "rport" /\ ~added[i].padded
                                              /\ ~added[i].upper}
  <2>1. PICK bare \in Params(added) : added[bare].name = "rport" /\ added[bare].value = <<>>
    BY <1>10 DEF containsBareParam
  <2>2. filled = [i \in 1..last |->
             IF i \in spelled /\ \A j \in spelled : i <= j
             THEN [added[i] EXCEPT !.value = <<from.port>> \o @] ELSE added[i]]
    BY <1>5 DEF FillPort
  <2>3. bare \in 2..last /\ bare \in 1..n
    BY <1>1, <1>2, <1>5, <2>1 DEF Params
  <2>4. \A i \in spelled : i = bare
    BY <1>6, <2>1
  <2> HIDE DEF filled
  <2>5. ASSUME NEW k \in 1..last PROVE filled[k] = honoured[k]
    <3>1. CASE k \in spelled
      <4>1. k = bare /\ k # 1 /\ k \in 1..n
        BY <2>3, <2>4, <3>1
      <4>2. added[k] = via[k] /\ via[k] \in Param
        BY <1>1, <1>5, <4>1
      <4>3. via[k] = Bare("rport")
        BY <1>8, <2>1, <3>1, <4>1, <4>2
      <4>4. filled[k] = [added[k] EXCEPT !.value = <<from.port>> \o @]
        BY <2>2, <2>4, <2>3, <3>1, <4>1
      <4>5. [Bare("rport") EXCEPT !.value = <<from.port>> \o @] = Set("rport", from.port)
        BY DEF Bare, Set
      <4>6. filled[k] = Set("rport", from.port)
        BY <4>2, <4>3, <4>4, <4>5
      <4>7. honoured[k] = Set("rport", from.port)
        <5>1. ports[k] = Set("rport", from.port)
          <6> HIDE DEF S
          <6> QED
            BY <1>3, <4>1, <4>3
        <5> QED
          BY <1>5, <4>1, <5>1
      <4> QED
        BY <4>6, <4>7
    <3>2. CASE k \notin spelled
      <4>1. filled[k] = added[k]
        BY <2>2, <3>2
      <4>2. CASE k \in 1..n
        <5>1. k # 1 => via[k] # Bare("rport")
          <6>1. k # 1 => k \in Params(added)
            BY <1>5, <4>2 DEF Params
          <6>2. via[k] \in Param /\ added[k] = via[k]
            BY <1>1, <1>5, <4>2
          <6> QED
            BY <1>8, <3>2, <6>1, <6>2
        <5> QED
          BY <1>3, <1>5, <4>1, <4>2, <5>1
      <4>3. CASE k > n
        BY <1>5, <4>1, <4>3
      <4> QED
        BY <1>1, <1>5, <4>2, <4>3
    <3> QED
      BY <3>1, <3>2
  <2>6. filled = honoured
    <3>1. honoured = [k \in 1..last |-> honoured[k]]
      <4> HIDE DEF S
      <4> QED
        BY <1>5
    <3>2. filled = [k \in 1..last |-> filled[k]]
      BY <2>2
    <3> QED
      BY <2>5, <3>1, <3>2
  <2> QED
    BY <1>4, <1>7, <1>10, <2>6
<1> QED
  BY <1>9, <1>10

\* The expiry is at most what was wished for.
LEMMA Granting ==
    ASSUME NEW wish
    PROVE  Grants(wish, grantedExpiry(wish, MaxExpires))
<1> DEFINE e == Atoi[wish[1].name]
           Wish == Len(wish) = 1 /\ wish[1].name \in DOMAIN Atoi /\ e >= 0
<1>1. grantedExpiry(wish, MaxExpires) \in 0..MaxExpires
  BY ExpiryBounded
<1>2. CASE Wish
  <2>1. e \in Int
    BY <1>2, AtoiAssumption
  <2>2. grantedExpiry(wish, 3600) = IF e < 3600 THEN e ELSE 3600
    BY <1>2 DEF grantedExpiry
  <2>3. grantedExpiry(wish, 3600) \in {e, 3600} /\ grantedExpiry(wish, 3600) <= e
    <3> HIDE DEF e
    <3> QED
      BY <2>1, <2>2
  <2> QED
    BY <1>1, <1>2, <2>3 DEF Grants, MaxExpires
<1>3. CASE ~Wish
  <2>1. grantedExpiry(wish, 3600) = 0
    BY <1>3 DEF grantedExpiry
  <2> QED
    BY <1>1, <1>3, <2>1 DEF Grants, MaxExpires
<1> QED
  BY <1>2, <1>3

\* What is built for any copy of a request, and for any status, answers it.
LEMMA Answered ==
    ASSUME IInv, NEW p \in Phones, NEW from \in Addresses[p], request(p).ok,
           NEW status, NEW token, NEW expires,
           status = 200 => expires = grantedExpiry(header(request(p), "expires"), MaxExpires)
    PROVE  Answers(response(request(p), from, status, token, expires), p)
<1> DEFINE m == message[p]
           r == request(p)
           resp == response(r, from, status, token, expires)
           heard(name) == header(r, name)
           Clear(name) == ~Misread(m, name)
<1>1. m \in Message /\ r = parseRequest(m)
  BY MixesAssumption, Requested DEF IInv, Types, message, Messages
<1>2. \A name \in HeaderNames : Says(p, name) = Said(m, name)
  BY DEF Says, Sayings, message, Messages, IInv, Types
<1>3. \A name \in HeaderNames : heard(name) \in Seq(Param)
                                /\ (Clear(name) => heard(name) = Says(p, name))
  <2> HIDE DEF m, r
  <2> QED
    BY <1>1, <1>2, Heard DEF r
<1>4. {"via", "from", "to", "call-id", "cseq", "expires"} \subseteq HeaderNames
  BY DEF HeaderNames
<1>5. /\ resp.callID = heard("call-id") /\ resp.cseq = heard("cseq")
      /\ resp.from = heard("from") /\ resp.status = status /\ resp.etag = token
      /\ resp.expires = expires
      /\ resp.via = IF heard("via") = <<>> THEN <<>> ELSE decorateVia(heard("via"), from)
      /\ resp.to = IF status = 200 /\ heard("to") # <<>> /\ ~Tagged(heard("to"))
                   THEN Append(heard("to"), Set("tag", token)) ELSE heard("to")
  BY DEF response
<1>6. status = 200 => Grants(heard("expires"), expires)
  BY Granting
<1> HIDE DEF m, r, resp, heard, Clear
<1>7. \A to : Tagged(to) => HasTag(to)
  BY DEF Tagged, HasTag
<1>8. ASSUME Clear("via"), OnePort(Says(p, "via"))
      PROVE  resp.via = Honoured(Says(p, "via"), from)
  <2>1. heard("via") \in Seq(Param) /\ heard("via") = Says(p, "via")
    BY <1>3, <1>4, <1>8
  <2>2. CASE heard("via") = <<>>
    <3>1. Honoured(<<>>, from) = <<>>
      BY DEF Honoured
    <3> QED
      BY <1>5, <2>1, <2>2, <3>1
  <2>3. CASE heard("via") # <<>>
    BY <1>5, <1>8, <2>1, <2>3, DecoratedVia
  <2> QED
    BY <2>2, <2>3
<1>9. /\ Clear("call-id") => resp.callID = Says(p, "call-id")
      /\ Clear("cseq") => resp.cseq = Says(p, "cseq")
      /\ Clear("from") => resp.from = Says(p, "from")
      /\ Clear("expires") /\ resp.status = 200 => Grants(Says(p, "expires"), resp.expires)
  BY <1>3, <1>4, <1>5, <1>6
<1>10. Clear("to") =>
          /\ resp.status # 200 \/ Says(p, "to") = <<>> \/ Tagged(Says(p, "to"))
                => resp.to = Says(p, "to")
          /\ resp.status = 200 /\ Says(p, "to") # <<>> /\ ~HasTag(Says(p, "to"))
                => resp.to = Append(Says(p, "to"), Set("tag", resp.etag))
  BY <1>3, <1>4, <1>5, <1>7
<1> QED
  BY <1>8, <1>9, <1>10 DEF Answers, m, r, resp, Clear

\* What a phone gets was said before or answers its request.
LEMMA AnswersKept ==
    ASSUME UNCHANGED mix, AnswersOwnRequest,
           \A q \in Phones : Identified(message[q]) => \A reply \in Replies(q)' :
               \/ \E first \in Replies(q) : reply.response = first.response
               \/ Answers(reply.response, q)
    PROVE  AnswersOwnRequest'
<1>1. message' = message /\ \A q : request(q)' = request(q)
  BY SameRequests
<1>2. \A q, reply : Answers(reply.response, q)' = Answers(reply.response, q)
  BY <1>1 DEF Answers, Says
<1> SUFFICES ASSUME NEW q \in Phones, Identified(message[q]), NEW reply \in Replies(q)'
             PROVE  Answers(reply.response, q)
  BY <1>1, <1>2 DEF AnswersOwnRequest, Identified
<1>3. ASSUME NEW first \in Replies(q), reply.response = first.response
      PROVE  Answers(reply.response, q)
  BY <1>3 DEF AnswersOwnRequest
<1> QED
  BY <1>3

LEMMA NextAnswers == IInv /\ AnswersOwnRequest /\ [Next]_vars => AnswersOwnRequest'
<1> SUFFICES ASSUME IInv, AnswersOwnRequest, [Next]_vars PROVE AnswersOwnRequest'
  OBVIOUS
<1>1. ASSUME NEW p \in Phones, NEW from \in Addresses[p], NEW resp,
             replies' = replies \cup {Reply(from, life, resp)}, UNCHANGED mix,
             Answers(resp, p) \/ \E first \in Replies(p) : resp = first.response
      PROVE  AnswersOwnRequest'
  <2> DEFINE new == Reply(from, life, resp)
  <2>1. new.to = from /\ new.response = resp
    BY DEF Reply
  <2>2. \A q \in Phones : \A reply \in Replies(q)' :
            reply \in Replies(q) \/ (reply = new /\ q = p)
    BY <1>1, <2>1, OwnAddress DEF Replies
  <2> QED
    BY <1>1, <2>1, <2>2, AnswersKept
<1>2. ASSUME UNCHANGED mix,
             \A reply \in replies' : reply \in replies \/ reply.to = ProbeAddress
      PROVE  AnswersOwnRequest'
  <2>1. \A q \in Phones : Replies(q)' \subseteq Replies(q)
    BY <1>2, NotTheProbe DEF Replies
  <2> QED
    BY <1>2, <2>1, AnswersKept
<1>3. ASSUME NEW p \in Phones, NEW from \in Addresses[p], Refuse(p, from)
      PROVE  AnswersOwnRequest'
  <2> DEFINE resp == buildErrorResponse(request(p), from, Statuses[mix][p])
  <2>1. /\ replies' = replies \cup {Reply(from, life, resp)} /\ UNCHANGED mix
        /\ request(p).ok /\ Statuses[mix][p] # 200
    BY <1>3 DEF Refuse
  <2>2. Answers(resp, p)
    <3>1. \A token, none : Answers(response(request(p), from, Statuses[mix][p], token, none), p)
      BY <2>1, Answered
    <3> QED
      BY <3>1 DEF buildErrorResponse
  <2> QED
    BY <1>1, <2>1, <2>2
<1>4. ASSUME NEW p \in Phones, NEW from \in Addresses[p], Admit(p, from)
      PROVE  AnswersOwnRequest'
  <2> DEFINE resp == buildResponse(request(p), from, Tokens[minted + 1])
  <2>1. /\ replies' = replies \cup {Reply(from, life, resp)} /\ UNCHANGED mix
        /\ request(p).ok
    BY <1>4 DEF Admit, Accepted
  <2>2. Answers(resp, p)
    BY <2>1, Answered DEF buildResponse
  <2> QED
    BY <1>1, <2>1, <2>2
\* The cache has what was built for this report, if the report has an identity.
<1>5. ASSUME NEW p \in Phones, NEW from \in Addresses[p], Repeat(p, from)
      PROVE  AnswersOwnRequest'
  <2> DEFINE k == KeyOf(request(p))
             new == Reply(from, life, seen[k].response)
  <2>1. replies' = replies \cup {new} /\ UNCHANGED mix /\ k \in DOMAIN seen
    BY <1>5 DEF Repeat, Live
  <2>2. new.to = from /\ new.response = seen[k].response
    BY DEF Reply
  <2>3. \A q \in Phones : \A reply \in Replies(q)' :
            reply \in Replies(q) \/ (reply = new /\ q = p)
    BY <2>1, <2>2, OwnAddress DEF Replies
  <2>4. Identified(message[p]) => \E first \in Replies(p) : new.response = first.response
    BY <2>1, <2>2 DEF IInv, Told, Cached
  <2> QED
    BY <2>1, <2>3, <2>4, AnswersKept
<1>6. CASE AnswerProbe \/ AnswerInItsPlace
  <2>1. UNCHANGED mix /\ \E who, resp : replies' = replies \cup {Reply(ProbeAddress, who, resp)}
    BY <1>6 DEF AnswerProbe, AnswerInItsPlace
  <2> QED
    BY <1>2, <2>1 DEF Reply
<1>7. CASE \/ \E publish \in pending : CallHandler(publish)
           \/ Stop \/ Restart \/ SendProbe \/ ReadReply \/ ReadFails \/ Tick
           \/ UNCHANGED vars
  <2>1. UNCHANGED <<mix, replies>>
    BY <1>7 DEF CallHandler, Stop, Restart, SendProbe, ReadReply, ReadFails, Verdict,
                Tick, vars
  <2> QED
    BY <1>2, <2>1
<1> QED
  BY <1>3, <1>4, <1>5, <1>6, <1>7 DEF Next

-----------------------------------------------------------------------------
\* The invariant: what the cache holds, what was taken, what was answered and what the
\* handler got agree, through copies, stops and restarts (sip.go:163-185).
THEOREM Invariance == Spec => []IInv
<1>1. IInv /\ [Next]_vars => IInv'
  <2> SUFFICES ASSUME IInv, [Next]_vars PROVE IInv'
    OBVIOUS
  <2>1. CASE \E p \in Phones : \E from \in Addresses[p] :
                 Refuse(p, from) \/ Admit(p, from) \/ Repeat(p, from)
    BY <2>1, RefuseKeeps, AdmitKeeps, RepeatKeeps
  <2>2. CASE \E publish \in pending : CallHandler(publish)
    BY <2>2, CallHandlerKeeps
  <2>3. CASE Stop
    BY <2>3, StopKeeps
  <2>4. CASE Restart
    BY <2>4, RestartKeeps
  <2>5. CASE SendProbe
    BY <2>5, SendProbeKeeps
  <2>6. CASE AnswerProbe
    BY <2>6, AnswerProbeKeeps
  <2>7. CASE AnswerInItsPlace
    BY <2>7, AnswerInItsPlaceKeeps
  <2>8. CASE ReadReply
    BY <2>8, ReadReplyKeeps
  <2>9. CASE ReadFails
    BY <2>9, VerdictKeeps DEF ReadFails
  <2>10. CASE Tick
    BY <2>10, TickKeeps
  <2>11. CASE UNCHANGED vars
    BY <2>11, StutterKeeps
  <2> QED
    BY <2>1, <2>2, <2>3, <2>4, <2>5, <2>6, <2>7, <2>8, <2>9, <2>10, <2>11 DEF Next
<1> QED
  BY <1>1, InitHolds, PTL DEF Spec

\* Every variable has its type, and no 200 grants more than 3600 s (sip.go:330-339) or
\* anything else grants something.
THEOREM TypeCorrect == Spec => []TypeOK
<1>1. IInv => TypeOK
  BY Numbers DEF IInv, Types, Lives, Granted, WellFormed, TypeOK
<1> QED
  BY <1>1, Invariance, PTL

\* The 200s a phone gets for a report from one life of the collector are one response,
\* wherever its copies come from, and no other report or life has its entity tag
\* (sip.go:141-143, 163-176).
THEOREM OneAnswer == Spec => []SameAnswer
<1>1. IInv => SameAnswer
  BY DEF IInv, Told
<1> QED
  BY <1>1, Invariance, PTL

\* Whatever a phone gets, at first, for a copy and from whichever address, is the answer
\* to the request it sent: nothing of another one's headers gets into it
\* (sip.go:141-143, 163-176, 215-298).
THEOREM OwnAnswer == Spec => []AnswersOwnRequest
<1>1. Init => AnswersOwnRequest
  BY DEF Init, AnswersOwnRequest, Replies
<1> QED
  BY <1>1, Invariance, NextAnswers, PTL DEF Spec

\* The handler gets a report at most once in a life of the collector, and a report that
\* was answered with 200 is handled, about to be, or lost with the process it was
\* answered by, however many copies come from however many addresses (sip.go:163-185).
THEOREM HandledOnce == Spec => []HandledOncePerLife
<1>1. IInv => HandledOncePerLife
  <2> SUFFICES ASSUME IInv PROVE HandledOncePerLife
    OBVIOUS
  <2>1. \A x \in DOMAIN handled : handled[x] <= 1
    BY DEF IInv, Once
  <2>2. Settled
    BY DEF IInv
  <2> QED
    BY <2>1, <2>2 DEF HandledOncePerLife, Settled
<1> QED
  BY <1>1, Invariance, PTL

\* healthcheck calls healthy only what refused its OPTIONS with 405, and it calls a
\* collector that runs unhealthy before its deadline only if another server answered
\* (sip.go:131-140, main.go:440-460): the safety of ProbeDecides.
THEOREM VerdictsAreSound ==
    Spec => /\ [](probe = "healthy" => \E reply \in ProbeReplies : reply.response.status = 405)
            /\ [][probe = "waiting" /\ probe' = "unhealthy" =>
                      \/ now >= asked + Deadline \/ ~up
                      \/ \E reply \in ProbeReplies : reply.life = 0]_vars
<1> DEFINE Healthy == probe = "healthy" => \E reply \in ProbeReplies : reply.response.status = 405
           Unhealthy == probe = "waiting" /\ probe' = "unhealthy" =>
                            \/ now >= asked + Deadline \/ ~up
                            \/ \E reply \in ProbeReplies : reply.life = 0
<1>1. IInv => Healthy
  BY DEF IInv, Lives, ProbeSound
<1>2. IInv /\ [Next]_vars => [Unhealthy]_vars
  <2> SUFFICES ASSUME IInv, Next, probe = "waiting", probe' = "unhealthy"
               PROVE  \/ now >= asked + Deadline \/ ~up
                      \/ \E reply \in ProbeReplies : reply.life = 0
    OBVIOUS
  <2>1. CASE ReadReply
    <3>1. PICK reply \in ProbeReplies :
              Verdict(IF reply.response.status = 405 THEN "healthy" ELSE "unhealthy")
      BY <2>1 DEF ReadReply
    <3>2. reply.response.status # 405
      BY <3>1 DEF Verdict
    <3> QED
      BY <3>1, <3>2 DEF IInv, Lives, ProbeSound
  <2>2. CASE ReadFails
    BY <2>2 DEF ReadFails
  <2>3. CASE SendProbe
    BY <2>3 DEF SendProbe
  <2>4. CASE ~(ReadReply \/ ReadFails \/ SendProbe)
    <3>1. probe' = probe
      BY <2>4 DEF Next, Refuse, Admit, Repeat, CallHandler, Stop, Restart, AnswerProbe,
                  AnswerInItsPlace, Tick
    <3> QED
      BY <3>1
  <2> QED
    BY <2>1, <2>2, <2>3, <2>4
<1> QED
  BY <1>1, <1>2, Invariance, PTL DEF Spec
=============================================================================
