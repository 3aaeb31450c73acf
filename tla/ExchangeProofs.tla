---------------------------- MODULE ExchangeProofs ----------------------------
(***************************************************************************)
(* Theorems about Exchange, for any clients, keys, key pairs and pools of  *)
(* gzip writers and readers: handlers read what was written, keys that     *)
(* agree suffice, misfits are the client's errors, markup is readable.     *)
(***************************************************************************)
EXTENDS Exchange, SequenceTheorems, TLAPS

Layers == {"idle", "hash", "decrypt", "gzip", "log", "handler", "closeReader",
           "closeWriter", "finalize", "done"}

Bodies ==
  [of : Clients \cup {"nobody"}, sealed : Pairs \cup {NoKey}, zipped : BOOLEAN,
   intact : BOOLEAN, size : {"small", "inflates", "large"}]

Encodings == {"", "gzip"}
Hashes == [key : SigningKeys \cup {NoKey}, of : Bodies]

Requests ==
  [route : {"", "updates", "json", "path", "page"}, hash : Hashes, body : Bodies,
   accept : BOOLEAN, encoding : Encodings, payloadEncoding : Encodings]

Parts == [zipped : BOOLEAN, of : Clients \cup {"nobody"}]

Responses ==
  [status : Nat, type : {"", "text", "json", "html"}, encoding : Encodings,
   parts : Seq(Parts), hash : [key : SigningKeys \cup {NoKey}, of : Seq(Parts)]]

Types ==
  /\ key \in SigningKeys \cup {NoKey} /\ cryptoKey \in Pairs \cup {NoKey}
  /\ agentKey \in [Agents -> SigningKeys \cup {NoKey}]
  /\ pubKey \in [Agents -> Pairs \cup {NoKey}]
  /\ sent \in [Clients -> Requests]
  /\ pc \in [Clients -> Layers]
  /\ body \in [Clients -> Bodies] /\ encoding \in [Clients -> Encodings]
  /\ seen \in [Clients -> Bodies]
  /\ resp \in [Clients -> Responses]
  /\ gz \in [Clients -> Writers \cup {"nobody"}] /\ zr \in [Clients -> Readers \cup {"nobody"}]
  /\ freeGz \subseteq Writers /\ freeZr \subseteq Readers
  /\ target \in [Writers -> Clients \cup {"nobody"}]
  /\ stream \in [Writers -> Clients \cup {"nobody"}]
  /\ source \in [Readers -> Clients \cup {"nobody"}]

\* A writer or reader in use is in no pool and set to the request that uses it.
PoolInv(c) ==
  /\ gz[c] # "nobody" => gz[c] \notin freeGz /\ target[gz[c]] = c
  /\ zr[c] # "nobody" => zr[c] \notin freeZr /\ source[zr[c]] = c

\* What the requests of all clients have in common: how they are sealed, zipped,
\* signed and declared.
WellMade(c, r) ==
  /\ \E k \in SigningKeys \cup {NoKey} : r.hash = Signature(k, r.body)
  /\ IF r.route \in WithBody THEN r.body.of = c /\ r.body.intact ELSE r.body = NoBody
  /\ r.body.sealed # NoKey \/ r.body.size = "inflates" => r.body.zipped
  /\ r.encoding = "gzip" => r.body.sealed = NoKey
  /\ r.payloadEncoding = IF r.body.sealed = NoKey THEN "" ELSE "gzip"

AgentMade(c, r) ==
  /\ r.route = "updates" /\ r.accept
  /\ r.body.sealed = pubKey[c] /\ r.body.zipped
  /\ r.body.sealed = NoKey => r.encoding = "gzip"
  /\ r.hash = Signature(agentKey[c], r.body)

SentInv(c) ==
  pc[c] # "idle" => WellMade(c, sent[c]) /\ (c \in Agents => AgentMade(c, sent[c]))

\* What each layer finds: the body that was sent, opened and unzipped so far.
BodyInv(c) ==
  LET b == body[c]
      s == sent[c].body
  IN  /\ b.of = s.of /\ b.size = s.size
      /\ s = NoBody => b = NoBody
      /\ pc[c] \in {"decrypt", "gzip", "log", "handler"} /\ key # NoKey /\ Signed(c) => b.intact
      /\ pc[c] \in {"hash", "decrypt"} =>
           b.sealed = s.sealed /\ b.zipped = s.zipped /\ encoding[c] = sent[c].encoding
      /\ pc[c] \in {"gzip", "log"} =>
           /\ b.zipped = s.zipped
           /\ encoding[c] = "gzip" => (b.zipped /\ b.sealed = NoKey) \/ Misdeclared(c)
           /\ c \in Agents /\ b.sealed = NoKey => encoding[c] = "gzip"
      /\ pc[c] = "log" =>
           /\ zr[c] # "nobody" <=> encoding[c] = "gzip"
           /\ zr[c] # "nobody" => b.zipped /\ b.sealed = NoKey
      /\ pc[c] = "handler" =>
           /\ b.size # "large" /\ (c \in Agents /\ b.sealed = NoKey => ~b.zipped)
           /\ s.zipped /\ ~b.zipped => b.intact /\ b.size = "small"

Inward == {"idle", "hash", "decrypt", "gzip", "log", "handler"}
Outward == {"closeReader", "closeWriter", "finalize", "done"}

SeenInv(c) ==
  /\ pc[c] \in Inward => seen[c] = NoBody
  /\ Served(c) /\ Protected(c) => seen[c] = Text(c, "small")

\* An agent's request under agreeing keys is never refused.
AgreedInv(c) ==
  c \in Agents /\ Agree(c) /\ body[c].intact /\ sent[c].body.size = "small" =>
    /\ pc[c] \in {"gzip", "log", "handler"} => body[c].sealed = NoKey
    /\ pc[c] \in Outward => Served(c)

StatusInv(c) ==
  pc[c] \in Outward /\ body[c].intact /\ sent[c].route \in WithBody /\ ~Served(c)
    => resp[c].status \in {400, 413} \/ (resp[c].status = 500 /\ Misdeclared(c))

\* Until the handler writes there is no answer; an answer in markup waits in the
\* gzip writer until it is closed.
MarkupInv(c) ==
  /\ pc[c] \in Inward => resp[c] = NoResponse
  /\ pc[c] \in {"idle", "hash", "decrypt", "gzip"} => zr[c] = "nobody"
  /\ pc[c] \in {"log", "handler"} /\ sent[c].accept => gz[c] # "nobody"
  /\ pc[c] \in Outward /\ sent[c].accept /\ resp[c].type \in {"json", "html"} =>
       /\ resp[c].encoding = "gzip"
       /\ pc[c] \in {"closeReader", "closeWriter"} =>
            resp[c].parts = <<>> /\ gz[c] # "nobody" /\ stream[gz[c]] = c
       /\ pc[c] \in {"finalize", "done"} => resp[c].parts = <<Part(TRUE, c)>>
       /\ pc[c] = "done" => resp[c].hash = Sign(resp[c].parts)

ClientInv(c) ==
  PoolInv(c) /\ SentInv(c) /\ BodyInv(c) /\ SeenInv(c) /\ AgreedInv(c) /\ StatusInv(c) /\ MarkupInv(c)

IInv == Types /\ \A c \in Clients : ClientInv(c)

LEMMA Names ==
  /\ Clients = Agents \cup Others /\ \A c \in Agents : c \in Clients /\ c \notin Others
  /\ NoKey \notin SigningKeys /\ NoKey \notin Pairs
  /\ "nobody" \notin Clients /\ "nobody" \notin Writers /\ "nobody" \notin Readers
BY ExchangeAssumption DEF Clients

----------------------------------------------------------------------------
(* Bodies and requests.                                                    *)

LEMMA SameBody ==
  ASSUME NEW a \in Bodies, NEW b \in Bodies, a.of = b.of, a.sealed = b.sealed,
         a.zipped = b.zipped, a.intact = b.intact, a.size = b.size
  PROVE  a = b
BY DEF Bodies

\* The fields of the bodies that are written, zipped, sealed, and of no body.
LEMMA BodyOf ==
  ASSUME NEW c \in Clients, NEW size \in {"small", "inflates", "large"}
  PROVE  /\ Text(c, size) \in Bodies /\ Text(c, size).of = c /\ Text(c, size).sealed = NoKey
         /\ Text(c, size).zipped = FALSE /\ Text(c, size).intact = TRUE
         /\ Text(c, size).size = size /\ Text(c, size) # NoBody
<1>1. Text(c, size).of = c /\ NoBody.of = "nobody"
  BY DEF Text, NoBody
<1>2. Text(c, size) # NoBody
  BY <1>1, Names
<1> QED BY <1>2 DEF Text, Bodies

LEMMA BodyOfNobody ==
  /\ NoBody \in Bodies /\ NoBody.of = "nobody" /\ NoBody.sealed = NoKey
  /\ NoBody.zipped = FALSE /\ NoBody.intact = TRUE /\ NoBody.size = "small"
BY DEF NoBody, Bodies

LEMMA BodyZipped ==
  ASSUME NEW b \in Bodies
  PROVE  /\ Gzip(b) \in Bodies /\ Gzip(b).of = b.of /\ Gzip(b).sealed = b.sealed
         /\ Gzip(b).zipped = TRUE /\ Gzip(b).intact = b.intact /\ Gzip(b).size = b.size
BY DEF Gzip, Bodies

LEMMA BodySealed ==
  ASSUME NEW b \in Bodies, NEW p \in Pairs
  PROVE  /\ Encrypt(p, b) \in Bodies /\ Encrypt(p, b).of = b.of /\ Encrypt(p, b).sealed = p
         /\ Encrypt(p, b).zipped = b.zipped /\ Encrypt(p, b).intact = b.intact
         /\ Encrypt(p, b).size = b.size
BY DEF Encrypt, Bodies

LEMMA SignatureTypes ==
  ASSUME NEW b \in Bodies, NEW k \in SigningKeys \cup {NoKey}
  PROVE  /\ Signature(k, b) \in Hashes
         /\ k # NoKey => Signature(k, b).key = k /\ Signature(k, b).of = b
         /\ Signature(k, b).key = k
BY BodyOfNobody DEF Signature, NoSignature, Hashes

\* preparePayload and newRequest.
LEMMA AgentRequestsAreMade ==
  ASSUME Types, NEW c \in Agents, NEW r \in AgentRequests(c)
  PROVE  /\ r \in Requests /\ WellMade(c, r) /\ AgentMade(c, r) /\ r.body.of = c
         /\ r.body # NoBody
<1>1. PICK size \in {"small", "inflates"} : r = newRequest(c, Text(c, size))
  BY DEF AgentRequests
<1> DEFINE t == Text(c, size)
<1> DEFINE b == encryptPayload(c, Gzip(t))
<1>0. c \in Clients /\ pubKey[c] \in Pairs \cup {NoKey} /\ agentKey[c] \in SigningKeys \cup {NoKey}
  BY Names DEF Types
<1>2. t \in Bodies /\ t.of = c /\ t.sealed = NoKey /\ t.intact = TRUE
  <2>1. c \in Clients /\ size \in {"small", "inflates", "large"}
    BY <1>0
  <2> QED BY <2>1, BodyOf, Zenon
<1>3. /\ Gzip(t) \in Bodies /\ Gzip(t).of = c /\ Gzip(t).sealed = NoKey
      /\ Gzip(t).zipped = TRUE /\ Gzip(t).intact = TRUE
  BY <1>2, BodyZipped
<1>4. /\ b \in Bodies /\ b.of = c /\ b.sealed = pubKey[c] /\ b.zipped = TRUE /\ b.intact = TRUE
  <2>1. CASE pubKey[c] = NoKey
    BY <1>3, <2>1 DEF encryptPayload
  <2>2. CASE pubKey[c] # NoKey
    BY <1>0, <1>3, <2>2, BodySealed DEF encryptPayload
  <2> QED BY <2>1, <2>2
<1> HIDE DEF b
<1>5. /\ r.route = "updates" /\ r.hash = Signature(agentKey[c], b) /\ r.body = b /\ r.accept = TRUE
      /\ r.encoding = IF pubKey[c] = NoKey THEN "gzip" ELSE ""
      /\ r.payloadEncoding = IF pubKey[c] = NoKey THEN "" ELSE "gzip"
      /\ r = [route |-> r.route, hash |-> r.hash, body |-> r.body, accept |-> r.accept,
              encoding |-> r.encoding, payloadEncoding |-> r.payloadEncoding]
  BY <1>1 DEF newRequest, preparePayload, b
<1>6. r.hash \in Hashes
  BY <1>0, <1>4, <1>5, SignatureTypes
<1>7. r \in Requests
  BY <1>4, <1>5, <1>6 DEF Requests, Encodings
<1>8. WellMade(c, r) /\ AgentMade(c, r)
  BY <1>0, <1>4, <1>5 DEF WellMade, AgentMade, WithBody
<1>9. r.body # NoBody
  BY <1>0, <1>4, <1>5, BodyOfNobody, Names
<1> QED BY <1>4, <1>5, <1>7, <1>8, <1>9

LEMMA UndeclaredRequestsAreMade ==
  ASSUME NEW c \in Others, NEW r \in UndeclaredRequests(c)
  PROVE  /\ r \in Requests /\ WellMade(c, r) /\ r.body.sealed = NoKey
         /\ r.body # NoBody => r.body.of = c
<1>0. c \in Clients
  BY Names
<1>1. ASSUME NEW route \in {"updates", "json", "path", "page"}, NEW b \in Bodies,
             NEW accept \in BOOLEAN, NEW k \in SigningKeys \cup {NoKey},
             b.sealed = NoKey, b.size = "inflates" => b.zipped,
             IF route \in WithBody THEN b.of = c /\ b.intact ELSE b = NoBody,
             r = OtherRequest(route, b, accept, k)
      PROVE  r \in Requests /\ WellMade(c, r) /\ r.body = b
  <2>1. /\ r.route = route /\ r.hash = Signature(k, b) /\ r.body = b /\ r.accept = accept
        /\ r.encoding = ""
        /\ r.payloadEncoding = ""
        /\ r = [route |-> r.route, hash |-> r.hash, body |-> r.body, accept |-> r.accept,
                encoding |-> r.encoding, payloadEncoding |-> r.payloadEncoding]
    BY <1>1 DEF OtherRequest
  <2>2. Signature(k, b) \in Hashes
    BY SignatureTypes
  <2>3. r \in Requests
    BY <1>1, <2>1, <2>2 DEF Requests, Encodings
  <2>4. WellMade(c, r)
    BY <1>1, <2>1 DEF WellMade
  <2> QED BY <2>1, <2>3, <2>4
<1>2. ASSUME NEW route \in WithBody, NEW b \in OtherTexts(c), NEW accept \in BOOLEAN,
             NEW k \in SigningKeys \cup {NoKey}, r = OtherRequest(route, b, accept, k)
      PROVE  r \in Requests /\ WellMade(c, r) /\ r.body.of = c /\ r.body.sealed = NoKey
  <2>1. b \in Bodies /\ b.of = c /\ b.sealed = NoKey /\ b.intact = TRUE /\ b.size # "inflates"
    <3>0. \A size \in {"small", "large"} :
            LET t == Text(c, size)
            IN  /\ t \in Bodies /\ t.of = c /\ t.sealed = NoKey /\ t.intact = TRUE /\ t.size = size
      <4> SUFFICES ASSUME NEW size \in {"small", "large"}
                   PROVE  /\ Text(c, size) \in Bodies /\ Text(c, size).of = c
                          /\ Text(c, size).sealed = NoKey /\ Text(c, size).intact = TRUE
                          /\ Text(c, size).size = size
        OBVIOUS
      <4>1. c \in Clients /\ size \in {"small", "inflates", "large"}
        BY <1>0
      <4> QED BY <4>1, BodyOf, Zenon
    <3>e. b \in {Text(c, "small"), Text(c, "large"), Gzip(Text(c, "small"))}
      BY DEF OtherTexts
    <3>1. CASE b = Text(c, "small") \/ b = Text(c, "large")
      BY <3>1, <3>0
    <3>2. CASE b = Gzip(Text(c, "small"))
      <4> DEFINE t == Text(c, "small")
      <4>1. t \in Bodies /\ t.of = c /\ t.sealed = NoKey /\ t.intact = TRUE /\ t.size = "small"
        BY <3>0
      <4> HIDE DEF t
      <4>2. b = Gzip(t)
        BY <3>2 DEF t
      <4> QED BY <4>1, <4>2, BodyZipped
    <3> QED BY <3>e, <3>1, <3>2
  <2>2. route \in {"updates", "json", "path", "page"}
    BY DEF WithBody
  <2> QED BY <1>1, <1>2, <2>1, <2>2
<1>3. ASSUME NEW route \in {"path", "page"}, NEW accept \in BOOLEAN,
             r = OtherRequest(route, NoBody, accept, NoKey)
      PROVE  r \in Requests /\ WellMade(c, r) /\ r.body = NoBody
  <2>1. route \notin WithBody
    BY DEF WithBody
  <2> QED BY <1>1, <1>3, <2>1, BodyOfNobody
<1>4. \/ \E route \in WithBody, b \in OtherTexts(c), accept \in BOOLEAN, k \in SigningKeys \cup {NoKey} :
           r = OtherRequest(route, b, accept, k)
      \/ \E route \in {"path", "page"}, accept \in BOOLEAN : r = OtherRequest(route, NoBody, accept, NoKey)
  BY DEF UndeclaredRequests
<1> QED BY <1>2, <1>3, <1>4, BodyOfNobody

\* Declared to be gzip or not.
LEMMA OtherRequestsAreMade ==
  ASSUME NEW c \in Others, NEW r \in OtherRequests(c)
  PROVE  /\ r \in Requests /\ WellMade(c, r)
         /\ r.body # NoBody => r.body.of = c
<1>1. PICK coding \in {"", "gzip"}, q \in UndeclaredRequests(c) : r = Declaring(coding, q)
  BY DEF OtherRequests
<1>2. /\ q \in Requests /\ WellMade(c, q) /\ q.body.sealed = NoKey
      /\ q.body # NoBody => q.body.of = c
  BY UndeclaredRequestsAreMade
<1>3. /\ r \in Requests /\ r.route = q.route /\ r.hash = q.hash /\ r.body = q.body
      /\ r.payloadEncoding = q.payloadEncoding
  BY <1>1, <1>2 DEF Declaring, Requests, Encodings
<1> QED BY <1>2, <1>3 DEF WellMade

----------------------------------------------------------------------------
(* Responses.                                                              *)

LEMMA PartsAppend ==
  ASSUME NEW s \in Seq(Parts), NEW p \in Parts
  PROVE  Append(s, p) \in Seq(Parts)
BY AppendProperties

LEMMA PartTypes ==
  ASSUME NEW zipped \in BOOLEAN, NEW x \in Clients \cup {"nobody"}
  PROVE  Part(zipped, x) \in Parts /\ Part(zipped, x).zipped = zipped /\ Part(zipped, x).of = x
BY DEF Part, Parts

LEMMA ResponseFields ==
  ASSUME NEW q \in Responses
  PROVE  /\ q.status \in Nat /\ q.type \in {"", "text", "json", "html"} /\ q.encoding \in Encodings
         /\ q.parts \in Seq(Parts) /\ q.hash \in [key : SigningKeys \cup {NoKey}, of : Seq(Parts)]
BY DEF Responses

\* A response with one of its fields set anew.
LEMMA WithStatus ==
  ASSUME NEW q \in Responses, NEW s \in Nat
  PROVE  LET r == [q EXCEPT !.status = s]
         IN  /\ r \in Responses /\ r.status = s /\ r.type = q.type /\ r.encoding = q.encoding
             /\ r.parts = q.parts /\ r.hash = q.hash
BY DEF Responses

LEMMA WithType ==
  ASSUME NEW q \in Responses, NEW t \in {"", "text", "json", "html"}
  PROVE  LET r == [q EXCEPT !.type = t]
         IN  /\ r \in Responses /\ r.status = q.status /\ r.type = t /\ r.encoding = q.encoding
             /\ r.parts = q.parts /\ r.hash = q.hash
BY DEF Responses

LEMMA WithEncoding ==
  ASSUME NEW q \in Responses, NEW e \in Encodings
  PROVE  LET r == [q EXCEPT !.encoding = e]
         IN  /\ r \in Responses /\ r.status = q.status /\ r.type = q.type /\ r.encoding = e
             /\ r.parts = q.parts /\ r.hash = q.hash
BY DEF Responses

LEMMA WithParts ==
  ASSUME NEW q \in Responses, NEW p \in Seq(Parts)
  PROVE  LET r == [q EXCEPT !.parts = p]
         IN  /\ r \in Responses /\ r.status = q.status /\ r.type = q.type /\ r.encoding = q.encoding
             /\ r.parts = p /\ r.hash = q.hash
BY DEF Responses

LEMMA WithHash ==
  ASSUME NEW q \in Responses, NEW h \in [key : SigningKeys \cup {NoKey}, of : Seq(Parts)]
  PROVE  LET r == [q EXCEPT !.hash = h]
         IN  /\ r \in Responses /\ r.status = q.status /\ r.type = q.type /\ r.encoding = q.encoding
             /\ r.parts = q.parts /\ r.hash = h
BY DEF Responses

LEMMA NoResponseFields ==
  NoResponse \in Responses /\ NoResponse.type = "" /\ NoResponse.parts = <<>>
<1>1. <<>> \in Seq(Parts)
  OBVIOUS
<1>2. NoHash \in [key : SigningKeys \cup {NoKey}, of : Seq(Parts)]
  BY <1>1 DEF NoHash
<1>3. \A h \in [key : SigningKeys \cup {NoKey}, of : Seq(Parts)], p \in Seq(Parts) :
        LET q == [status |-> 0, type |-> "", encoding |-> "", parts |-> p, hash |-> h]
        IN  q \in Responses /\ q.type = "" /\ q.parts = p
  BY DEF Responses, Encodings
<1> QED BY <1>1, <1>2, <1>3 DEF NoResponse

\* A step that sets the response of c, and of nobody else.
Answers(c, status, type, enc, parts, hash) ==
  /\ resp' \in [Clients -> Responses]
  /\ resp'[c].status = status /\ resp'[c].type = type /\ resp'[c].encoding = enc
  /\ resp'[c].parts = parts /\ resp'[c].hash = hash
  /\ \A x \in Clients : x # c => resp'[x] = resp[x]

LEMMA AnswersSet ==
  ASSUME Types, NEW c \in Clients, NEW q \in Responses, resp' = [resp EXCEPT ![c] = q]
  PROVE  Answers(c, q.status, q.type, q.encoding, q.parts, q.hash)
<1>1. resp \in [Clients -> Responses]
  BY DEF Types
<1>2. /\ resp' \in [Clients -> Responses] /\ resp'[c] = q
      /\ \A x \in Clients : x # c => resp'[x] = resp[x]
  BY <1>1
<1> QED BY <1>2 DEF Answers

\* http.Error, and an answer that is no markup.
LEMMA TextAnswers ==
  ASSUME Types, NEW c \in Clients, NEW status \in Nat, Error(c, status)
  PROVE  Answers(c, status, "text", resp[c].encoding, Append(resp[c].parts, Part(FALSE, c)), resp[c].hash)
<1> DEFINE parts == Append(resp[c].parts, Part(FALSE, c))
<1> DEFINE q == [resp[c] EXCEPT !.status = status]
<1> DEFINE r == [q EXCEPT !.type = "text"]
<1> DEFINE t == [r EXCEPT !.parts = parts]
<1>1. resp[c] \in Responses
  BY DEF Types
<1>2. parts \in Seq(Parts)
  BY <1>1, ResponseFields, PartTypes, PartsAppend
<1>3. resp' = [resp EXCEPT ![c] = t]
  BY DEF Error
<1> HIDE DEF parts
<1>4. /\ q \in Responses /\ q.status = status /\ q.encoding = resp[c].encoding /\ q.hash = resp[c].hash
  BY <1>1, WithStatus
<1> HIDE DEF q
<1>5. /\ r \in Responses /\ r.status = status /\ r.type = "text" /\ r.encoding = resp[c].encoding
      /\ r.hash = resp[c].hash
  BY <1>4, WithType
<1> HIDE DEF r
<1>6. /\ t \in Responses /\ t.status = status /\ t.type = "text" /\ t.encoding = resp[c].encoding
      /\ t.parts = parts /\ t.hash = resp[c].hash
  BY <1>2, <1>5, WithParts
<1> HIDE DEF t
<1>7. Answers(c, t.status, t.type, t.encoding, t.parts, t.hash)
  BY <1>3, <1>6, AnswersSet
<1> QED BY <1>6, <1>7 DEF parts

\* WriteHeader alone.
LEMMA StatusAnswers ==
  ASSUME Types, NEW c \in Clients, NEW status \in Nat, WriteNothing(c, status)
  PROVE  Answers(c, status, resp[c].type, resp[c].encoding, resp[c].parts, resp[c].hash)
<1> DEFINE q == [resp[c] EXCEPT !.status = status]
<1>1. resp[c] \in Responses
  BY DEF Types
<1>2. resp' = [resp EXCEPT ![c] = q]
  BY DEF WriteNothing
<1>3. /\ q \in Responses /\ q.status = status /\ q.type = resp[c].type
      /\ q.encoding = resp[c].encoding /\ q.parts = resp[c].parts /\ q.hash = resp[c].hash
  BY <1>1, WithStatus
<1> HIDE DEF q
<1>4. Answers(c, q.status, q.type, q.encoding, q.parts, q.hash)
  BY <1>2, <1>3, AnswersSet
<1> QED BY <1>3, <1>4

LEMMA MarkupAnswers ==
  ASSUME Types, NEW c \in Clients, NEW status \in Nat, NEW type \in {"json", "html"},
         WriteMarkup(c, status, type)
  PROVE  Answers(c, status, type, "gzip",
                 IF gz[c] = "nobody" THEN Append(resp[c].parts, Part(FALSE, c)) ELSE resp[c].parts,
                 resp[c].hash)
<1> DEFINE parts == IF gz[c] = "nobody" THEN Append(resp[c].parts, Part(FALSE, c)) ELSE resp[c].parts
<1> DEFINE q == [resp[c] EXCEPT !.status = status]
<1> DEFINE r == [q EXCEPT !.type = type]
<1> DEFINE s == [r EXCEPT !.encoding = "gzip"]
<1> DEFINE t == [s EXCEPT !.parts = parts]
<1>1. resp[c] \in Responses
  BY DEF Types
<1>2. parts \in Seq(Parts)
  <2>1. resp[c].parts \in Seq(Parts) /\ Append(resp[c].parts, Part(FALSE, c)) \in Seq(Parts)
    BY <1>1, ResponseFields, PartTypes, PartsAppend
  <2> QED BY <2>1
<1>3. resp' = [resp EXCEPT ![c] = t]
  BY DEF WriteMarkup
<1> HIDE DEF parts
<1>4. /\ q \in Responses /\ q.status = status /\ q.hash = resp[c].hash
  BY <1>1, WithStatus
<1> HIDE DEF q
<1>5. /\ r \in Responses /\ r.status = status /\ r.type = type /\ r.hash = resp[c].hash
  <2>1. type \in {"", "text", "json", "html"}
    OBVIOUS
  <2>2. q \in Responses
    BY <1>4
  <2>3. /\ r \in Responses /\ r.status = q.status /\ r.type = type /\ r.hash = q.hash
    BY <2>1, <2>2, WithType, Zenon
  <2> HIDE DEF r
  <2> QED BY <1>4, <2>3
<1> HIDE DEF r
<1>6. /\ s \in Responses /\ s.status = status /\ s.type = type /\ s.encoding = "gzip"
      /\ s.hash = resp[c].hash
  BY <1>5, WithEncoding DEF Encodings
<1> HIDE DEF s
<1>7. /\ t \in Responses /\ t.status = status /\ t.type = type /\ t.encoding = "gzip"
      /\ t.parts = parts /\ t.hash = resp[c].hash
  BY <1>2, <1>6, WithParts
<1> HIDE DEF t
<1>8. Answers(c, t.status, t.type, t.encoding, t.parts, t.hash)
  BY <1>3, <1>7, AnswersSet
<1> QED BY <1>7, <1>8 DEF parts

\* gz.Close of a writer that is set to the response of c.
LEMMA ClosingAnswers ==
  ASSUME Types, NEW c \in Clients, PoolInv(c), gz[c] # "nobody", CloseWriter(c)
  PROVE  Answers(c, resp[c].status, resp[c].type, resp[c].encoding,
                 Append(resp[c].parts, Part(TRUE, stream[gz[c]])), resp[c].hash)
<1> DEFINE parts == Append(resp[c].parts, Part(TRUE, stream[gz[c]]))
<1> DEFINE q == [resp[c] EXCEPT !.parts = parts]
<1>1. resp[c] \in Responses
  BY DEF Types
<1>2. gz[c] \in Writers /\ stream[gz[c]] \in Clients \cup {"nobody"} /\ target[gz[c]] = c
  BY DEF Types, PoolInv
<1>3. parts \in Seq(Parts)
  BY <1>1, <1>2, ResponseFields, PartTypes, PartsAppend
<1>4. resp' = [resp EXCEPT ![c] = q]
  BY <1>2 DEF CloseWriter
<1> HIDE DEF parts
<1>5. /\ q \in Responses /\ q.status = resp[c].status /\ q.type = resp[c].type
      /\ q.encoding = resp[c].encoding /\ q.parts = parts /\ q.hash = resp[c].hash
  BY <1>1, <1>3, WithParts
<1> HIDE DEF q
<1>6. Answers(c, q.status, q.type, q.encoding, q.parts, q.hash)
  BY <1>4, <1>5, AnswersSet
<1> QED BY <1>5, <1>6 DEF parts

LEMMA SigningAnswers ==
  ASSUME Types, NEW c \in Clients, finalize(c)
  PROVE  Answers(c, resp[c].status, resp[c].type, resp[c].encoding, resp[c].parts, Sign(resp[c].parts))
<1> DEFINE hash == Sign(resp[c].parts)
<1> DEFINE q == [resp[c] EXCEPT !.hash = hash]
<1>1. resp[c] \in Responses /\ key \in SigningKeys \cup {NoKey} /\ resp[c].parts \in Seq(Parts)
  BY ResponseFields DEF Types
<1>2. hash \in [key : SigningKeys \cup {NoKey}, of : Seq(Parts)]
  <2>1. <<>> \in Seq(Parts)
    OBVIOUS
  <2>2. \A k \in SigningKeys \cup {NoKey}, p \in Seq(Parts) :
          [key |-> k, of |-> p] \in [key : SigningKeys \cup {NoKey}, of : Seq(Parts)]
    OBVIOUS
  <2>3. hash = [key |-> NoKey, of |-> <<>>] \/ hash = [key |-> key, of |-> resp[c].parts]
    BY DEF Sign, NoHash
  <2> HIDE DEF hash
  <2> QED BY <1>1, <2>1, <2>2, <2>3
<1>3. resp' = [resp EXCEPT ![c] = q]
  BY DEF finalize
<1> HIDE DEF hash
<1>4. /\ q \in Responses /\ q.status = resp[c].status /\ q.type = resp[c].type
      /\ q.encoding = resp[c].encoding /\ q.parts = resp[c].parts /\ q.hash = hash
  BY <1>1, <1>2, WithHash
<1> HIDE DEF q
<1>5. Answers(c, q.status, q.type, q.encoding, q.parts, q.hash)
  BY <1>3, <1>4, AnswersSet
<1> QED BY <1>4, <1>5 DEF hash

----------------------------------------------------------------------------
(* Types.                                                                  *)

Step(c) ==
  \/ Send(c) \/ HashMiddleware(c) \/ DecryptMiddleware(c) \/ GzipMiddleware(c)
  \/ LoggingMiddleware(c) \/ Serve(c) \/ Reject(c)

LEMMA KeyTypes ==
  PublicKeys \subseteq Pairs \cup {NoKey} /\ PrivateKeys \subseteq Pairs \cup {NoKey}
<1>1. \A f \in Formats, p \in Pairs :
        LoadPublicKey(f, p) \subseteq Pairs /\ LoadPrivateKey(f, p) \subseteq Pairs
  BY DEF LoadPublicKey, LoadPrivateKey
<1>2. UNION {LoadPublicKey(f, p) : f \in Formats, p \in Pairs} \subseteq Pairs
  BY <1>1
<1>3. UNION {LoadPrivateKey(f, p) : f \in Formats, p \in Pairs} \subseteq Pairs
  BY <1>1
<1> QED BY <1>2, <1>3 DEF PublicKeys, PrivateKeys

\* The damaged body of a request.
LEMMA DamagedBody ==
  ASSUME NEW r \in Requests
  PROVE  LET b == Damaged(r).body
         IN  /\ b \in Bodies /\ b.of = r.body.of /\ b.sealed = r.body.sealed
             /\ b.zipped = r.body.zipped /\ b.size = r.body.size /\ b.intact = FALSE
<1> DEFINE b == [r.body EXCEPT !.intact = FALSE]
<1>1. r.body \in Bodies
  BY DEF Requests
<1>2. Damaged(r).body = b
  BY DEF Damaged, Requests
<1>3. /\ b \in Bodies /\ b.of = r.body.of /\ b.sealed = r.body.sealed
      /\ b.zipped = r.body.zipped /\ b.size = r.body.size /\ b.intact = FALSE
  BY <1>1 DEF Bodies
<1> HIDE DEF b
<1> QED BY <1>2, <1>3

\* What is sent, and what arrives.
LEMMA Sending ==
  ASSUME Types, NEW c \in Clients, Send(c)
  PROVE  \E r \in Requests, b \in Bodies :
           /\ sent' = [sent EXCEPT ![c] = r] /\ body' = [body EXCEPT ![c] = b]
           /\ encoding' = [encoding EXCEPT ![c] = r.encoding]
           /\ WellMade(c, r) /\ (c \in Agents => AgentMade(c, r))
           /\ b.of = r.body.of /\ b.sealed = r.body.sealed /\ b.zipped = r.body.zipped
           /\ b.size = r.body.size /\ (r.body = NoBody => b = NoBody)
<1>1. PICK r \in IF c \in Agents THEN AgentRequests(c) ELSE OtherRequests(c) :
        \E a \in {r} \cup (IF r.body = NoBody THEN {} ELSE {Damaged(r)}) :
          /\ sent' = [sent EXCEPT ![c] = r]
          /\ body' = [body EXCEPT ![c] = a.body]
          /\ encoding' = [encoding EXCEPT ![c] = r.encoding]
  BY DEF Send
<1>2. r \in Requests /\ WellMade(c, r) /\ (c \in Agents => AgentMade(c, r))
  <2>1. CASE c \in Agents
    BY <1>1, <2>1, AgentRequestsAreMade
  <2>2. CASE c \notin Agents
    BY <1>1, <2>2, Names, OtherRequestsAreMade
  <2> QED BY <2>1, <2>2
<1>3. PICK a \in {r} \cup (IF r.body = NoBody THEN {} ELSE {Damaged(r)}) :
          /\ sent' = [sent EXCEPT ![c] = r]
          /\ body' = [body EXCEPT ![c] = a.body]
          /\ encoding' = [encoding EXCEPT ![c] = r.encoding]
  BY <1>1
<1>4. /\ a.body \in Bodies /\ a.body.of = r.body.of /\ a.body.sealed = r.body.sealed
      /\ a.body.zipped = r.body.zipped /\ a.body.size = r.body.size
      /\ (r.body = NoBody => a.body = NoBody)
  <2>1. r.body \in Bodies
    BY <1>2 DEF Requests
  <2>2. CASE a = r
    BY <2>1, <2>2
  <2>3. CASE a = Damaged(r) /\ r.body # NoBody
    BY <1>2, <2>3, DamagedBody
  <2> QED BY <1>3, <2>2, <2>3
<1> QED BY <1>2, <1>3, <1>4

\* Reading leaves of a body all but the zipping.
LEMMA Reading ==
  ASSUME Types, NEW c \in Clients, PoolInv(c)
  PROVE  /\ Read(c) \in Bodies
         /\ Read(c).of = body[c].of /\ Read(c).sealed = body[c].sealed
         /\ Read(c).intact = body[c].intact /\ Read(c).size = body[c].size
         /\ zr[c] = "nobody" => Read(c) = body[c]
         /\ zr[c] # "nobody" => Read(c).zipped = FALSE
<1>1. body[c] \in Bodies
  BY DEF Types
<1>2. CASE zr[c] = "nobody"
  BY <1>1, <1>2 DEF Read
<1>3. CASE zr[c] # "nobody"
  <2> DEFINE b == [body[c] EXCEPT !.zipped = FALSE]
  <2>1. Read(c) = b
    BY <1>3 DEF Read, PoolInv
  <2>2. /\ b \in Bodies /\ b.of = body[c].of /\ b.sealed = body[c].sealed
        /\ b.intact = body[c].intact /\ b.size = body[c].size /\ b.zipped = FALSE
    BY <1>1 DEF Bodies
  <2> HIDE DEF b
  <2> QED BY <1>3, <2>1, <2>2
<1> QED BY <1>2, <1>3

\* Opening takes the envelope from a body.
LEMMA Opening ==
  ASSUME Types, NEW c \in Clients, Decrypt(c)
  PROVE  \E b \in Bodies :
           /\ body' = [body EXCEPT ![c] = b]
           /\ b.of = body[c].of /\ b.sealed = NoKey /\ b.zipped = body[c].zipped
           /\ b.intact = body[c].intact /\ b.size = body[c].size
<1> DEFINE b == [body[c] EXCEPT !.sealed = NoKey]
<1>1. body[c] \in Bodies
  BY DEF Types
<1>2. body' = [body EXCEPT ![c] = b]
  BY DEF Decrypt
<1>3. /\ b \in Bodies /\ b.of = body[c].of /\ b.sealed = NoKey /\ b.zipped = body[c].zipped
      /\ b.intact = body[c].intact /\ b.size = body[c].size
  BY <1>1 DEF Bodies
<1> HIDE DEF b
<1> QED BY <1>2, <1>3

LEMMA TypesInductive ==
  ASSUME Types, NEW c \in Clients, PoolInv(c), Step(c)
  PROVE  Types'
<1> USE Names DEF keyVars, gzVars, zrVars, Goto
<1>t. /\ sent \in [Clients -> Requests] /\ pc \in [Clients -> Layers]
      /\ body \in [Clients -> Bodies] /\ encoding \in [Clients -> Encodings]
      /\ seen \in [Clients -> Bodies] /\ resp \in [Clients -> Responses]
      /\ gz \in [Clients -> Writers \cup {"nobody"}] /\ zr \in [Clients -> Readers \cup {"nobody"}]
      /\ freeGz \subseteq Writers /\ freeZr \subseteq Readers
      /\ target \in [Writers -> Clients \cup {"nobody"}]
      /\ stream \in [Writers -> Clients \cup {"nobody"}]
      /\ source \in [Readers -> Clients \cup {"nobody"}]
  BY DEF Types
<1>p. \A p \in Layers : [pc EXCEPT ![c] = p] \in [Clients -> Layers]
  BY <1>t
<1>l. {"hash", "decrypt", "gzip", "log", "handler", "closeReader", "closeWriter", "finalize", "done"}
        \subseteq Layers
  BY DEF Layers
<1>n. {200, 400, 404, 413, 500} \subseteq Nat
  OBVIOUS
\* A step between two layers that leaves the pools and what they hold alone.
<1>1. ASSUME UNCHANGED <<keyVars, gzVars, zrVars>>, sent' \in [Clients -> Requests],
             pc' \in [Clients -> Layers], body' \in [Clients -> Bodies],
             encoding' \in [Clients -> Encodings], seen' = seen,
             resp' \in [Clients -> Responses]
      PROVE  Types'
  BY <1>1, <1>t DEF Types
<1>2. CASE Send(c)
  <2>1. PICK r \in Requests, b \in Bodies :
           /\ sent' = [sent EXCEPT ![c] = r] /\ body' = [body EXCEPT ![c] = b]
           /\ encoding' = [encoding EXCEPT ![c] = r.encoding]
    BY <1>2, Sending
  <2>2. r.encoding \in Encodings
    BY DEF Requests
  <2>3. sent' \in [Clients -> Requests] /\ body' \in [Clients -> Bodies]
    BY <2>1, <1>t
  <2>4. encoding' \in [Clients -> Encodings]
    BY <2>1, <2>2, <1>t
  <2>5. pc' = [pc EXCEPT ![c] = "hash"] /\ UNCHANGED <<keyVars, gzVars, zrVars, seen, resp>>
    BY <1>2 DEF Send
  <2> QED BY <2>3, <2>4, <2>5, <1>1, <1>p, <1>l, <1>t
<1>3. CASE HashPasses(c) \/ DecryptPasses(c)
  <2>1. /\ \E p \in {"decrypt", "gzip"} : pc' = [pc EXCEPT ![c] = p]
        /\ UNCHANGED <<keyVars, gzVars, zrVars, sent, body, encoding, seen, resp>>
    BY <1>3 DEF HashPasses, DecryptPasses
  <2>2. pc' \in [Clients -> Layers]
    BY <2>1, <1>p, <1>l
  <2> QED BY <2>1, <2>2, <1>1, <1>t
<1>4. CASE HashRefuses(c) \/ DecryptRefuses(c) \/ LogRefuses(c)
  <2>1. /\ \E p \in {"done", "finalize", "closeReader"} : pc' = [pc EXCEPT ![c] = p]
        /\ UNCHANGED <<keyVars, gzVars, zrVars, sent, body, encoding, seen>>
        /\ \E s \in {413, 400, 500} : Error(c, s)
    BY <1>4 DEF HashRefuses, DecryptRefuses, LogRefuses
  <2>2. pc' \in [Clients -> Layers]
    BY <2>1, <1>p, <1>l
  <2>3. resp' \in [Clients -> Responses]
    <3>1. PICK s \in Nat : Error(c, s)
      BY <2>1, <1>n
    <3>2. \E t, e, p, h : Answers(c, s, t, e, p, h)
      BY <3>1, TextAnswers, Zenon
    <3> QED BY <3>2 DEF Answers
  <2> QED BY <2>1, <2>2, <2>3, <1>1, <1>t
<1>5. CASE Decrypt(c)
  <2>1. PICK b \in Bodies : body' = [body EXCEPT ![c] = b]
    BY <1>5, Opening
  <2>2. body' \in [Clients -> Bodies]
    BY <2>1, <1>t
  <2>3. sent[c].payloadEncoding \in Encodings
    BY <1>t DEF Requests
  <2>4. encoding' \in [Clients -> Encodings]
    BY <1>5, <2>3, <1>t DEF Decrypt
  <2>5. pc' = [pc EXCEPT ![c] = "gzip"] /\ UNCHANGED <<keyVars, gzVars, zrVars, sent, seen, resp>>
    BY <1>5 DEF Decrypt
  <2> QED BY <2>2, <2>4, <2>5, <1>1, <1>p, <1>l, <1>t
\* TakeWriter.
<1>w. ASSUME TakeWriter(c)
      PROVE  /\ gz' \in [Clients -> Writers \cup {"nobody"}] /\ freeGz' \subseteq Writers
             /\ target' \in [Writers -> Clients \cup {"nobody"}]
             /\ stream' \in [Writers -> Clients \cup {"nobody"}]
  <2>1. CASE sent[c].accept
    <3>1. PICK w \in freeGz :
            /\ freeGz' = freeGz \ {w} /\ gz' = [gz EXCEPT ![c] = w]
            /\ target' = [target EXCEPT ![w] = c] /\ stream' = [stream EXCEPT ![w] = "nobody"]
      BY <1>w, <2>1 DEF TakeWriter
    <3> QED BY <3>1, <1>t
  <2>2. CASE ~sent[c].accept
    BY <1>w, <2>2, <1>t DEF TakeWriter
  <2> QED BY <2>1, <2>2
<1>6. CASE GzipPasses(c)
  <2>1. /\ TakeWriter(c) /\ UNCHANGED <<keyVars, sent, body, encoding, seen, resp>>
        /\ pc' = [pc EXCEPT ![c] = "log"]
    BY <1>6 DEF GzipPasses
  <2>2. /\ zr' \in [Clients -> Readers \cup {"nobody"}] /\ freeZr' \subseteq Readers
        /\ source' \in [Readers -> Clients \cup {"nobody"}]
    <3>1. CASE encoding[c] = "gzip"
      <4>1. PICK z \in freeZr : /\ freeZr' = freeZr \ {z} /\ zr' = [zr EXCEPT ![c] = z]
                                /\ source' = [source EXCEPT ![z] = c]
        BY <1>6, <3>1 DEF GzipPasses
      <4> QED BY <4>1, <1>t
    <3>2. CASE encoding[c] # "gzip"
      BY <1>6, <3>2, <1>t DEF GzipPasses
    <3> QED BY <3>1, <3>2
  <2>3. pc' \in [Clients -> Layers]
    BY <2>1, <1>p, <1>l
  <2> QED BY <2>1, <2>2, <2>3, <1>w, <1>t DEF Types
<1>7. CASE GzipRefuses(c)
  <2>1. /\ TakeWriter(c) /\ UNCHANGED <<keyVars, sent, body, encoding, seen, zrVars>>
        /\ pc' = [pc EXCEPT ![c] = "closeWriter"] /\ Error(c, 500)
    BY <1>7 DEF GzipRefuses
  <2>2. pc' \in [Clients -> Layers]
    BY <2>1, <1>p, <1>l
  <2>3. resp' \in [Clients -> Responses]
    <3>1. Error(c, 500) /\ 500 \in Nat
      BY <2>1
    <3>2. \E t, e, p, h : Answers(c, 500, t, e, p, h)
      BY <3>1, TextAnswers, Zenon
    <3> QED BY <3>2 DEF Answers
  <2> QED BY <2>1, <2>2, <2>3, <1>w, <1>t DEF Types
<1>8. CASE Log(c)
  <2>1. /\ body' = [body EXCEPT ![c] = Read(c)] /\ pc' = [pc EXCEPT ![c] = "handler"]
        /\ UNCHANGED <<keyVars, gzVars, zrVars, sent, encoding, seen, resp>>
    BY <1>8 DEF Log
  <2>2. body' \in [Clients -> Bodies]
    BY <2>1, <1>t, Reading
  <2> QED BY <2>1, <2>2, <1>1, <1>p, <1>l, <1>t
<1>9. CASE Serve(c) \/ Reject(c)
  <2>1. /\ UNCHANGED <<keyVars, sent, body, encoding, gz, freeGz, target, zrVars>>
        /\ pc' = [pc EXCEPT ![c] = "closeReader"]
        /\ seen' = seen \/ seen' = [seen EXCEPT ![c] = body[c]]
    BY <1>9 DEF Serve, Reject
  <2>2. pc' \in [Clients -> Layers] /\ seen' \in [Clients -> Bodies]
    BY <2>1, <1>p, <1>l, <1>t
  <2>3. resp' \in [Clients -> Responses] /\ stream' \in [Writers -> Clients \cup {"nobody"}]
    <3>1. \/ \E s \in Nat : WriteNothing(c, s) \/ WriteText(c, s)
          \/ \E s \in Nat, type \in {"json", "html"} : WriteMarkup(c, s, type)
      BY <1>9, <1>n DEF Serve, Reject
    <3>2. ASSUME NEW s \in Nat, WriteNothing(c, s)
          PROVE  resp' \in [Clients -> Responses] /\ stream' = stream
      <4>1. stream' = stream
        BY <3>2 DEF WriteNothing
      <4>2. \E t, e, p, h : Answers(c, s, t, e, p, h)
        BY <3>2, StatusAnswers, Zenon
      <4>3. resp' \in [Clients -> Responses]
        BY <4>2 DEF Answers
      <4> QED BY <4>1, <4>3
    <3>3. ASSUME NEW s \in Nat, WriteText(c, s)
          PROVE  resp' \in [Clients -> Responses] /\ stream' = stream
      <4>1. stream' = stream /\ Error(c, s)
        BY <3>3 DEF WriteText, Error
      <4>2. \E t, e, p, h : Answers(c, s, t, e, p, h)
        BY <4>1, TextAnswers, Zenon
      <4>3. resp' \in [Clients -> Responses]
        BY <4>2 DEF Answers
      <4> QED BY <4>1, <4>3
    <3>4. ASSUME NEW s \in Nat, NEW type \in {"json", "html"}, WriteMarkup(c, s, type)
          PROVE  resp' \in [Clients -> Responses] /\ stream' \in [Writers -> Clients \cup {"nobody"}]
      <4>1. stream' \in [Writers -> Clients \cup {"nobody"}]
        BY <3>4, <1>t DEF WriteMarkup
      <4>2. \E t, e, p, h : Answers(c, s, t, e, p, h)
        BY <3>4, MarkupAnswers, Zenon
      <4>3. resp' \in [Clients -> Responses]
        BY <4>2 DEF Answers
      <4> QED BY <4>1, <4>3
    <3> QED BY <3>1, <3>2, <3>3, <3>4, <1>t
  <2> QED BY <2>1, <2>2, <2>3, <1>t DEF Types
<1>10. CASE CloseReader(c)
  <2>1. /\ freeZr' = freeZr \cup ({zr[c]} \cap Readers) /\ zr' = [zr EXCEPT ![c] = "nobody"]
        /\ pc' = [pc EXCEPT ![c] = "closeWriter"]
        /\ UNCHANGED <<keyVars, sent, body, encoding, seen, resp, gzVars, source>>
    BY <1>10 DEF CloseReader
  <2>2. pc' \in [Clients -> Layers]
    BY <2>1, <1>p, <1>l
  <2> QED BY <2>1, <2>2, <1>t DEF Types
<1>11. CASE CloseWriter(c)
  <2>1. /\ pc' = [pc EXCEPT ![c] = "finalize"]
        /\ UNCHANGED <<keyVars, sent, body, encoding, seen, zrVars, target, stream>>
    BY <1>11 DEF CloseWriter
  <2>2. pc' \in [Clients -> Layers]
    BY <2>1, <1>p, <1>l
  <2>3. /\ resp' \in [Clients -> Responses] /\ freeGz' \subseteq Writers
        /\ gz' \in [Clients -> Writers \cup {"nobody"}]
    <3>1. CASE gz[c] = "nobody"
      BY <1>11, <3>1, <1>t DEF CloseWriter
    <3>2. CASE gz[c] # "nobody"
      <4>1. resp' \in [Clients -> Responses]
        <5>1. \E s, t, e, p, h : Answers(c, s, t, e, p, h)
          BY <1>11, <3>2, ClosingAnswers, Zenon
        <5> QED BY <5>1 DEF Answers
      <4>2. freeGz' = freeGz \cup {gz[c]} /\ gz' = [gz EXCEPT ![c] = "nobody"]
        BY <1>11, <3>2 DEF CloseWriter
      <4> QED BY <4>1, <4>2, <3>2, <1>t
    <3> QED BY <3>1, <3>2
  <2> QED BY <2>1, <2>2, <2>3, <1>t DEF Types
<1>12. CASE finalize(c)
  <2>1. /\ pc' = [pc EXCEPT ![c] = "done"]
        /\ UNCHANGED <<keyVars, gzVars, zrVars, sent, body, encoding, seen>>
    BY <1>12 DEF finalize
  <2>2. pc' \in [Clients -> Layers]
    BY <2>1, <1>p, <1>l
  <2>3. resp' \in [Clients -> Responses]
    <3>1. \E s, t, e, p, h : Answers(c, s, t, e, p, h)
      BY <1>12, SigningAnswers, Zenon
    <3> QED BY <3>1 DEF Answers
  <2> QED BY <2>1, <2>2, <2>3, <1>1, <1>t
<1> QED BY <1>2, <1>3, <1>4, <1>5, <1>6, <1>7, <1>8, <1>9, <1>10, <1>11, <1>12
        DEF Step, HashMiddleware, DecryptMiddleware, GzipMiddleware, LoggingMiddleware

----------------------------------------------------------------------------
(* What a step leaves to the others.                                       *)

Kept(x) ==
  /\ sent'[x] = sent[x] /\ pc'[x] = pc[x] /\ body'[x] = body[x] /\ encoding'[x] = encoding[x]
  /\ seen'[x] = seen[x] /\ resp'[x] = resp[x] /\ gz'[x] = gz[x] /\ zr'[x] = zr[x]
  /\ gz[x] # "nobody" =>
       /\ gz[x] \notin freeGz' /\ target'[gz[x]] = target[gz[x]] /\ stream'[gz[x]] = stream[gz[x]]
  /\ zr[x] # "nobody" => zr[x] \notin freeZr' /\ source'[zr[x]] = source[zr[x]]

LEMMA KeysStay ==
  ASSUME NEW c \in Clients, Step(c)
  PROVE  UNCHANGED keyVars
BY DEF Step, HashMiddleware, DecryptMiddleware, GzipMiddleware, LoggingMiddleware, Send, HashPasses,
   HashRefuses, finalize, DecryptPasses, Decrypt, DecryptRefuses, GzipPasses, GzipRefuses,
   CloseReader, CloseWriter, Log, LogRefuses, Serve, Reject

\* The response of everybody else is left alone.
LEMMA OthersResponses ==
  ASSUME Types, NEW c \in Clients, PoolInv(c), Step(c), NEW x \in Clients, x # c
  PROVE  resp'[x] = resp[x]
<1>a. ASSUME NEW s, NEW t, NEW e, NEW p, NEW h, Answers(c, s, t, e, p, h)
      PROVE  resp'[x] = resp[x]
  BY <1>a DEF Answers
<1>n. {200, 400, 404, 413, 500} \subseteq Nat
  OBVIOUS
<1>e. ASSUME NEW s \in Nat, Error(c, s)
      PROVE  resp'[x] = resp[x]
  BY <1>a, <1>e, TextAnswers, Zenon
<1>1. CASE Send(c) \/ HashPasses(c) \/ DecryptPasses(c) \/ Decrypt(c) \/ GzipPasses(c) \/ Log(c)
           \/ CloseReader(c)
  BY <1>1 DEF Send, HashPasses, DecryptPasses, Decrypt, GzipPasses, Log, CloseReader
<1>2. CASE HashRefuses(c) \/ DecryptRefuses(c) \/ GzipRefuses(c) \/ LogRefuses(c)
  <2>1. \E s \in Nat : Error(c, s)
    BY <1>2, <1>n DEF HashRefuses, DecryptRefuses, GzipRefuses, LogRefuses
  <2> QED BY <2>1, <1>e
<1>3. CASE Serve(c) \/ Reject(c)
  <2>1. \/ \E s \in Nat : WriteNothing(c, s) \/ WriteText(c, s)
        \/ \E s \in Nat, type \in {"json", "html"} : WriteMarkup(c, s, type)
    BY <1>3, <1>n DEF Serve, Reject
  <2>2. ASSUME NEW s \in Nat, WriteNothing(c, s)
        PROVE  resp'[x] = resp[x]
    BY <2>2, <1>a, StatusAnswers, Zenon
  <2>3. ASSUME NEW s \in Nat, WriteText(c, s)
        PROVE  resp'[x] = resp[x]
    <3>1. Error(c, s)
      BY <2>3 DEF WriteText, Error
    <3> QED BY <3>1, <1>e
  <2>4. ASSUME NEW s \in Nat, NEW type \in {"json", "html"}, WriteMarkup(c, s, type)
        PROVE  resp'[x] = resp[x]
    BY <2>4, <1>a, MarkupAnswers, Zenon
  <2> QED BY <2>1, <2>2, <2>3, <2>4
<1>4. CASE CloseWriter(c)
  <2>1. CASE gz[c] = "nobody"
    BY <1>4, <2>1 DEF CloseWriter
  <2>2. CASE gz[c] # "nobody"
    BY <1>4, <2>2, <1>a, ClosingAnswers, Zenon
  <2> QED BY <2>1, <2>2
<1>5. CASE finalize(c)
  BY <1>5, <1>a, SigningAnswers, Zenon
<1> QED BY <1>1, <1>2, <1>3, <1>4, <1>5
        DEF Step, HashMiddleware, DecryptMiddleware, GzipMiddleware, LoggingMiddleware

LEMMA OthersWriters ==
  ASSUME Types, NEW c \in Clients, PoolInv(c), Step(c), NEW x \in Clients, x # c, PoolInv(x)
  PROVE  /\ gz'[x] = gz[x]
         /\ gz[x] # "nobody" =>
              /\ gz[x] \notin freeGz' /\ target'[gz[x]] = target[gz[x]]
              /\ stream'[gz[x]] = stream[gz[x]]
<1> USE DEF gzVars
<1>t. /\ gz \in [Clients -> Writers \cup {"nobody"}] /\ freeGz \subseteq Writers
      /\ target \in [Writers -> Clients \cup {"nobody"}]
      /\ stream \in [Writers -> Clients \cup {"nobody"}]
  BY DEF Types
<1>x. gz[x] # "nobody" => gz[x] \in Writers /\ gz[x] \notin freeGz /\ target[gz[x]] = x
  BY <1>t DEF PoolInv
<1>1. CASE UNCHANGED gzVars
  BY <1>1, <1>x
<1>2. CASE TakeWriter(c) /\ sent[c].accept
  <2>1. PICK w \in freeGz :
          /\ freeGz' = freeGz \ {w} /\ gz' = [gz EXCEPT ![c] = w]
          /\ target' = [target EXCEPT ![w] = c] /\ stream' = [stream EXCEPT ![w] = "nobody"]
    BY <1>2 DEF TakeWriter
  <2> QED BY <2>1, <1>x, <1>t
<1>3. CASE Serve(c) \/ Reject(c)
  <2>1. UNCHANGED <<gz, freeGz, target>>
    BY <1>3 DEF Serve, Reject
  <2>2. stream' = stream \/ (gz[c] # "nobody" /\ stream' = [stream EXCEPT ![gz[c]] = c])
    BY <1>3 DEF Serve, Reject, WriteMarkup, WriteNothing, WriteText
  <2>3. gz[c] # "nobody" => gz[c] # gz[x]
    BY <1>x DEF PoolInv
  <2> QED BY <2>1, <2>2, <2>3, <1>x, <1>t
<1>4. CASE CloseWriter(c)
  <2>1. CASE gz[c] = "nobody"
    BY <1>1, <1>4, <2>1 DEF CloseWriter
  <2>2. CASE gz[c] # "nobody"
    <3>1. /\ freeGz' = freeGz \cup {gz[c]} /\ gz' = [gz EXCEPT ![c] = "nobody"]
          /\ UNCHANGED <<target, stream>>
      BY <1>4, <2>2 DEF CloseWriter
    <3>2. gz[c] # gz[x]
      BY <2>2, <1>x DEF PoolInv
    <3> QED BY <3>1, <3>2, <1>x, <1>t
  <2> QED BY <2>1, <2>2
<1>5. CASE ~(GzipPasses(c) \/ GzipRefuses(c) \/ Serve(c) \/ Reject(c) \/ CloseWriter(c))
  <2>1. UNCHANGED gzVars
    BY <1>5 DEF Step, HashMiddleware, DecryptMiddleware, GzipMiddleware, LoggingMiddleware, Send,
       HashPasses, HashRefuses, finalize, DecryptPasses, Decrypt, DecryptRefuses, CloseReader,
       Log, LogRefuses
  <2> QED BY <2>1, <1>1
<1>6. CASE GzipPasses(c) \/ GzipRefuses(c)
  <2>1. TakeWriter(c)
    BY <1>6 DEF GzipPasses, GzipRefuses
  <2>2. ~sent[c].accept => UNCHANGED gzVars
    BY <2>1 DEF TakeWriter
  <2> QED BY <2>1, <2>2, <1>1, <1>2
<1> QED BY <1>3, <1>4, <1>5, <1>6

LEMMA OthersReaders ==
  ASSUME Types, NEW c \in Clients, PoolInv(c), Step(c), NEW x \in Clients, x # c, PoolInv(x)
  PROVE  /\ zr'[x] = zr[x]
         /\ zr[x] # "nobody" => zr[x] \notin freeZr' /\ source'[zr[x]] = source[zr[x]]
<1> USE DEF zrVars
<1>t. /\ zr \in [Clients -> Readers \cup {"nobody"}] /\ freeZr \subseteq Readers
      /\ source \in [Readers -> Clients \cup {"nobody"}]
  BY DEF Types
<1>x. zr[x] # "nobody" => zr[x] \in Readers /\ zr[x] \notin freeZr /\ source[zr[x]] = x
  BY <1>t DEF PoolInv
<1>1. CASE UNCHANGED zrVars
  BY <1>1, <1>x
<1>2. CASE GzipPasses(c)
  <2>1. CASE encoding[c] = "gzip"
    <3>1. PICK z \in freeZr : /\ freeZr' = freeZr \ {z} /\ zr' = [zr EXCEPT ![c] = z]
                              /\ source' = [source EXCEPT ![z] = c]
      BY <1>2, <2>1 DEF GzipPasses
    <3> QED BY <3>1, <1>x, <1>t
  <2>2. CASE encoding[c] # "gzip"
    BY <1>1, <1>2, <2>2 DEF GzipPasses
  <2> QED BY <2>1, <2>2
<1>3. CASE CloseReader(c)
  <2>1. /\ freeZr' = freeZr \cup ({zr[c]} \cap Readers) /\ zr' = [zr EXCEPT ![c] = "nobody"]
        /\ source' = source
    BY <1>3 DEF CloseReader
  <2>2. zr[x] # "nobody" => zr[c] # zr[x]
    BY <1>x DEF PoolInv
  <2> QED BY <2>1, <2>2, <1>x, <1>t
<1>4. CASE ~(GzipPasses(c) \/ CloseReader(c))
  <2>1. UNCHANGED zrVars
    BY <1>4 DEF Step, HashMiddleware, DecryptMiddleware, GzipMiddleware, LoggingMiddleware, Send,
       HashPasses, HashRefuses, finalize, DecryptPasses, Decrypt, DecryptRefuses, CloseWriter,
       Log, LogRefuses, GzipRefuses, Serve, Reject
  <2> QED BY <2>1, <1>1
<1> QED BY <1>2, <1>3, <1>4

LEMMA OthersKept ==
  ASSUME Types, NEW c \in Clients, PoolInv(c), Step(c), NEW x \in Clients, x # c, PoolInv(x)
  PROVE  Kept(x)
<1> USE DEF Goto
<1>t. /\ pc \in [Clients -> Layers] /\ sent \in [Clients -> Requests] /\ body \in [Clients -> Bodies]
      /\ encoding \in [Clients -> Encodings] /\ seen \in [Clients -> Bodies]
  BY DEF Types
<1>1. /\ \E p : pc' = [pc EXCEPT ![c] = p]
      /\ sent' = sent \/ \E r : sent' = [sent EXCEPT ![c] = r]
      /\ body' = body \/ \E b : body' = [body EXCEPT ![c] = b]
      /\ encoding' = encoding \/ \E e : encoding' = [encoding EXCEPT ![c] = e]
      /\ seen' = seen \/ \E b : seen' = [seen EXCEPT ![c] = b]
  <2>1. CASE Send(c)
    BY <2>1, Sending DEF Send
  <2>2. CASE HashMiddleware(c)
    BY <2>2 DEF HashMiddleware, HashPasses, HashRefuses, finalize
  <2>3. CASE DecryptPasses(c) \/ DecryptRefuses(c)
    BY <2>3 DEF DecryptPasses, DecryptRefuses
  <2>4. CASE Decrypt(c)
    <3>1. \E b : body' = [body EXCEPT ![c] = b]
      BY <2>4, Opening
    <3> QED BY <2>4, <3>1 DEF Decrypt
  <2>5. CASE GzipMiddleware(c)
    BY <2>5 DEF GzipMiddleware, GzipPasses, GzipRefuses, CloseReader, CloseWriter
  <2>6. CASE LoggingMiddleware(c)
    BY <2>6 DEF LoggingMiddleware, Log, LogRefuses
  <2>7. CASE Serve(c) \/ Reject(c)
    BY <2>7 DEF Serve, Reject
  <2> QED BY <2>1, <2>2, <2>3, <2>4, <2>5, <2>6, <2>7 DEF Step, DecryptMiddleware
<1>2. /\ sent'[x] = sent[x] /\ pc'[x] = pc[x] /\ body'[x] = body[x]
      /\ encoding'[x] = encoding[x] /\ seen'[x] = seen[x]
  BY <1>1, <1>t
<1> QED BY <1>2, OthersResponses, OthersWriters, OthersReaders DEF Kept

LEMMA KeptKeeps ==
  ASSUME NEW x \in Clients, ClientInv(x), Kept(x), UNCHANGED keyVars
  PROVE  ClientInv(x)'
<1> USE DEF keyVars
<1>0. /\ sent'[x] = sent[x] /\ pc'[x] = pc[x] /\ body'[x] = body[x] /\ encoding'[x] = encoding[x]
      /\ seen'[x] = seen[x] /\ resp'[x] = resp[x] /\ gz'[x] = gz[x] /\ zr'[x] = zr[x]
      /\ UNCHANGED <<key, cryptoKey, agentKey, pubKey>>
  BY DEF Kept
<1>1. PoolInv(x)'
  BY <1>0 DEF Kept, PoolInv, ClientInv
<1>2. SentInv(x)'
  BY <1>0 DEF SentInv, ClientInv, WellMade, AgentMade
<1>3. BodyInv(x)'
  BY <1>0 DEF BodyInv, ClientInv, Signed, Misdeclared
<1>4. SeenInv(x)'
  BY <1>0 DEF SeenInv, ClientInv, Served, Protected, Signed
<1>5. AgreedInv(x)'
  BY <1>0 DEF AgreedInv, ClientInv, Served, Agree
<1>6. StatusInv(x)'
  BY <1>0 DEF StatusInv, ClientInv, Served, Misdeclared
<1>7. MarkupInv(x)'
  BY <1>0 DEF Kept, MarkupInv, ClientInv, Sign
<1> QED BY <1>1, <1>2, <1>3, <1>4, <1>5, <1>6, <1>7 DEF ClientInv

----------------------------------------------------------------------------
(* What a step does to its own request.                                    *)

Moves(c, from, to) == pc[c] = from /\ pc'[c] = to

LEMMA Movements ==
  ASSUME Types, NEW c \in Clients
  PROVE  /\ Send(c) => Moves(c, "idle", "hash")
         /\ HashPasses(c) => Moves(c, "hash", "decrypt")
         /\ HashRefuses(c) => Moves(c, "hash", "done")
         /\ DecryptPasses(c) \/ Decrypt(c) => Moves(c, "decrypt", "gzip")
         /\ DecryptRefuses(c) => Moves(c, "decrypt", "finalize")
         /\ GzipPasses(c) => Moves(c, "gzip", "log")
         /\ GzipRefuses(c) => Moves(c, "gzip", "closeWriter")
         /\ Log(c) => Moves(c, "log", "handler")
         /\ LogRefuses(c) => Moves(c, "log", "closeReader")
         /\ Serve(c) \/ Reject(c) => Moves(c, "handler", "closeReader")
         /\ CloseReader(c) => Moves(c, "closeReader", "closeWriter")
         /\ CloseWriter(c) => Moves(c, "closeWriter", "finalize")
         /\ finalize(c) => Moves(c, "finalize", "done")
<1> USE DEF Goto, Moves
<1>t. pc \in [Clients -> Layers]
  BY DEF Types
<1>1. Send(c) => Moves(c, "idle", "hash")
  BY <1>t DEF Send
<1>2. /\ HashPasses(c) => Moves(c, "hash", "decrypt")
      /\ HashRefuses(c) => Moves(c, "hash", "done")
      /\ finalize(c) => Moves(c, "finalize", "done")
  BY <1>t DEF HashPasses, HashRefuses, finalize
<1>3. /\ DecryptPasses(c) \/ Decrypt(c) => Moves(c, "decrypt", "gzip")
      /\ DecryptRefuses(c) => Moves(c, "decrypt", "finalize")
  BY <1>t DEF DecryptPasses, Decrypt, DecryptRefuses
<1>4. /\ GzipPasses(c) => Moves(c, "gzip", "log")
      /\ GzipRefuses(c) => Moves(c, "gzip", "closeWriter")
      /\ CloseReader(c) => Moves(c, "closeReader", "closeWriter")
      /\ CloseWriter(c) => Moves(c, "closeWriter", "finalize")
  BY <1>t DEF GzipPasses, GzipRefuses, CloseReader, CloseWriter
<1>5. /\ Log(c) => Moves(c, "log", "handler")
      /\ LogRefuses(c) => Moves(c, "log", "closeReader")
      /\ Serve(c) \/ Reject(c) => Moves(c, "handler", "closeReader")
  BY <1>t DEF Log, LogRefuses, Serve, Reject
<1> QED BY <1>1, <1>2, <1>3, <1>4, <1>5

\* Once it is sent, a body keeps its writer, its size and whether it is damaged.
LEMMA BodyStays ==
  ASSUME Types, NEW c \in Clients, PoolInv(c), Step(c), ~Send(c)
  PROVE  /\ sent' = sent
         /\ body'[c].of = body[c].of /\ body'[c].intact = body[c].intact /\ body'[c].size = body[c].size
         /\ Serve(c) \/ seen' = seen
<1>t. body \in [Clients -> Bodies]
  BY DEF Types
<1>1. CASE Log(c)
  BY <1>1, <1>t, Reading DEF Log
<1>2. CASE Decrypt(c)
  <2>1. sent' = sent /\ seen' = seen
    BY <1>2 DEF Decrypt
  <2> QED BY <1>2, <2>1, <1>t, Opening
<1>3. CASE ~Log(c) /\ ~Decrypt(c)
  BY <1>3 DEF Step, HashMiddleware, DecryptMiddleware, GzipMiddleware, LoggingMiddleware,
     HashPasses, HashRefuses, finalize, DecryptPasses, DecryptRefuses, GzipPasses, GzipRefuses,
     CloseReader, CloseWriter, LogRefuses, Serve, Reject
<1> QED BY <1>1, <1>2, <1>3

LEMMA OwnPool ==
  ASSUME Types, NEW c \in Clients, PoolInv(c), Step(c)
  PROVE  PoolInv(c)'
<1> USE Names DEF gzVars, zrVars
<1>t. /\ gz \in [Clients -> Writers \cup {"nobody"}] /\ zr \in [Clients -> Readers \cup {"nobody"}]
      /\ freeGz \subseteq Writers /\ freeZr \subseteq Readers
      /\ target \in [Writers -> Clients \cup {"nobody"}]
      /\ source \in [Readers -> Clients \cup {"nobody"}]
  BY DEF Types
<1>1. TakeWriter(c) => (gz'[c] # "nobody" => gz'[c] \notin freeGz' /\ target'[gz'[c]] = c)
  <2>1. CASE sent[c].accept
    <3> SUFFICES ASSUME TakeWriter(c)
                 PROVE  gz'[c] # "nobody" => gz'[c] \notin freeGz' /\ target'[gz'[c]] = c
      OBVIOUS
    <3>1. PICK w \in freeGz :
            /\ freeGz' = freeGz \ {w} /\ gz' = [gz EXCEPT ![c] = w]
            /\ target' = [target EXCEPT ![w] = c]
      BY <2>1 DEF TakeWriter
    <3> QED BY <3>1, <1>t
  <2>2. CASE ~sent[c].accept
    BY <2>2 DEF TakeWriter, PoolInv
  <2> QED BY <2>1, <2>2
<1>2. CASE GzipPasses(c)
  <2>1. zr'[c] # "nobody" => zr'[c] \notin freeZr' /\ source'[zr'[c]] = c
    <3>1. CASE encoding[c] = "gzip"
      <4>1. PICK z \in freeZr : /\ freeZr' = freeZr \ {z} /\ zr' = [zr EXCEPT ![c] = z]
                                /\ source' = [source EXCEPT ![z] = c]
        BY <1>2, <3>1 DEF GzipPasses
      <4> QED BY <4>1, <1>t
    <3>2. CASE encoding[c] # "gzip"
      BY <1>2, <3>2 DEF GzipPasses, PoolInv
    <3> QED BY <3>1, <3>2
  <2>2. TakeWriter(c)
    BY <1>2 DEF GzipPasses
  <2> QED BY <2>1, <2>2, <1>1 DEF PoolInv
<1>3. CASE GzipRefuses(c)
  <2>1. TakeWriter(c) /\ UNCHANGED zrVars
    BY <1>3 DEF GzipRefuses
  <2> QED BY <2>1, <1>1 DEF PoolInv
<1>4. CASE CloseReader(c)
  BY <1>4, <1>t DEF CloseReader, PoolInv
<1>5. CASE CloseWriter(c)
  <2>1. UNCHANGED zrVars /\ gz'[c] = "nobody"
    BY <1>5, <1>t DEF CloseWriter
  <2> QED BY <2>1 DEF PoolInv
<1>6. CASE ~(GzipPasses(c) \/ GzipRefuses(c) \/ CloseReader(c) \/ CloseWriter(c))
  <2>1. UNCHANGED <<gz, freeGz, target, zrVars>>
    BY <1>6 DEF Step, HashMiddleware, DecryptMiddleware, GzipMiddleware, LoggingMiddleware, Send,
       HashPasses, HashRefuses, finalize, DecryptPasses, Decrypt, DecryptRefuses, Log, LogRefuses,
       Serve, Reject
  <2> QED BY <2>1 DEF PoolInv
<1> QED BY <1>2, <1>3, <1>4, <1>5, <1>6

LEMMA OwnSent ==
  ASSUME Types, NEW c \in Clients, PoolInv(c), SentInv(c), Step(c)
  PROVE  SentInv(c)'
<1>k. UNCHANGED <<key, cryptoKey, agentKey, pubKey>>
  BY KeysStay DEF keyVars
<1>t. sent \in [Clients -> Requests]
  BY DEF Types
<1>1. CASE Send(c)
  <2>1. PICK r \in Requests : /\ sent' = [sent EXCEPT ![c] = r]
                              /\ WellMade(c, r) /\ (c \in Agents => AgentMade(c, r))
    BY <1>1, Sending
  <2>2. sent'[c] = r
    BY <2>1, <1>t
  <2> QED BY <2>1, <2>2, <1>k DEF SentInv, WellMade, AgentMade
<1>2. CASE ~Send(c)
  <2>1. sent' = sent
    BY <1>2, BodyStays
  <2>2. pc[c] # "idle"
    BY <1>2 DEF Step, HashMiddleware, DecryptMiddleware, GzipMiddleware, LoggingMiddleware,
       HashPasses, HashRefuses, finalize, DecryptPasses, Decrypt, DecryptRefuses, Log, LogRefuses,
       GzipPasses, GzipRefuses, CloseReader, CloseWriter, Serve, Reject
  <2> QED BY <2>1, <2>2, <1>k DEF SentInv, WellMade, AgentMade
<1> QED BY <1>1, <1>2

\* A signature that fits a body was made for it.
LEMMA FittingSignature ==
  ASSUME Types, NEW c \in Clients, WellMade(c, sent[c]), key # NoKey, Signed(c), SignatureFits(c)
  PROVE  body[c] = sent[c].body /\ body[c].intact
<1>1. PICK k \in SigningKeys \cup {NoKey} : sent[c].hash = Signature(k, sent[c].body)
  BY DEF WellMade
<1>2. sent[c].body \in Bodies /\ body[c] \in Bodies /\ key \in SigningKeys \cup {NoKey}
  BY DEF Types, Requests
<1>3. k # NoKey
  BY <1>1 DEF Signed, Signature
<1>4. Signature(k, sent[c].body).of = sent[c].body
  BY <1>2, <1>3, SignatureTypes
<1>5. Signature(key, body[c]).of = body[c]
  BY <1>2, SignatureTypes
<1>6. body[c] = sent[c].body
  BY <1>1, <1>4, <1>5 DEF SignatureFits
<1>7. sent[c].body.intact
  BY BodyOfNobody DEF WellMade
<1> QED BY <1>6, <1>7

LEMMA OwnBody ==
  ASSUME Types, NEW c \in Clients, PoolInv(c), SentInv(c), BodyInv(c), MarkupInv(c), Step(c)
  PROVE  BodyInv(c)'
<1> USE DEF Moves
<1>k. key' = key
  BY KeysStay DEF keyVars
<1>t. /\ body \in [Clients -> Bodies] /\ sent \in [Clients -> Requests]
      /\ encoding \in [Clients -> Encodings]
      /\ zr \in [Clients -> Readers \cup {"nobody"}] /\ freeZr \subseteq Readers
  BY DEF Types
<1>1. CASE Send(c)
  <2>1. PICK r \in Requests, b \in Bodies :
           /\ sent' = [sent EXCEPT ![c] = r] /\ body' = [body EXCEPT ![c] = b]
           /\ encoding' = [encoding EXCEPT ![c] = r.encoding]
           /\ b.of = r.body.of /\ b.sealed = r.body.sealed /\ b.zipped = r.body.zipped
           /\ b.size = r.body.size /\ (r.body = NoBody => b = NoBody)
    BY <1>1, Sending
  <2>2. sent'[c] = r /\ body'[c] = b /\ encoding'[c] = r.encoding /\ pc'[c] = "hash"
    BY <2>1, <1>1, <1>t, Movements
  <2> QED BY <2>1, <2>2 DEF BodyInv
<1>s. ASSUME ~Send(c)
      PROVE  /\ sent' = sent /\ body'[c].of = sent'[c].body.of /\ body'[c].size = sent'[c].body.size
             /\ Signed(c)' <=> Signed(c)
  BY <1>s, BodyStays DEF BodyInv, Signed
<1>w. pc[c] # "idle" => WellMade(c, sent[c])
  BY DEF SentInv
\* A step outwards: the body is no longer looked at.
<1>o. ASSUME UNCHANGED <<sent, body>>, pc'[c] \in Outward
      PROVE  BodyInv(c)'
  BY <1>o DEF BodyInv, Outward
<1>2. CASE HashPasses(c)
  <2>1. UNCHANGED <<sent, body, encoding>> /\ pc[c] = "hash" /\ pc'[c] = "decrypt"
    BY <1>2, Movements DEF HashPasses
  <2>2. key # NoKey /\ Signed(c) => body[c].intact
    <3>1. key # NoKey /\ Signed(c) => SignatureFits(c)
      BY <1>2 DEF HashPasses
    <3> QED BY <3>1, <2>1, <1>w, FittingSignature
  <2>3. Signed(c)' <=> Signed(c)
    BY <2>1 DEF Signed
  <2> QED BY <2>1, <2>2, <2>3, <1>k DEF BodyInv
<1>3. CASE HashRefuses(c) \/ DecryptRefuses(c) \/ GzipRefuses(c) \/ LogRefuses(c) \/ Serve(c)
           \/ Reject(c) \/ CloseReader(c) \/ CloseWriter(c) \/ finalize(c)
  <2>1. UNCHANGED <<sent, body>>
    BY <1>3 DEF HashRefuses, DecryptRefuses, GzipRefuses, LogRefuses, Serve, Reject,
       CloseReader, CloseWriter, finalize
  <2>2. pc'[c] \in Outward
    BY <1>3, Movements DEF Outward
  <2> QED BY <2>1, <2>2, <1>o
<1>4. CASE DecryptPasses(c)
  <2>1. UNCHANGED <<sent, body, encoding>> /\ pc[c] = "decrypt" /\ pc'[c] = "gzip"
    BY <1>4, Movements DEF DecryptPasses
  <2>2. encoding[c] = "gzip" => (body[c].zipped /\ body[c].sealed = NoKey) \/ Misdeclared(c)
    BY <2>1, <1>w DEF BodyInv, WellMade, Misdeclared
  <2>a. c \in Agents /\ body[c].sealed = NoKey => encoding[c] = "gzip"
    BY <2>1 DEF BodyInv, SentInv, AgentMade
  <2>3. (Signed(c)' <=> Signed(c)) /\ (Misdeclared(c)' <=> Misdeclared(c))
    BY <2>1 DEF Signed, Misdeclared
  <2> QED BY <2>1, <2>2, <2>a, <2>3, <1>k DEF BodyInv
<1>5. CASE Decrypt(c)
  <2>1. sent' = sent /\ pc[c] = "decrypt" /\ pc'[c] = "gzip"
    BY <1>5, Movements DEF Decrypt
  <2>2. PICK b \in Bodies :
           /\ body' = [body EXCEPT ![c] = b]
           /\ b.of = body[c].of /\ b.sealed = NoKey /\ b.zipped = body[c].zipped
           /\ b.intact = body[c].intact /\ b.size = body[c].size
    BY <1>5, Opening
  <2>3. body'[c] = b
    BY <2>2, <1>t
  <2>4. body[c].sealed # NoKey /\ body[c].sealed = sent[c].body.sealed
    BY <1>5, <2>1 DEF Decrypt, Opens, BodyInv
  <2>5. b.zipped = sent[c].body.zipped /\ b.zipped
    BY <2>1, <2>2, <2>4, <1>w DEF BodyInv, WellMade
  <2>6. encoding'[c] = "gzip"
    <3>1. sent[c].payloadEncoding = "gzip"
      BY <2>1, <2>4, <1>w DEF WellMade
    <3> QED BY <1>5, <3>1, <1>t DEF Decrypt
  <2>7. sent[c].body # NoBody
    BY <2>4, <2>5, BodyOfNobody
  <2>8. key' # NoKey /\ Signed(c)' => b.intact
    BY <2>1, <2>2, <1>k DEF BodyInv, Signed
  <2> QED BY <2>1, <2>2, <2>3, <2>5, <2>6, <2>7, <2>8 DEF BodyInv
<1>6. CASE GzipPasses(c)
  <2>1. UNCHANGED <<sent, body, encoding>> /\ pc[c] = "gzip" /\ pc'[c] = "log"
    BY <1>6, Movements DEF GzipPasses
  <2>2. zr'[c] # "nobody" <=> encoding[c] = "gzip"
    <3>1. CASE encoding[c] = "gzip"
      <4>1. PICK z \in freeZr : zr' = [zr EXCEPT ![c] = z]
        BY <1>6, <3>1 DEF GzipPasses
      <4> QED BY <3>1, <4>1, <1>t, Names
    <3>2. CASE encoding[c] # "gzip"
      BY <1>6, <2>1, <3>2 DEF GzipPasses, zrVars, MarkupInv
    <3> QED BY <3>1, <3>2
  <2>3. (Signed(c)' <=> Signed(c)) /\ (Misdeclared(c)' <=> Misdeclared(c))
    BY <2>1 DEF Signed, Misdeclared
  <2>4. encoding[c] = "gzip" => body[c].zipped /\ body[c].sealed = NoKey
    BY <1>6 DEF GzipPasses, GzipHeader
  <2> QED BY <2>1, <2>2, <2>3, <2>4, <1>k DEF BodyInv
<1>7. CASE Log(c)
  <2>1. sent' = sent /\ pc[c] = "log" /\ pc'[c] = "handler" /\ body'[c] = Read(c)
    BY <1>7, <1>t, Movements DEF Log
  <2> DEFINE b == Read(c)
  <2> DEFINE s == sent[c].body
  <2>2. /\ b.of = body[c].of /\ b.sealed = body[c].sealed /\ b.intact = body[c].intact
        /\ b.size = body[c].size /\ (zr[c] = "nobody" => b = body[c])
        /\ (zr[c] # "nobody" => b.zipped = FALSE)
    BY Reading
  <2>3. /\ zr[c] = "nobody" => b.size # "large"
        /\ zr[c] # "nobody" => b.intact /\ b.size = "small"
    BY <1>7, <2>2 DEF Log, TooLarge
  <2>b. /\ b.of = s.of /\ b.size = s.size
        /\ key # NoKey /\ Signed(c) => b.intact
        /\ s = NoBody => body[c] = NoBody
        /\ body[c].zipped = s.zipped
        /\ zr[c] # "nobody" => body[c].zipped
    BY <2>1, <2>2 DEF BodyInv
  <2>a. c \in Agents /\ body[c].sealed = NoKey => zr[c] # "nobody"
    BY <2>1 DEF BodyInv
  <2> HIDE DEF b
  <2>4. s = NoBody => b = NoBody
    BY <2>2, <2>b, BodyOfNobody
  <2>5. b.size # "large" /\ (c \in Agents /\ b.sealed = NoKey => ~b.zipped)
    BY <2>2, <2>3, <2>a
  <2>6. s.zipped /\ ~b.zipped => b.intact /\ b.size = "small"
    BY <2>2, <2>3, <2>b
  <2>7. Signed(c)' <=> Signed(c)
    BY <2>1 DEF Signed
  <2>8. body'[c] = b
    BY <2>1 DEF b
  <2> QED BY <2>1, <2>b, <2>4, <2>5, <2>6, <2>7, <2>8, <1>k DEF BodyInv
<1> QED BY <1>1, <1>2, <1>3, <1>4, <1>5, <1>6, <1>7
        DEF Step, HashMiddleware, DecryptMiddleware, GzipMiddleware, LoggingMiddleware

LEMMA OwnSeen ==
  ASSUME Types, NEW c \in Clients, PoolInv(c), SentInv(c), BodyInv(c), SeenInv(c), Step(c)
  PROVE  SeenInv(c)'
<1> USE DEF Moves
<1>k. key' = key
  BY KeysStay DEF keyVars
<1>t. /\ body \in [Clients -> Bodies] /\ seen \in [Clients -> Bodies] /\ sent \in [Clients -> Requests]
  BY DEF Types
<1>1. CASE Send(c)
  <2>1. pc[c] = "idle" /\ seen' = seen
    BY <1>1, Movements DEF Send
  <2> QED BY <2>1 DEF SeenInv, Served, Inward
<1>2. CASE Serve(c)
  <2> DEFINE b == body[c]
  <2> DEFINE s == sent[c].body
  <2>1. /\ sent' = sent /\ pc[c] = "handler" /\ pc'[c] = "closeReader" /\ seen'[c] = b
        /\ sent[c].route \in WithBody => ~b.zipped /\ b.sealed = NoKey
    <3>1. /\ sent' = sent /\ seen' = [seen EXCEPT ![c] = body[c]]
          /\ sent[c].route \in WithBody => IsText(body[c])
      BY <1>2 DEF Serve
    <3>2. seen'[c] = b
      BY <3>1, <1>t
    <3>3. pc[c] = "handler" /\ pc'[c] = "closeReader"
      BY <1>2, Movements
    <3> QED BY <3>1, <3>2, <3>3 DEF IsText
  <2>2. /\ b.of = s.of /\ b.size = s.size /\ (s = NoBody => b = NoBody)
        /\ key # NoKey /\ Signed(c) => b.intact
        /\ b.size # "large" /\ (s.zipped /\ ~b.zipped => b.intact /\ b.size = "small")
    BY <2>1 DEF BodyInv
  <2>3. /\ IF sent[c].route \in WithBody THEN s.of = c ELSE s = NoBody
        /\ s.sealed # NoKey \/ s.size = "inflates" => s.zipped
    BY <2>1 DEF SentInv, WellMade
  <2>4. ASSUME b # NoBody, s.zipped \/ s.sealed # NoKey \/ (key # NoKey /\ Signed(c))
        PROVE  b = Text(c, "small")
    <3>1. b \in Bodies /\ b.of = c /\ ~b.zipped /\ b.sealed = NoKey
      BY <2>1, <2>2, <2>3, <2>4, <1>t
    <3>2. b.intact
      BY <2>2, <2>3, <2>4, <3>1
    <3>3. b.size \in {"small", "inflates", "large"}
      BY <3>1 DEF Bodies
    <3>4. b.size = "small"
      BY <2>2, <2>3, <3>1, <3>3
    <3>5. b.zipped \in BOOLEAN /\ b.intact \in BOOLEAN
      BY <3>1 DEF Bodies
    <3>6. /\ Text(c, "small") \in Bodies /\ Text(c, "small").of = c
          /\ Text(c, "small").sealed = NoKey /\ Text(c, "small").zipped = FALSE
          /\ Text(c, "small").intact = TRUE /\ Text(c, "small").size = "small"
      <4>1. "small" \in {"small", "inflates", "large"}
        OBVIOUS
      <4> QED BY <4>1, BodyOf, Zenon
    <3>7. b.zipped = FALSE /\ b.intact = TRUE
      BY <3>1, <3>2, <3>5
    <3> HIDE DEF b
    <3> QED BY <3>1, <3>4, <3>6, <3>7, SameBody
  <2>5. Protected(c)' <=> (s.zipped \/ s.sealed # NoKey \/ (key # NoKey /\ Signed(c)))
    BY <2>1, <1>k DEF Protected, Signed
  <2>6. Served(c)' <=> b # NoBody
    BY <2>1 DEF Served
  <2> HIDE DEF b, s
  <2>7. Served(c)' /\ Protected(c)' => b = Text(c, "small")
    BY <2>4, <2>5, <2>6
  <2>8. Served(c)' /\ Protected(c)' => seen'[c] = Text(c, "small")
    BY <2>1, <2>7
  <2> QED BY <2>1, <2>8 DEF SeenInv, Inward
<1>3. CASE ~Send(c) /\ ~Serve(c)
  <2>1. sent' = sent /\ seen' = seen
    BY <1>3, BodyStays
  <2>2. pc'[c] \in Inward => pc[c] \in Inward
    BY <1>3, Movements DEF Inward, Step, HashMiddleware, DecryptMiddleware, GzipMiddleware,
       LoggingMiddleware
  <2> QED BY <2>1, <2>2, <1>k DEF SeenInv, Served, Protected, Signed
<1> QED BY <1>1, <1>2, <1>3

LEMMA OwnAgreed ==
  ASSUME Types, NEW c \in Clients, PoolInv(c), SentInv(c), BodyInv(c), AgreedInv(c), Step(c)
  PROVE  AgreedInv(c)'
<1> USE DEF Moves
<1>k. UNCHANGED <<key, cryptoKey, agentKey, pubKey>>
  BY KeysStay DEF keyVars
<1>t. /\ body \in [Clients -> Bodies] /\ seen \in [Clients -> Bodies] /\ sent \in [Clients -> Requests]
  BY DEF Types
<1> SUFFICES ASSUME c \in Agents, Agree(c)', body'[c].intact, sent'[c].body.size = "small"
             PROVE  /\ pc'[c] \in {"gzip", "log", "handler"} => body'[c].sealed = NoKey
                    /\ pc'[c] \in Outward => Served(c)'
  BY DEF AgreedInv
<1>a. Agree(c)
  BY <1>k DEF Agree
<1>1. CASE Send(c)
  BY <1>1, Movements DEF Outward
<1>2. CASE ~Send(c)
  <2> DEFINE b == body[c]
  <2> DEFINE s == sent[c].body
  <2>0. /\ sent' = sent /\ b.intact /\ s.size = "small" /\ (Serve(c) \/ seen' = seen)
    BY <1>2, BodyStays
  <2>p. pc[c] # "idle"
    BY <1>2, Movements DEF Step, HashMiddleware, DecryptMiddleware, GzipMiddleware, LoggingMiddleware
  <2>1. /\ sent[c].route \in WithBody /\ s.of = c /\ s.sealed = pubKey[c] /\ s.zipped
        /\ s # NoBody /\ s.intact
        /\ sent[c].hash = Signature(agentKey[c], s)
    BY <2>p, BodyOfNobody, Names DEF SentInv, WellMade, AgentMade, WithBody
  <2>2. b.of = c /\ b # NoBody /\ b.size = "small"
    BY <2>0, <2>1, BodyOfNobody, Names DEF BodyInv
  <2>3. /\ pc[c] \in {"gzip", "log", "handler"} => b.sealed = NoKey
        /\ pc[c] \in Outward => Served(c)
    BY <1>a, <2>0 DEF AgreedInv
  <2>4. pc[c] \in {"hash", "decrypt"} => b = s
    <3> SUFFICES ASSUME pc[c] \in {"hash", "decrypt"} PROVE b = s
      OBVIOUS
    <3>1. b.sealed = s.sealed /\ b.zipped = s.zipped /\ b.of = s.of /\ b.size = s.size
      BY DEF BodyInv
    <3>2. b \in Bodies /\ s \in Bodies
      BY <1>t DEF Requests
    <3>3. b.intact = s.intact
      BY <2>0, <2>1, <3>2 DEF Bodies
    <3> HIDE DEF b, s
    <3> QED BY <3>1, <3>2, <3>3, SameBody
  <2>5. ~HashRefuses(c)
    <3> SUFFICES ASSUME HashRefuses(c) PROVE FALSE
      OBVIOUS
    <3>1. pc[c] = "hash" /\ key # NoKey /\ (b.size = "large" \/ (Signed(c) /\ ~SignatureFits(c)))
      BY DEF HashRefuses
    <3>2. Signed(c) /\ ~SignatureFits(c) /\ b = s
      BY <2>2, <2>4, <3>1
    <3>3. agentKey[c] # NoKey
      BY <2>1, <3>2 DEF Signed, Signature
    <3>4. agentKey[c] = key
      BY <1>a, <3>1, <3>3 DEF Agree
    <3> QED BY <2>1, <3>2, <3>4 DEF SignatureFits
  <2>6. ~DecryptRefuses(c)
    <3> SUFFICES ASSUME DecryptRefuses(c) PROVE FALSE
      OBVIOUS
    <3>1. pc[c] = "decrypt" /\ (b.size = "large" \/ ~Opens(c))
      BY DEF DecryptRefuses
    <3>2. b.sealed = cryptoKey
      BY <1>a, <2>1, <2>4, <3>1 DEF Agree
    <3> QED BY <2>0, <2>2, <3>1, <3>2 DEF Opens
  <2>7. ~GzipRefuses(c)
    <3> SUFFICES ASSUME GzipRefuses(c) PROVE FALSE
      OBVIOUS
    <3>1. pc[c] = "gzip" /\ (~GzipHeader(c) \/ ~b.intact)
      BY DEF GzipRefuses
    <3>2. b.zipped /\ b.sealed = NoKey
      BY <2>1, <2>3, <3>1 DEF BodyInv
    <3> QED BY <2>0, <3>1, <3>2 DEF GzipHeader
  <2>8. ~LogRefuses(c)
    <3> SUFFICES ASSUME LogRefuses(c) PROVE FALSE
      OBVIOUS
    <3>1. pc[c] = "log" /\ (TooLarge(c) \/ (zr[c] # "nobody" /\ ~Read(c).intact))
      BY DEF LogRefuses
    <3>2. Read(c).intact = b.intact /\ Read(c).size = "small"
      BY <2>2, Reading
    <3> QED BY <2>0, <2>2, <3>1, <3>2 DEF TooLarge
  <2>9. ~Reject(c)
    <3> SUFFICES ASSUME Reject(c) PROVE FALSE
      OBVIOUS
    <3>1. pc[c] = "handler" /\ (~IsText(b) \/ ~b.intact)
      BY DEF Reject
    <3>2. b.sealed = NoKey /\ ~b.zipped
      BY <2>3, <3>1 DEF BodyInv
    <3> QED BY <2>0, <3>1, <3>2 DEF IsText
  <2>10. CASE HashPasses(c)
    BY <2>10, Movements DEF Outward
  <2>11. CASE DecryptPasses(c)
    <3>1. body' = body /\ pc[c] = "decrypt" /\ pc'[c] = "gzip" /\ cryptoKey = NoKey
      BY <2>2, <2>11, Movements DEF DecryptPasses
    <3>2. b.sealed = NoKey
      BY <1>a, <2>1, <2>4, <3>1 DEF Agree
    <3> QED BY <3>1, <3>2 DEF Outward
  <2>12. CASE Decrypt(c)
    <3>1. pc'[c] = "gzip"
      BY <2>12, Movements
    <3>2. body'[c].sealed = NoKey
      BY <2>12, <1>t, Opening
    <3> QED BY <3>1, <3>2 DEF Outward
  <2>13. CASE GzipPasses(c)
    <3>1. pc[c] = "gzip" /\ pc'[c] = "log" /\ body' = body
      BY <2>13, Movements DEF GzipPasses
    <3> QED BY <2>3, <3>1 DEF Outward
  <2>14. CASE Log(c)
    <3>1. pc[c] = "log" /\ pc'[c] = "handler" /\ body'[c] = Read(c)
      BY <2>14, <1>t, Movements DEF Log
    <3>2. Read(c).sealed = b.sealed
      BY Reading
    <3> QED BY <2>3, <3>1, <3>2 DEF Outward
  <2>15. CASE Serve(c)
    <3>0. pc'[c] = "closeReader"
      BY <2>15, Movements
    <3>1. seen'[c] = b
      <4>1. seen' = [seen EXCEPT ![c] = body[c]]
        BY <2>15 DEF Serve
      <4> QED BY <4>1, <1>t
    <3> QED BY <2>2, <3>0, <3>1 DEF Served
  <2>16. CASE CloseReader(c) \/ CloseWriter(c) \/ finalize(c)
    <3>1. pc[c] \in Outward /\ pc'[c] \in Outward
      BY <2>16, Movements DEF Outward
    <3>2. seen' = seen
      BY <2>16 DEF CloseReader, CloseWriter, finalize
    <3> QED BY <2>3, <3>1, <3>2 DEF Served, Outward
  <2> QED BY <1>2, <2>5, <2>6, <2>7, <2>8, <2>9, <2>10, <2>11, <2>12, <2>13, <2>14, <2>15, <2>16
          DEF Step, HashMiddleware, DecryptMiddleware, GzipMiddleware, LoggingMiddleware
<1> QED BY <1>1, <1>2

LEMMA OwnStatus ==
  ASSUME Types, NEW c \in Clients, PoolInv(c), SentInv(c), BodyInv(c), SeenInv(c), StatusInv(c),
         Step(c)
  PROVE  StatusInv(c)'
<1> USE DEF Moves
<1>t. /\ body \in [Clients -> Bodies] /\ seen \in [Clients -> Bodies] /\ sent \in [Clients -> Requests]
  BY DEF Types
<1> SUFFICES ASSUME pc'[c] \in Outward, body'[c].intact, sent'[c].route \in WithBody, ~Served(c)'
             PROVE  resp'[c].status \in {400, 413} \/ (resp'[c].status = 500 /\ Misdeclared(c))
  <2>1. (pc'[c] \in Outward /\ ~Served(c)') => (Misdeclared(c)' <=> Misdeclared(c))
    BY Movements, BodyStays DEF Outward, Misdeclared
  <2> QED BY <2>1 DEF StatusInv
<1>n. 400 \in Nat /\ 413 \in Nat
  OBVIOUS
<1>e. ASSUME NEW s \in Nat, s \in {400, 413}, Error(c, s)
      PROVE  resp'[c].status \in {400, 413}
  <2>2. Answers(c, s, "text", resp[c].encoding, Append(resp[c].parts, Part(FALSE, c)), resp[c].hash)
    <3>1. Error(c, s)
      BY <1>e
    <3> QED BY <3>1, TextAnswers, Zenon
  <2>3. resp'[c].status = s
    BY <2>2 DEF Answers
  <2> QED BY <1>e, <2>3
<1>1. ~Send(c)
  BY Movements DEF Outward
<1>2. sent' = sent /\ body[c].intact
  BY <1>1, BodyStays
<1>3. CASE HashRefuses(c) \/ DecryptRefuses(c)
  <2>1. \E s \in {400, 413} : Error(c, s)
    BY <1>3 DEF HashRefuses, DecryptRefuses
  <2> QED BY <2>1, <1>e
<1>4. CASE GzipRefuses(c)
  <2>1. pc[c] = "gzip" /\ encoding[c] = "gzip" /\ ~GzipHeader(c)
    BY <1>2, <1>4 DEF GzipRefuses
  <2>2. Misdeclared(c)
    BY <2>1 DEF BodyInv, GzipHeader
  <2>3. Error(c, 500)
    BY <1>4 DEF GzipRefuses
  <2>4. Answers(c, 500, "text", resp[c].encoding, Append(resp[c].parts, Part(FALSE, c)), resp[c].hash)
    <3>1. 500 \in Nat
      OBVIOUS
    <3> QED BY <2>3, <3>1, TextAnswers, Zenon
  <2> QED BY <2>2, <2>4 DEF Answers
<1>5. CASE LogRefuses(c)
  <2>1. Read(c).intact
    BY <1>2, Reading
  <2>2. Error(c, 413)
    BY <1>5, <2>1 DEF LogRefuses
  <2> QED BY <2>2, <1>e
<1>6. ~Serve(c)
  <2> SUFFICES ASSUME Serve(c) PROVE FALSE
    OBVIOUS
  <2>1. seen' = [seen EXCEPT ![c] = body[c]] /\ pc[c] = "handler"
    BY DEF Serve
  <2>2. seen'[c] = body[c]
    BY <2>1, <1>t
  <2>3. body[c].of = c
    BY <1>2, <2>1 DEF SentInv, WellMade, BodyInv
  <2>4. body[c] # NoBody
    BY <2>3, BodyOfNobody, Names
  <2> QED BY <2>2, <2>4 DEF Served
<1>7. CASE Reject(c)
  <2>1. WriteText(c, 400)
    BY <1>7 DEF Reject
  <2>2. Error(c, 400)
    BY <2>1 DEF WriteText, Error
  <2> QED BY <2>2, <1>e
<1>8. CASE CloseReader(c) \/ CloseWriter(c) \/ finalize(c)
  <2>1. resp'[c].status = resp[c].status
    <3>1. CASE CloseReader(c)
      BY <3>1 DEF CloseReader
    <3>2. CASE CloseWriter(c)
      <4>1. CASE gz[c] = "nobody"
        BY <3>2, <4>1 DEF CloseWriter
      <4>2. CASE gz[c] # "nobody"
        <5>1. \E t, e, p, h : Answers(c, resp[c].status, t, e, p, h)
          BY <3>2, <4>2, ClosingAnswers, Zenon
        <5> QED BY <5>1 DEF Answers
      <4> QED BY <4>1, <4>2
    <3>3. CASE finalize(c)
      <4>1. \E t, e, p, h : Answers(c, resp[c].status, t, e, p, h)
        BY <3>3, SigningAnswers, Zenon
      <4> QED BY <4>1 DEF Answers
    <3> QED BY <1>8, <3>1, <3>2, <3>3
  <2>2. pc[c] \in Outward
    BY <1>8, Movements DEF Outward
  <2>3. seen' = seen
    BY <1>8 DEF CloseReader, CloseWriter, finalize
  <2>4. ~Served(c)
    BY <2>3 DEF Served
  <2>5. resp[c].status \in {400, 413} \/ (resp[c].status = 500 /\ Misdeclared(c))
    BY <1>2, <2>2, <2>4 DEF StatusInv
  <2> QED BY <2>1, <2>5
<1>9. ~(HashPasses(c) \/ DecryptPasses(c) \/ Decrypt(c) \/ GzipPasses(c) \/ Log(c))
  BY Movements DEF Outward
<1> QED BY <1>1, <1>3, <1>4, <1>5, <1>6, <1>7, <1>8, <1>9
        DEF Step, HashMiddleware, DecryptMiddleware, GzipMiddleware, LoggingMiddleware

LEMMA OwnMarkup ==
  ASSUME Types, NEW c \in Clients, PoolInv(c), MarkupInv(c), Step(c)
  PROVE  MarkupInv(c)'
<1> USE DEF Moves
<1>k. key' = key
  BY KeysStay DEF keyVars
<1>t. /\ gz \in [Clients -> Writers \cup {"nobody"}] /\ zr \in [Clients -> Readers \cup {"nobody"}]
      /\ stream \in [Writers -> Clients \cup {"nobody"}] /\ freeGz \subseteq Writers
      /\ resp \in [Clients -> Responses]
  BY DEF Types
\* A plain answer, or a bare status, is no markup.
<1>p. ASSUME pc'[c] \in Outward, resp'[c].type \in {"", "text"}
      PROVE  MarkupInv(c)'
  BY <1>p DEF MarkupInv, Inward, Outward
<1>e. ASSUME NEW s \in Nat, Error(c, s), pc'[c] \in Outward
      PROVE  MarkupInv(c)'
  <2>1. \E e, p, h : Answers(c, s, "text", e, p, h)
    BY <1>e, TextAnswers, Zenon
  <2>2. resp'[c].type = "text"
    BY <2>1 DEF Answers
  <2> QED BY <2>2, <1>e, <1>p
<1>1. CASE Send(c)
  <2>1. /\ pc[c] = "idle" /\ pc'[c] = "hash" /\ UNCHANGED <<resp, gz, zr>>
    BY <1>1, Movements DEF Send, gzVars, zrVars
  <2> QED BY <2>1 DEF MarkupInv, Inward, Outward
<1>2. CASE HashPasses(c) \/ DecryptPasses(c) \/ Decrypt(c)
  <2>1. /\ pc[c] \in {"hash", "decrypt"} /\ pc'[c] \in {"decrypt", "gzip"} /\ UNCHANGED <<resp, gz, zr>>
    BY <1>2, Movements DEF HashPasses, DecryptPasses, Decrypt, gzVars, zrVars
  <2> QED BY <2>1 DEF MarkupInv, Inward, Outward
<1>3. CASE HashRefuses(c) \/ DecryptRefuses(c) \/ GzipRefuses(c) \/ LogRefuses(c)
  <2>1. \E s \in {400, 413, 500} : Error(c, s)
    BY <1>3 DEF HashRefuses, DecryptRefuses, GzipRefuses, LogRefuses
  <2>2. {400, 413, 500} \subseteq Nat
    OBVIOUS
  <2>3. pc'[c] \in Outward
    BY <1>3, Movements DEF Outward
  <2> QED BY <2>1, <2>2, <2>3, <1>e
<1>4. CASE GzipPasses(c)
  <2>1. /\ pc[c] = "gzip" /\ pc'[c] = "log" /\ UNCHANGED <<resp, sent>>
    BY <1>4, Movements DEF GzipPasses
  <2>2. sent[c].accept => gz'[c] # "nobody"
    <3> SUFFICES ASSUME sent[c].accept PROVE gz'[c] # "nobody"
      OBVIOUS
    <3>1. PICK w \in freeGz : gz' = [gz EXCEPT ![c] = w]
      BY <1>4 DEF GzipPasses, TakeWriter
    <3> QED BY <3>1, <1>t, Names
  <2> QED BY <2>1, <2>2 DEF MarkupInv, Inward, Outward
<1>5. CASE Log(c)
  <2>1. /\ pc[c] = "log" /\ pc'[c] = "handler" /\ UNCHANGED <<resp, sent, gz>>
    BY <1>5, Movements DEF Log, gzVars
  <2> QED BY <2>1 DEF MarkupInv, Inward, Outward
<1>6. CASE Reject(c)
  <2>1. WriteText(c, 400)
    BY <1>6 DEF Reject
  <2>2. Error(c, 400) /\ pc'[c] \in Outward /\ 400 \in Nat
    BY <1>6, <2>1, Movements DEF WriteText, Error, Outward
  <2> QED BY <2>2, <1>e
<1>7. CASE Serve(c)
  <2>1. /\ pc[c] = "handler" /\ pc'[c] = "closeReader"
    BY <1>7, Movements
  <2>2. UNCHANGED <<sent, gz>>
    BY <1>7 DEF Serve
  <2>3. resp[c] = NoResponse /\ (sent[c].accept => gz[c] # "nobody")
    BY <2>1 DEF MarkupInv, Inward
  <2>4. \/ \E s \in {200, 400, 404, 500} : WriteNothing(c, s) \/ WriteText(c, s)
        \/ \E type \in {"json", "html"} : WriteMarkup(c, 200, type)
    BY <1>7 DEF Serve
  <2>n. {200, 400, 404, 500} \subseteq Nat
    OBVIOUS
  <2>5. ASSUME NEW s \in Nat, WriteNothing(c, s)
        PROVE  MarkupInv(c)'
    <3>1. \E e, p, h : Answers(c, s, resp[c].type, e, p, h)
      BY <2>5, StatusAnswers, Zenon
    <3>2. resp'[c].type = resp[c].type
      BY <3>1 DEF Answers
    <3>3. resp'[c].type = ""
      BY <2>3, <3>2, NoResponseFields
    <3> QED BY <2>1, <3>3, <1>p DEF Outward
  <2>6. ASSUME NEW s \in Nat, WriteText(c, s)
        PROVE  MarkupInv(c)'
    <3>1. Error(c, s) /\ pc'[c] \in Outward
      BY <2>1, <2>6 DEF WriteText, Error, Outward
    <3> QED BY <3>1, <1>e
  <2>7. ASSUME NEW type \in {"json", "html"}, WriteMarkup(c, 200, type)
        PROVE  MarkupInv(c)'
    <3> SUFFICES ASSUME sent[c].accept
                 PROVE  /\ resp'[c].encoding = "gzip" /\ resp'[c].parts = <<>>
                        /\ gz'[c] # "nobody" /\ stream'[gz'[c]] = c
      BY <2>1, <2>2 DEF MarkupInv, Inward, Outward
    <3>0. gz[c] # "nobody" /\ 200 \in Nat
      BY <2>3
    <3>1. Answers(c, 200, type, "gzip",
                  IF gz[c] = "nobody" THEN Append(resp[c].parts, Part(FALSE, c)) ELSE resp[c].parts,
                  resp[c].hash)
      BY <2>7, <3>0, MarkupAnswers, Zenon
    <3>2. resp'[c].encoding = "gzip" /\ resp'[c].parts = resp[c].parts
      BY <3>0, <3>1 DEF Answers
    <3>3. resp[c].parts = <<>>
      BY <2>3, NoResponseFields
    <3>4. stream' = [stream EXCEPT ![gz[c]] = c]
      BY <2>7, <3>0 DEF WriteMarkup
    <3>5. stream'[gz[c]] = c
      BY <3>0, <3>4, <1>t
    <3> QED BY <2>2, <3>0, <3>2, <3>3, <3>5
  <2> QED BY <2>4, <2>5, <2>6, <2>7, <2>n
<1>8. CASE CloseReader(c)
  <2>1. /\ pc[c] = "closeReader" /\ pc'[c] = "closeWriter" /\ UNCHANGED <<resp, sent, gz, stream>>
    BY <1>8, Movements DEF CloseReader, gzVars
  <2> QED BY <2>1 DEF MarkupInv, Inward, Outward
<1>9. CASE CloseWriter(c)
  <2>1. /\ pc[c] = "closeWriter" /\ pc'[c] = "finalize" /\ sent' = sent
    BY <1>9, Movements DEF CloseWriter
  <2>2. CASE gz[c] = "nobody"
    <3>1. resp' = resp
      BY <1>9, <2>2 DEF CloseWriter
    <3> QED BY <2>1, <2>2, <3>1 DEF MarkupInv, Inward, Outward
  <2>3. CASE gz[c] # "nobody"
    <3> SUFFICES ASSUME sent[c].accept, resp'[c].type \in {"json", "html"}
                 PROVE  resp'[c].encoding = "gzip" /\ resp'[c].parts = <<Part(TRUE, c)>>
      BY <2>1 DEF MarkupInv, Inward, Outward
    <3>1. Answers(c, resp[c].status, resp[c].type, resp[c].encoding,
                  Append(resp[c].parts, Part(TRUE, stream[gz[c]])), resp[c].hash)
      BY <1>9, <2>3, ClosingAnswers
    <3>2. /\ resp'[c].type = resp[c].type /\ resp'[c].encoding = resp[c].encoding
          /\ resp'[c].parts = Append(resp[c].parts, Part(TRUE, stream[gz[c]]))
      BY <3>1 DEF Answers
    <3>3. resp[c].encoding = "gzip" /\ resp[c].parts = <<>> /\ stream[gz[c]] = c
      BY <2>1, <3>2 DEF MarkupInv, Outward
    <3>4. resp'[c].parts = Append(<<>>, Part(TRUE, c))
      BY <3>2, <3>3
    <3>5. \A p : Append(<<>>, p) = <<p>>
      OBVIOUS
    <3> QED BY <3>2, <3>3, <3>4, <3>5
  <2> QED BY <2>2, <2>3
<1>10. CASE finalize(c)
  <2>1. /\ pc[c] = "finalize" /\ pc'[c] = "done" /\ sent' = sent
    BY <1>10, Movements DEF finalize
  <2>2. Answers(c, resp[c].status, resp[c].type, resp[c].encoding, resp[c].parts, Sign(resp[c].parts))
    BY <1>10, SigningAnswers
  <2>3. /\ resp'[c].type = resp[c].type /\ resp'[c].encoding = resp[c].encoding
        /\ resp'[c].parts = resp[c].parts /\ resp'[c].hash = Sign(resp[c].parts)
    BY <2>2 DEF Answers
  <2>4. Sign(resp[c].parts) = Sign(resp[c].parts)'
    BY <2>3, <1>k DEF Sign
  <2> QED BY <2>1, <2>3, <2>4, <1>k DEF MarkupInv, Inward, Outward, Sign
<1> QED BY <1>1, <1>2, <1>3, <1>4, <1>5, <1>6, <1>7, <1>8, <1>9, <1>10
        DEF Step, HashMiddleware, DecryptMiddleware, GzipMiddleware, LoggingMiddleware

----------------------------------------------------------------------------
(* The theorems.                                                           *)

LEMMA InitiallyIInv == Init => IInv
<1> SUFFICES ASSUME Init PROVE IInv
  OBVIOUS
<1> USE Names DEF Init
<1>1. Types
  <2>1. cryptoKey \in Pairs \cup {NoKey} /\ pubKey \in [Agents -> Pairs \cup {NoKey}]
    BY KeyTypes
  <2>2. NoRequest \in Requests
    <3>1. NoSignature \in Hashes
      BY BodyOfNobody DEF NoSignature, Hashes
    <3> QED BY <3>1, BodyOfNobody DEF NoRequest, Requests, Encodings
  <2>3. sent \in [Clients -> Requests] /\ resp \in [Clients -> Responses]
    BY <2>2, NoResponseFields
  <2>4. /\ pc \in [Clients -> Layers] /\ body \in [Clients -> Bodies]
        /\ encoding \in [Clients -> Encodings] /\ seen \in [Clients -> Bodies]
    BY BodyOfNobody DEF Layers, Encodings
  <2> QED BY <2>1, <2>3, <2>4 DEF Types
<1>2. ASSUME NEW c \in Clients
      PROVE  ClientInv(c)
  <2>1. /\ pc[c] = "idle" /\ gz[c] = "nobody" /\ zr[c] = "nobody" /\ seen[c] = NoBody
        /\ body[c] = NoBody /\ sent[c] = NoRequest /\ resp[c] = NoResponse
    OBVIOUS
  <2>2. NoRequest.body = NoBody
    BY DEF NoRequest
  <2> QED BY <2>1, <2>2 DEF ClientInv, PoolInv, SentInv, BodyInv, SeenInv, AgreedInv, StatusInv,
             MarkupInv, Served, Inward, Outward
<1> QED BY <1>1, <1>2 DEF IInv

LEMMA Preserved == IInv /\ [Next]_vars => IInv'
<1> SUFFICES ASSUME IInv, [Next]_vars PROVE IInv'
  OBVIOUS
<1>0. Types /\ \A x \in Clients : ClientInv(x)
  BY DEF IInv
<1>1. ASSUME NEW c \in Clients, Step(c)
      PROVE  IInv'
  <2>1. /\ PoolInv(c) /\ SentInv(c) /\ BodyInv(c) /\ SeenInv(c) /\ AgreedInv(c) /\ StatusInv(c)
        /\ MarkupInv(c)
    BY <1>0 DEF ClientInv
  <2>2. Types'
    BY <1>0, <1>1, <2>1, TypesInductive
  <2>3. ClientInv(c)'
    BY <1>0, <1>1, <2>1, OwnPool, OwnSent, OwnBody, OwnSeen, OwnAgreed, OwnStatus, OwnMarkup
       DEF ClientInv
  <2>4. ASSUME NEW x \in Clients, x # c
        PROVE  ClientInv(x)'
    <3>1. ClientInv(x) /\ PoolInv(x)
      BY <1>0 DEF ClientInv
    <3>2. Kept(x) /\ UNCHANGED keyVars
      BY <1>0, <1>1, <2>1, <2>4, <3>1, OthersKept, KeysStay
    <3> QED BY <3>1, <3>2, KeptKeeps
  <2> QED BY <2>2, <2>3, <2>4 DEF IInv
<1>2. CASE UNCHANGED vars
  <2> USE <1>2 DEF vars, keyVars, gzVars, zrVars
  <2>1. Types'
    BY <1>0 DEF Types
  <2>2. ASSUME NEW x \in Clients
        PROVE  ClientInv(x)'
    <3>1. ClientInv(x) /\ PoolInv(x) /\ UNCHANGED keyVars
      BY <1>0 DEF ClientInv
    <3>2. Kept(x)
      BY <3>1 DEF Kept, PoolInv
    <3> QED BY <3>1, <3>2, KeptKeeps
  <2> QED BY <2>1, <2>2 DEF IInv
<1> QED BY <1>1, <1>2 DEF Next, Step

\* In every reachable state: what is pooled is set to the one request that holds
\* it, every layer finds the body as the layers before it left it, and an
\* answer is where the layers back will look for it.
THEOREM ExchangeInvariant == Spec => []IInv
BY InitiallyIInv, Preserved, PTL DEF Spec

\* Whatever the keys, the damage on the wire and the sharing of the pooled
\* readers, a handler that reads a protected body (gzip, envelope or checked
\* signature) reads the whole text its own client wrote.
THEOREM HandlersRead == Spec => []HandlersReadWhatWasWritten
<1>1. IInv => HandlersReadWhatWasWritten
  BY DEF IInv, ClientInv, SeenInv, HandlersReadWhatWasWritten
<1> QED BY <1>1, ExchangeInvariant, PTL

\* The layers of preparePayload and the middlewares of buildRouter undo one
\* another: with keys that agree, an undamaged batch of a size is always read.
THEOREM AgreementSuffices == Spec => []AgreedKeysSuffice
<1>1. IInv => AgreedKeysSuffice
  <2> SUFFICES ASSUME IInv, NEW c \in Agents, Answered(c), Agree(c), body[c].intact,
                      sent[c].body.size = "small"
               PROVE  Served(c)
    BY DEF AgreedKeysSuffice
  <2>1. c \in Clients /\ pc[c] \in Outward
    BY DEF Clients, Answered, Outward
  <2>2. AgreedInv(c)
    BY <2>1 DEF IInv, ClientInv
  <2> QED BY <2>1, <2>2 DEF AgreedInv
<1> QED BY <1>1, ExchangeInvariant, PTL

\* A request that arrived as it was sent and was not read is refused with a
\* status of the client's fault; only another client than an agent, and only if it
\* declares gzip over a body that is none, is told that the server failed (500).
THEOREM MisfitsAreRefused == Spec => []MisfitsAreClientErrors
<1>1. IInv => MisfitsAreClientErrors
  <2> SUFFICES ASSUME IInv, NEW c \in Clients, Answered(c), body[c].intact,
                      sent[c].route \in WithBody, ~Served(c)
               PROVE  \/ resp[c].status \in 400..499
                      \/ c \in Others /\ Misdeclared(c) /\ resp[c].status = 500
    BY DEF MisfitsAreClientErrors
  <2>1. pc[c] \in Outward /\ pc[c] # "idle" /\ ClientInv(c)
    BY DEF IInv, Answered, Outward
  <2>2. resp[c].status \in {400, 413} \/ (resp[c].status = 500 /\ Misdeclared(c))
    BY <2>1 DEF ClientInv, StatusInv
  <2>3. Misdeclared(c) => c \notin Agents
    BY <2>1 DEF ClientInv, SentInv, AgentMade, Misdeclared
  <2>4. resp[c].status \in {400, 413} => resp[c].status \in 400..499
    OBVIOUS
  <2> QED BY <2>2, <2>3, <2>4, Names
<1> QED BY <1>1, ExchangeInvariant, PTL

\* Although the gzip writers are shared, markup for a client that accepts gzip is
\* one zipped part, its own, and the signature covers it.
THEOREM MarkupIsReadable == Spec => []MarkupReadable
<1>1. IInv => MarkupReadable
  <2> SUFFICES ASSUME IInv, NEW c \in Clients, Answered(c), sent[c].accept,
                      resp[c].type \in {"json", "html"}
               PROVE  /\ Readable(c) /\ Len(resp[c].parts) = 1
                      /\ resp[c].hash = Sign(resp[c].parts)
    BY DEF MarkupReadable
  <2>1. /\ resp[c].encoding = "gzip" /\ resp[c].parts = <<Part(TRUE, c)>>
        /\ resp[c].hash = Sign(resp[c].parts)
    BY DEF IInv, ClientInv, MarkupInv, Answered, Outward
  <2>2. Part(TRUE, c).zipped = TRUE /\ Part(TRUE, c).of = c
    BY DEF Part
  <2>3. \A p : Len(<<p>>) = 1 /\ DOMAIN <<p>> = {1} /\ <<p>>[1] = p
    OBVIOUS
  <2>4. DOMAIN resp[c].parts = {1} /\ resp[c].parts[1] = Part(TRUE, c)
    BY <2>1, <2>3
  <2>5. ASSUME NEW i \in DOMAIN resp[c].parts
        PROVE  resp[c].parts[i].zipped = (resp[c].encoding = "gzip") /\ resp[c].parts[i].of = c
    <3>1. i = 1
      BY <2>4
    <3> QED BY <2>1, <2>2, <2>4, <3>1
  <2>6. Readable(c)
    BY <2>5 DEF Readable
  <2> QED BY <2>1, <2>3, <2>6
<1> QED BY <1>1, ExchangeInvariant, PTL

\* No pooled gzip writer or reader (gzipWriterPool, gzipReaderPool) serves two
\* requests at once, nor one request and the pool.
OneUserEach ==
  \A c, d \in Clients :
    /\ gz[c] # "nobody" => gz[c] \notin freeGz /\ (gz[d] = gz[c] => d = c)
    /\ zr[c] # "nobody" => zr[c] \notin freeZr /\ (zr[d] = zr[c] => d = c)

\* The pooled objects are exclusive, for any number of requests and objects.
THEOREM PoolsAreExclusive == Spec => []OneUserEach
<1>1. IInv => OneUserEach
  BY DEF IInv, ClientInv, PoolInv, OneUserEach
<1> QED BY <1>1, ExchangeInvariant, PTL
====
