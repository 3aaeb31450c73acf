------------------------------ MODULE Exchange ------------------------------
(***************************************************************************)
(* What happens to the body of a request between the agent that writes it  *)
(* and the handler that reads it, and to the answer on its way back:       *)
(* preparePayload and newRequest (internal/agent), Encrypt and Decrypt     *)
(* (internal/crypto), the middlewares in the order of buildRouter          *)
(* (cmd/server/main.go): signature, envelope, gzip, logging                *)
(* (internal/handler/handler.go). Requests run concurrently and share the  *)
(* pools of gzip writers and readers.                                      *)
(*                                                                         *)
(* Data: a body is a text, known by the client that wrote it, maybe        *)
(* zipped, maybe sealed in an envelope for a key pair; the network may     *)
(* damage it. What decrypts, unzips or verifies is what was encrypted,     *)
(* zipped or signed with the fitting key and not damaged since.            *)
(*                                                                         *)
(* A definition marked "Mutant" is no part of the model: it is a slip the  *)
(* properties must catch when it stands for the definition it precedes.    *)
(***************************************************************************)
EXTENDS Naturals, Sequences

CONSTANTS
  Agents, Others,  \* clients, one request each: agents; loadgen, curl, browsers
  SigningKeys,     \* keys of HMAC-SHA256
  Pairs,           \* RSA key pairs
  NoKey,           \* no key is set
  Writers, Readers \* the objects of gzipWriterPool and gzipReaderPool

Clients == Agents \cup Others

ASSUME ExchangeAssumption ==
  /\ Agents \cap Others = {}
  /\ NoKey \notin SigningKeys \cup Pairs
  /\ "nobody" \notin Clients \cup Writers \cup Readers

VARIABLES
  key, cryptoKey,     \* Handler: signing key, private key
  agentKey, pubKey,   \* per agent
  sent,               \* per client: the request it has sent
  pc,                 \* per client: the layer its request is in
  body, encoding,     \* r.Body and Content-Encoding as the next layer finds them
  seen,               \* what the handler read
  resp,               \* the response
  gz, zr,             \* the gzip writer and reader a request holds
  freeGz, freeZr,     \* the pools
  target, stream,     \* per writer: whose response it writes to, what it holds
  source              \* per reader: whose body it reads

keyVars == <<key, cryptoKey, agentKey, pubKey>>
gzVars == <<gz, freeGz, target, stream>>
zrVars == <<zr, freeZr, source>>
vars == <<keyVars, sent, pc, body, encoding, seen, resp, gzVars, zrVars>>

----------------------------------------------------------------------------
(* Key files, read once at the start.                                      *)

Formats == {"no file", "no PEM", "PKIX RSA", "PKIX other", "PKCS1 public",
            "PKCS1 private", "PKCS8 RSA", "PKCS8 other"}

\* A process whose key file is refused does not start.
LoadPublicKey(format, pair) ==
  IF format \in {"PKIX RSA", "PKCS1 public"} THEN {pair} ELSE {}

LoadPrivateKey(format, pair) ==
  IF format \in {"PKCS1 private", "PKCS8 RSA"} THEN {pair} ELSE {}

\* SetCryptoKey of the agent and of the handler: an empty path is no key.
PublicKeys == {NoKey} \cup UNION {LoadPublicKey(f, p) : f \in Formats, p \in Pairs}
PrivateKeys == {NoKey} \cup UNION {LoadPrivateKey(f, p) : f \in Formats, p \in Pairs}

----------------------------------------------------------------------------
(* Requests.                                                               *)

NoBody == [of |-> "nobody", sealed |-> NoKey, zipped |-> FALSE, intact |-> TRUE,
           size |-> "small"]

\* Sizes: small, over maxRequestBody once unzipped, over it on the wire too.
Text(c, size) ==
  [of |-> c, sealed |-> NoKey, zipped |-> FALSE, intact |-> TRUE, size |-> size]

Gzip(b) == [b EXCEPT !.zipped = TRUE]

Encrypt(pair, b) == [b EXCEPT !.sealed = pair]

encryptPayload(c, b) == IF pubKey[c] = NoKey THEN b ELSE Encrypt(pubKey[c], b)

NoSignature == [key |-> NoKey, of |-> NoBody]

Signature(k, b) == IF k = NoKey THEN NoSignature ELSE [key |-> k, of |-> b]

preparePayload(c, b) ==
  [body            |-> encryptPayload(c, Gzip(b)),
   accept          |-> TRUE,
   encoding        |-> IF pubKey[c] = NoKey THEN "gzip" ELSE "",
   payloadEncoding |-> IF pubKey[c] = NoKey THEN "" ELSE "gzip"]

newRequest(c, b) ==
  LET p == preparePayload(c, b)
  IN  [route |-> "updates", hash |-> Signature(agentKey[c], p.body), body |-> p.body,
       accept |-> p.accept, encoding |-> p.encoding, payloadEncoding |-> p.payloadEncoding]

AgentRequests(c) == {newRequest(c, Text(c, size)) : size \in {"small", "inflates"}}

\* Routes: "updates" (/updates/) and "json" (/update, /value) read a body, "path"
\* (/update/..., /value/...) and "page" (/) do not.
WithBody == {"updates", "json"}

\* Requests of other clients: they seal nothing, may zip, sign or accept gzip, and
\* declare gzip or not, whatever their body is.
OtherRequest(route, b, accept, k) ==
  [route |-> route, hash |-> Signature(k, b), body |-> b, accept |-> accept,
   encoding |-> "", payloadEncoding |-> ""]

Declaring(coding, r) == [r EXCEPT !.encoding = coding]

OtherTexts(c) == {Text(c, "small"), Text(c, "large"), Gzip(Text(c, "small"))}

UndeclaredRequests(c) ==
  {OtherRequest(route, b, accept, k) :
     route \in WithBody, b \in OtherTexts(c), accept \in BOOLEAN, k \in SigningKeys \cup {NoKey}}
  \cup {OtherRequest(route, NoBody, accept, NoKey) :
          route \in {"path", "page"}, accept \in BOOLEAN}

OtherRequests(c) ==
  UNION {{Declaring(coding, r) : r \in UndeclaredRequests(c)} : coding \in {"", "gzip"}}

NoRequest ==
  [route |-> "", hash |-> NoSignature, body |-> NoBody, accept |-> FALSE,
   encoding |-> "", payloadEncoding |-> ""]

Damaged(r) == [r EXCEPT !.body.intact = FALSE]

----------------------------------------------------------------------------
(* Responses: a sequence of parts, each zipped or not, saying what the      *)
(* handler of some client had to say, or nothing.                           *)

NoHash == [key |-> NoKey, of |-> <<>>]

NoResponse ==
  [status |-> 0, type |-> "", encoding |-> "", parts |-> <<>>, hash |-> NoHash]

Part(zipped, c) == [zipped |-> zipped, of |-> c]

\* http.Error: a plain text, written past the gzip writer at every layer.
Error(c, status) ==
  resp' = [resp EXCEPT ![c].status = status, ![c].type = "text",
                       ![c].parts = Append(@, Part(FALSE, c))]

Goto(c, layer) == pc' = [pc EXCEPT ![c] = layer]

Init ==
  /\ key \in SigningKeys \cup {NoKey}
  /\ cryptoKey \in PrivateKeys
  /\ agentKey \in [Agents -> SigningKeys \cup {NoKey}]
  /\ pubKey \in [Agents -> PublicKeys]
  /\ sent = [c \in Clients |-> NoRequest]
  /\ pc = [c \in Clients |-> "idle"]
  /\ body = [c \in Clients |-> NoBody]
  /\ encoding = [c \in Clients |-> ""]
  /\ seen = [c \in Clients |-> NoBody]
  /\ resp = [c \in Clients |-> NoResponse]
  /\ gz = [c \in Clients |-> "nobody"] /\ zr = [c \in Clients |-> "nobody"]
  /\ freeGz = Writers /\ freeZr = Readers
  /\ target = [w \in Writers |-> "nobody"] /\ stream = [w \in Writers |-> "nobody"]
  /\ source = [z \in Readers |-> "nobody"]

Send(c) ==
  /\ pc[c] = "idle"
  /\ \E r \in IF c \in Agents THEN AgentRequests(c) ELSE OtherRequests(c) :
       \E a \in {r} \cup (IF r.body = NoBody THEN {} ELSE {Damaged(r)}) :
         /\ sent' = [sent EXCEPT ![c] = r]
         /\ body' = [body EXCEPT ![c] = a.body]
         /\ encoding' = [encoding EXCEPT ![c] = r.encoding]
  /\ Goto(c, "hash")
  /\ UNCHANGED <<keyVars, seen, resp, gzVars, zrVars>>

----------------------------------------------------------------------------
(* HashMiddleware, in the chain only when there is a key. Its refusals are  *)
(* not signed: hashResponseWriter does not exist yet.                       *)

Signed(c) == sent[c].hash # NoSignature

SignatureFits(c) == sent[c].hash = Signature(key, body[c])

HashPasses(c) ==
  /\ pc[c] = "hash"
  /\ key # NoKey => body[c].size # "large" /\ (Signed(c) => SignatureFits(c))
  /\ Goto(c, "decrypt")
  /\ UNCHANGED <<keyVars, sent, body, encoding, seen, resp, gzVars, zrVars>>

HashRefuses(c) ==
  /\ pc[c] = "hash"
  /\ key # NoKey
  /\ \/ body[c].size = "large" /\ Error(c, 413)
     \/ body[c].size # "large" /\ Signed(c) /\ ~SignatureFits(c) /\ Error(c, 400)
  /\ Goto(c, "done")
  /\ UNCHANGED <<keyVars, sent, body, encoding, seen, gzVars, zrVars>>

(* DecryptMiddleware. *)

\* The magic, the length, RSA-OAEP and GCM with the header as associated data.
Opens(c) == body[c].sealed = cryptoKey /\ body[c].intact

DecryptPasses(c) ==
  /\ pc[c] = "decrypt"
  /\ cryptoKey = NoKey \/ body[c] = NoBody
  /\ Goto(c, "gzip")
  /\ UNCHANGED <<keyVars, sent, body, encoding, seen, resp, gzVars, zrVars>>

\* Mutant: the encoding of the plaintext is not handed on.
DecryptKeepsEncoding(c) ==
  /\ pc[c] = "decrypt"
  /\ cryptoKey # NoKey /\ body[c] # NoBody
  /\ body[c].size # "large"
  /\ Opens(c)
  /\ body' = [body EXCEPT ![c].sealed = NoKey]
  /\ Goto(c, "gzip")
  /\ UNCHANGED <<keyVars, sent, encoding, seen, resp, gzVars, zrVars>>

Decrypt(c) ==
  /\ pc[c] = "decrypt"
  /\ cryptoKey # NoKey /\ body[c] # NoBody
  /\ body[c].size # "large"
  /\ Opens(c)
  /\ body' = [body EXCEPT ![c].sealed = NoKey]
  /\ encoding' = [encoding EXCEPT ![c] =
                    IF sent[c].payloadEncoding # "" THEN sent[c].payloadEncoding ELSE @]
  /\ Goto(c, "gzip")
  /\ UNCHANGED <<keyVars, sent, seen, resp, gzVars, zrVars>>

DecryptRefuses(c) ==
  /\ pc[c] = "decrypt"
  /\ cryptoKey # NoKey /\ body[c] # NoBody
  /\ \/ body[c].size = "large" /\ Error(c, 413)
     \/ body[c].size # "large" /\ ~Opens(c) /\ Error(c, 400)
  /\ Goto(c, "finalize")
  /\ UNCHANGED <<keyVars, sent, body, encoding, seen, gzVars, zrVars>>

----------------------------------------------------------------------------
(* GzipMiddleware: a writer for clients that accept gzip, a reader for      *)
(* bodies that claim to be gzip.                                            *)

\* Mutant: the writer is put back at once, not when the answer is written.
TakeWriterUnreserved(c) ==
  IF sent[c].accept
  THEN \E w \in freeGz :
         /\ gz' = [gz EXCEPT ![c] = w]
         /\ target' = [target EXCEPT ![w] = c]
         /\ stream' = [stream EXCEPT ![w] = "nobody"]
         /\ UNCHANGED freeGz
  ELSE UNCHANGED gzVars

TakeWriter(c) ==
  IF sent[c].accept
  THEN \E w \in freeGz :
         /\ freeGz' = freeGz \ {w}
         /\ gz' = [gz EXCEPT ![c] = w]
         /\ target' = [target EXCEPT ![w] = c]
         /\ stream' = [stream EXCEPT ![w] = "nobody"]
  ELSE UNCHANGED gzVars

\* The header of a gzip stream can be read (the rest may still be damaged).
GzipHeader(c) == body[c].zipped /\ body[c].sealed = NoKey

\* Mutant: the reader is put back at once.
GzipPassesUnreserved(c) ==
  /\ pc[c] = "gzip"
  /\ TakeWriter(c)
  /\ IF encoding[c] = "gzip"
     THEN /\ GzipHeader(c)
          /\ \E z \in freeZr :
               /\ zr' = [zr EXCEPT ![c] = z]
               /\ source' = [source EXCEPT ![z] = c]
               /\ UNCHANGED freeZr
     ELSE UNCHANGED zrVars
  /\ Goto(c, "log")
  /\ UNCHANGED <<keyVars, sent, body, encoding, seen, resp>>

GzipPasses(c) ==
  /\ pc[c] = "gzip"
  /\ TakeWriter(c)
  /\ IF encoding[c] = "gzip"
     THEN /\ GzipHeader(c)
          /\ \E z \in freeZr :
               /\ freeZr' = freeZr \ {z}
               /\ zr' = [zr EXCEPT ![c] = z]
               /\ source' = [source EXCEPT ![z] = c]
     ELSE UNCHANGED zrVars
  /\ Goto(c, "log")
  /\ UNCHANGED <<keyVars, sent, body, encoding, seen, resp>>

\* The reader goes back to the pool; the deferred Close of the writer runs.
GzipRefuses(c) ==
  /\ pc[c] = "gzip"
  /\ TakeWriter(c)
  /\ encoding[c] = "gzip"
  /\ ~GzipHeader(c) \/ ~body[c].intact
  /\ Error(c, 500)
  /\ Goto(c, "closeWriter")
  /\ UNCHANGED <<keyVars, sent, body, encoding, seen, zrVars>>

(* LoggingMiddleware reads the whole body, through the reader if there is   *)
(* one, and hands on a copy.                                                *)

\* What reading yields: the body, or the unzipped body the reader is set to.
Read(c) ==
  IF zr[c] = "nobody" THEN body[c] ELSE [body[source[zr[c]]] EXCEPT !.zipped = FALSE]

TooLarge(c) ==
  IF zr[c] = "nobody" THEN body[c].size = "large" ELSE Read(c).size # "small"

Log(c) ==
  /\ pc[c] = "log"
  /\ ~TooLarge(c)
  /\ zr[c] # "nobody" => Read(c).intact
  /\ body' = [body EXCEPT ![c] = Read(c)]
  /\ Goto(c, "handler")
  /\ UNCHANGED <<keyVars, sent, encoding, seen, resp, gzVars, zrVars>>

\* Mutant: writeBodyError does not know errBodyTooLarge.
LogRefusesAlike(c) ==
  /\ pc[c] = "log"
  /\ TooLarge(c) \/ (zr[c] # "nobody" /\ ~Read(c).intact)
  /\ Error(c, 500)
  /\ Goto(c, "closeReader")
  /\ UNCHANGED <<keyVars, sent, body, encoding, seen, gzVars, zrVars>>

LogRefuses(c) ==
  /\ pc[c] = "log"
  /\ \/ TooLarge(c) /\ Error(c, 413)
     \/ zr[c] # "nobody" /\ ~Read(c).intact /\ Error(c, 500)
  /\ Goto(c, "closeReader")
  /\ UNCHANGED <<keyVars, sent, body, encoding, seen, gzVars, zrVars>>

----------------------------------------------------------------------------
(* The handler, behind contentTypeCheckWriter.                              *)

\* What json.Decode can make of a body: damage may go unnoticed in plain text.
IsText(b) == ~b.zipped /\ b.sealed = NoKey

\* Write of an answer of type json or html: it is declared gzip, and goes to
\* the gzip writer if there is one.
WriteMarkup(c, status, type) ==
  /\ resp' = [resp EXCEPT ![c].status = status, ![c].type = type, ![c].encoding = "gzip",
                ![c].parts = IF gz[c] = "nobody" THEN Append(@, Part(FALSE, c)) ELSE @]
  /\ stream' = IF gz[c] = "nobody" THEN stream ELSE [stream EXCEPT ![gz[c]] = c]

\* Any other answer goes past the gzip writer.
WriteText(c, status) ==
  /\ resp' = [resp EXCEPT ![c].status = status, ![c].type = "text",
                          ![c].parts = Append(@, Part(FALSE, c))]
  /\ UNCHANGED stream

\* WriteHeader alone.
WriteNothing(c, status) ==
  /\ resp' = [resp EXCEPT ![c].status = status]
  /\ UNCHANGED stream

\* The handler does as it is asked, or finds a fault with what it is asked.
Serve(c) ==
  /\ pc[c] = "handler"
  /\ sent[c].route \in WithBody => IsText(body[c])
  /\ seen' = [seen EXCEPT ![c] = body[c]]
  /\ \/ sent[c].route = "updates" /\ WriteNothing(c, 200)
     \/ sent[c].route = "json" /\ WriteMarkup(c, 200, "json")
     \/ sent[c].route = "page" /\ WriteMarkup(c, 200, "html")
     \/ sent[c].route = "path" /\ (WriteNothing(c, 200) \/ WriteText(c, 200))
     \/ sent[c].route # "page" /\ \E status \in {400, 404, 500} : WriteText(c, status)
  /\ Goto(c, "closeReader")
  /\ UNCHANGED <<keyVars, sent, body, encoding, gz, freeGz, target, zrVars>>

\* The body is no JSON.
Reject(c) ==
  /\ pc[c] = "handler"
  /\ sent[c].route \in WithBody
  /\ ~IsText(body[c]) \/ ~body[c].intact
  /\ WriteText(c, 400)
  /\ Goto(c, "closeReader")
  /\ UNCHANGED <<keyVars, sent, body, encoding, seen, gz, freeGz, target, zrVars>>

(* The deferred calls of GzipMiddleware, and finalize of HashMiddleware.    *)

\* compressReader.Close.
CloseReader(c) ==
  /\ pc[c] = "closeReader"
  /\ freeZr' = freeZr \cup ({zr[c]} \cap Readers)
  /\ zr' = [zr EXCEPT ![c] = "nobody"]
  /\ Goto(c, "closeWriter")
  /\ UNCHANGED <<keyVars, sent, body, encoding, seen, resp, gzVars, source>>

\* gz.Close writes the stream, an empty one included, to where the writer was
\* set to.
CloseWriter(c) ==
  /\ pc[c] = "closeWriter"
  /\ IF gz[c] = "nobody"
     THEN UNCHANGED <<resp, gzVars>>
     ELSE /\ resp' = [resp EXCEPT ![target[gz[c]]].parts = Append(@, Part(TRUE, stream[gz[c]]))]
          /\ freeGz' = freeGz \cup {gz[c]}
          /\ gz' = [gz EXCEPT ![c] = "nobody"]
          /\ UNCHANGED <<target, stream>>
  /\ Goto(c, "finalize")
  /\ UNCHANGED <<keyVars, sent, body, encoding, seen, zrVars>>

\* hashResponseWriter signs what has been written, if anything has.
Sign(parts) == IF key = NoKey \/ parts = <<>> THEN NoHash ELSE [key |-> key, of |-> parts]

finalize(c) ==
  /\ pc[c] = "finalize"
  /\ resp' = [resp EXCEPT ![c].hash = Sign(resp[c].parts)]
  /\ Goto(c, "done")
  /\ UNCHANGED <<keyVars, sent, body, encoding, seen, gzVars, zrVars>>

----------------------------------------------------------------------------
HashMiddleware(c) == HashPasses(c) \/ HashRefuses(c) \/ finalize(c)
DecryptMiddleware(c) == DecryptPasses(c) \/ Decrypt(c) \/ DecryptRefuses(c)
GzipMiddleware(c) == GzipPasses(c) \/ GzipRefuses(c) \/ CloseReader(c) \/ CloseWriter(c)
LoggingMiddleware(c) == Log(c) \/ LogRefuses(c)

Next ==
  \/ \E c \in Clients :
       \/ Send(c)
       \/ HashMiddleware(c) \/ DecryptMiddleware(c) \/ GzipMiddleware(c)
       \/ LoggingMiddleware(c) \/ Serve(c) \/ Reject(c)
  \/ (\A c \in Clients : pc[c] = "done") /\ UNCHANGED vars

Spec == Init /\ [][Next]_vars

----------------------------------------------------------------------------
Answered(c) == pc[c] = "done"

Served(c) == seen[c] # NoBody

\* Damage to the body does not go unnoticed: gzip has a checksum, the envelope
\* is authenticated, the signature is checked if there is a key.
Protected(c) ==
  sent[c].body.zipped \/ sent[c].body.sealed # NoKey \/ (key # NoKey /\ Signed(c))

\* A handler reads the text its own client wrote, whole, whatever the keys on
\* either side and whoever shares the pooled readers: nothing damaged, sealed,
\* oversized or read from another request is taken for metrics.
HandlersReadWhatWasWritten ==
  \A c \in Clients :
    Served(c) /\ Protected(c) => seen[c] = Text(c, "small")

\* Agent and server understand one another.
Agree(c) ==
  /\ pubKey[c] = cryptoKey
  /\ agentKey[c] = key \/ agentKey[c] = NoKey \/ key = NoKey

\* A batch of an agent whose keys agree with the server's is read whenever it
\* arrives as it was sent and is not too large: the encodings of preparePayload
\* and the middlewares, in the order of buildRouter, undo one another.
AgreedKeysSuffice ==
  \A c \in Agents :
    Answered(c) /\ Agree(c) /\ body[c].intact /\ sent[c].body.size = "small" => Served(c)

\* The request declares Content-Encoding: gzip over a body that is not gzip.
Misdeclared(c) == sent[c].encoding = "gzip" /\ ~sent[c].body.zipped

\* checkResponse (agent.go:597) reads a 5xx as a passing fault of the server and
\* any other refusal as a mismatch of the keys. So a batch of an agent that arrived
\* as it was sent and was not read, for its keys or its size, is refused with 4xx.
\* So is a request of any other client, except that GzipMiddleware blames itself
\* (500, handler.go:635) for a body that declares gzip and is none.
MisfitsAreClientErrors ==
  \A c \in Clients :
    Answered(c) /\ body[c].intact /\ sent[c].route \in WithBody /\ ~Served(c)
      => \/ resp[c].status \in 400..499
         \/ c \in Others /\ Misdeclared(c) /\ resp[c].status = 500

\* What a client makes of the parts under the declared encoding is the answer
\* of its own handler and nothing else.
Readable(c) ==
  LET zipped == resp[c].encoding = "gzip"
  IN  /\ zipped => sent[c].accept
      /\ \A i \in DOMAIN resp[c].parts :
           resp[c].parts[i].zipped = zipped /\ resp[c].parts[i].of = c

\* Markup for a client that accepts gzip is readable, though the writers are
\* shared, and the signature covers all of it, the end of the gzip stream included.
MarkupReadable ==
  \A c \in Clients :
    Answered(c) /\ sent[c].accept /\ resp[c].type \in {"json", "html"} =>
      /\ Readable(c) /\ Len(resp[c].parts) = 1
      /\ resp[c].hash = Sign(resp[c].parts)
=============================================================================
