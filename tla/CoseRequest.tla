----------------------------- MODULE CoseRequest -----------------------------
(***************************************************************************)
(* What a signing request asks to be signed, and what the service signs    *)
(* for it (main/services.go getPayloadAndHash, main/cose_signer.go).       *)
(*                                                                         *)
(* Bytes are terms: the JSON or CBOR encoding of a document, a signature   *)
(* structure, a digest, other 32 bytes, text encodings of these, or none.  *)
(***************************************************************************)
CONSTANTS
    StringDocs,     \* JSON objects whose values are all strings
    NullDocs,       \* JSON objects with strings and at least one null value
    TypedDocs,      \* other JSON documents: numbers, lists, nested objects
    WithoutNull     \* [NullDocs -> StringDocs]: null replaced by ""

ASSUME DocsAssumption ==
    StringDocs \cap NullDocs = {} /\ (StringDocs \cup NullDocs) \cap TypedDocs = {}
ASSUME WithoutNullAssumption == WithoutNull \in [NullDocs -> StringDocs]

Docs == StringDocs \cup NullDocs \cup TypedDocs

Json(d) == <<"json", d>>
Cbor(d) == <<"cbor", d>>
SigStruct(protected, b) == <<"sigStruct", protected, b>>
Sha256(b) == <<"sha256", b>>
Hex(b) == <<"hex", b>>
Base64(b) == <<"base64", b>>
Junk == <<"junk">>
NoBytes == <<"none">>
Arbitrary32 == <<"bytes32">>

(* A body that breaks off while it is read. *)
Unreadable == <<"unreadable">>

HashLen(b) == b[1] \in {"sha256", "bytes32"}

CTypes == {"json", "cbor", "bin", "text", "other"}

(* endpoint /cbor or /cbor/hash; hex: Content-Transfer-Encoding is "hex" *)
Request(hashEndpoint, ctype, hex, body) ==
    [hash |-> hashEndpoint, ctype |-> ctype, hex |-> hex, body |-> body]

(* The only algorithm: ES256. *)
ProtectedHeader == "ES256"

DigestOf(d) == Sha256(SigStruct(ProtectedHeader, Cbor(d)))

Bodies ==
    UNION {{Json(d), Cbor(d), DigestOf(d), Hex(DigestOf(d)), Base64(DigestOf(d))} : d \in Docs}
        \cup {Junk, Arbitrary32, Hex(Arbitrary32), Base64(Arbitrary32), Unreadable}

AllRequests ==
    {Request(hash, ctype, hex, body) :
        hash \in BOOLEAN, ctype \in CTypes, hex \in BOOLEAN, body \in Bodies}

-----------------------------------------------------------------------------
(* A result is the payload of the COSE object and the hash that is signed. *)
Signs(payload, hash) == [ok |-> TRUE, payload |-> payload, hash |-> hash]
Refused == [ok |-> FALSE, payload |-> NoBytes, hash |-> NoBytes]

(* json.Unmarshal into a map[string]string: a null value leaves the string    *)
(* empty, any other value that is not a string is an error.                   *)
GetCBORFromJSON(body) ==
    CASE \E d \in StringDocs : body = Json(d) -> Cbor(body[2])
      [] \E d \in NullDocs : body = Json(d) -> Cbor(WithoutNull[body[2]])
      [] OTHER -> NoBytes

(* Mutant: the data is hashed and not the signature structure. *)
DataBytes(payload) == payload

GetSigStructBytes(payload) == SigStruct(ProtectedHeader, payload)

GetPayloadAndHashFromDataRequest(r) ==
    LET data == IF r.ctype = "json" THEN GetCBORFromJSON(r.body) ELSE r.body
    IN  IF r.ctype \notin {"json", "cbor"} \/ data = NoBytes
        THEN Refused
        ELSE Signs(data, Sha256(GetSigStructBytes(data)))

(* The bytes a body of a hash request stands for.  The other text encoding of *)
(* 32 bytes, where it decodes at all, has a wrong length.                     *)
HashBytes(r) ==
    CASE r.ctype = "bin" -> r.body
      [] r.ctype = "text" /\ r.body[1] = (IF r.hex THEN "hex" ELSE "base64") -> r.body[2]
      [] OTHER -> NoBytes

(* Mutant: the size of the hash is not checked. *)
AnyHash(r) ==
    IF HashBytes(r) = NoBytes THEN Refused ELSE Signs(r.body, HashBytes(r))

(* Any 32 bytes are a hash.  The payload is the body as it was received. *)
GetHashFromHashRequest(r) ==
    IF HashLen(HashBytes(r)) THEN Signs(r.body, HashBytes(r)) ELSE Refused

GetPayloadAndHash(r) ==
    CASE r.body = Unreadable -> Refused
      [] r.body # Unreadable /\ r.hash -> GetHashFromHashRequest(r)
      [] OTHER -> GetPayloadAndHashFromDataRequest(r)

-----------------------------------------------------------------------------
SignHash(key, hash) == <<"signature", key, hash>>

GetCOSE(kid, payload, signature) ==
    [protected |-> ProtectedHeader, kid |-> kid, payload |-> payload, signature |-> signature]

(* What a recipient checks with the public key of the certificate. *)
Verifies(cose, key) ==
    cose.signature = SignHash(key, Sha256(SigStruct(cose.protected, cose.payload)))

=============================================================================
