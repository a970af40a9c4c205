------------------------------- MODULE Signing -------------------------------
(***************************************************************************)
(* Signing requests (main/services.go handleRequest, main/cose_signer.go   *)
(* Sign), next to the loader that replaces the SKIDs they use.             *)
(***************************************************************************)
EXTENDS SkidLoader, CoseRequest

CONSTANTS
    Slots,          \* goroutines that can serve a signing request at the same time
    SignRequests    \* the requests clients send

ASSUME SignRequestsAssumption == SignRequests \subseteq AllRequests

VARIABLES
    sig,            \* state of each slot
    answer          \* history: the last answer that was sent

signVars == <<sig, answer>>

SignPcs == {"Idle", "GetIdentity", "CacheStore", "CheckAuth", "GetPayload", "GetSKID", "SignHash"}

NoRequest == Request(FALSE, "other", FALSE, Junk)

IdleSlot == [pc |-> "Idle", uid |-> NoUid, req |-> NoRequest, key |-> NoKey,
             kid |-> NoCert, msg |-> Refused]

NoCose == GetCOSE(NoCert, NoBytes, SignHash(NoKey, NoBytes))

NoAnswer == [code |-> 0, uid |-> NoUid, req |-> NoRequest, msg |-> Refused, cose |-> NoCose]

(* What getPayloadAndHash has returned. *)
Messages == {Refused} \cup {GetPayloadAndHash(r) : r \in SignRequests}

(* key: the key pair of the identity the request has read; msg: the payload   *)
(* and the hash; kid: the SKID that was looked up.                            *)
SlotStates ==
    [pc : SignPcs, uid : Uids \cup {NoUid}, req : SignRequests \cup {NoRequest},
     key : Keys \cup {NoKey}, kid : Certs \cup {NoCert}, msg : Messages]

SignTypeOK ==
    /\ sig \in [Slots -> SlotStates]
    /\ \A s \in Slots : sig[s].pc \in {"GetSKID", "SignHash"} => sig[s].msg.ok
    /\ answer.code \in {0, 200, 400, 401, 404, 500}

SignInit ==
    /\ sig = [s \in Slots |-> IdleSlot]
    /\ answer = NoAnswer

-----------------------------------------------------------------------------
SignGoto(s, from, to) ==
    /\ sig[s].pc = from
    /\ sig' = [sig EXCEPT ![s].pc = to]

(* The response; it is kept until the next request arrives. *)
RespondWith(s, code, cose) ==
    /\ sig' = [sig EXCEPT ![s] = IdleSlot]
    /\ answer' = [code |-> code, uid |-> sig[s].uid, req |-> sig[s].req, msg |-> sig[s].msg,
                  cose |-> cose]

Respond(s, code) == RespondWith(s, code, NoCose)

SignReceive(s) ==
    /\ sig[s].pc = "Idle"
    /\ \E u \in Uids, r \in SignRequests :
        sig' = [sig EXCEPT ![s] = [IdleSlot EXCEPT !.pc = "GetIdentity", !.uid = u, !.req = r]]
    /\ answer' = NoAnswer
    /\ UNCHANGED identityCache

(* The UUID in the URL cannot be parsed. *)
InvalidUuid(s) == sig[s].pc = "Idle" /\ Respond(s, 404) /\ UNCHANGED identityCache

IdentityFromCache(s) ==
    /\ sig[s].pc = "GetIdentity"
    /\ \E k \in Keys :
        /\ IdentityCached(sig[s].uid, k)
        /\ sig' = [sig EXCEPT ![s].pc = "CheckAuth", ![s].key = k]
    /\ UNCHANGED <<answer, identityCache>>

IdentityFromTable(s) ==
    /\ sig[s].pc = "GetIdentity"
    /\ identityCache[sig[s].uid] = NoKey
    /\ \E k \in Keys :
        /\ IdentityFetched(sig[s].uid, k)
        /\ sig' = [sig EXCEPT ![s].pc = "CacheStore", ![s].key = k]
    /\ UNCHANGED <<answer, identityCache>>

IdentityCacheStore(s) ==
    /\ SignGoto(s, "CacheStore", "CheckAuth")
    /\ StoreInCache(sig[s].uid, sig[s].key)
    /\ UNCHANGED answer

IdentityUnknown(s) ==
    /\ sig[s].pc = "GetIdentity"
    /\ IdentityNotExist(sig[s].uid)
    /\ Respond(s, 404)
    /\ UNCHANGED identityCache

IdentityFault(s) ==
    /\ sig[s].pc = "GetIdentity"
    /\ identityCache[sig[s].uid] = NoKey
    /\ Respond(s, 500)
    /\ UNCHANGED identityCache

(* The token of the request is or is not the identity's. *)
AuthOk(s) == SignGoto(s, "CheckAuth", "GetPayload") /\ UNCHANGED <<answer, identityCache>>

AuthRefused(s) ==
    /\ sig[s].pc = "CheckAuth"
    /\ Respond(s, 401)
    /\ UNCHANGED identityCache

(* Mutant: the error of getPayloadAndHash is not returned. *)
PayloadErrorIgnored(s) ==
    /\ sig[s].pc = "GetPayload"
    /\ sig' = [sig EXCEPT ![s].pc = "GetSKID", ![s].msg = GetPayloadAndHash(sig[s].req)]
    /\ UNCHANGED <<answer, identityCache>>

PayloadAccepted(s) ==
    /\ sig[s].pc = "GetPayload"
    /\ GetPayloadAndHash(sig[s].req).ok
    /\ sig' = [sig EXCEPT ![s].pc = "GetSKID", ![s].msg = GetPayloadAndHash(sig[s].req)]
    /\ UNCHANGED <<answer, identityCache>>

PayloadRefused(s) ==
    /\ sig[s].pc = "GetPayload"
    /\ ~GetPayloadAndHash(sig[s].req).ok
    /\ Respond(s, 400)
    /\ UNCHANGED identityCache

SkidKnown(s) ==
    /\ sig[s].pc = "GetSKID"
    /\ skidStore[sig[s].uid] # NoCert
    /\ sig' = [sig EXCEPT ![s].pc = "SignHash", ![s].kid = skidStore[sig[s].uid]]
    /\ UNCHANGED <<answer, identityCache>>

SkidUnknown(s) ==
    /\ sig[s].pc = "GetSKID"
    /\ skidStore[sig[s].uid] = NoCert
    /\ Respond(s, 400)
    /\ UNCHANGED identityCache

CreateSignedCOSE(s) ==
    /\ sig[s].pc = "SignHash"
    /\ LET signature == SignHash(sig[s].key, sig[s].msg.hash)
       IN  RespondWith(s, 200, GetCOSE(sig[s].kid, sig[s].msg.payload, signature))
    /\ UNCHANGED identityCache

SigningFails(s) ==
    /\ sig[s].pc = "SignHash"
    /\ Respond(s, 500)
    /\ UNCHANGED identityCache

SignStep(s) ==
    \/ SignReceive(s) \/ InvalidUuid(s)
    \/ IdentityFromCache(s) \/ IdentityFromTable(s) \/ IdentityCacheStore(s)
    \/ IdentityUnknown(s) \/ IdentityFault(s)
    \/ AuthOk(s) \/ AuthRefused(s)
    \/ PayloadAccepted(s) \/ PayloadRefused(s)
    \/ SkidKnown(s) \/ SkidUnknown(s)
    \/ CreateSignedCOSE(s) \/ SigningFails(s)

(* The process dies: the requests it serves are gone. *)
SignReset ==
    /\ sig' = [s \in Slots |-> IdleSlot]
    /\ answer' = NoAnswer

signingVars == <<rows, tx, identityCache, skidStore, uidCache, failCount, ld, trustList,
                 installed, sig, answer>>

(* Signing alone; CoseClient puts it next to everything else. *)
ServingNext ==
    \E s \in Slots : SignStep(s) /\ UNCHANGED <<rows, tx>> /\ UNCHANGED loaderVars

-----------------------------------------------------------------------------
SigningTypeOK == SkidTypeOK /\ SignTypeOK

(* A recipient can verify a COSE object with the certificate it names by its  *)
(* kid, with the document in the place of the payload if only the hash was    *)
(* sent, and that certificate is for the key the table binds to the identity: *)
(* the key comes from the identity cache, the kid from the loader's lookup,   *)
(* at two moments between which either may change.                            *)
CoseVerifiable ==
    answer.code = 200 =>
        LET certified == KeyOf[answer.cose.kid]
        IN  /\ rows[answer.uid] = certified
            /\ IF answer.req.hash
               THEN answer.cose.signature = SignHash(certified, answer.msg.hash)
               ELSE Verifies(answer.cose, certified)

(* The document a request asks to have signed, by the README: a string        *)
(* document as JSON, anything as CBOR, or the digest made from it in one of   *)
(* three encodings.                                                           *)
AsksFor(r, d) ==
    \/ ~r.hash /\ d \in StringDocs /\ r.ctype = "json" /\ r.body = Json(d)
    \/ ~r.hash /\ r.ctype = "cbor" /\ r.body = Cbor(d)
    \/ r.hash /\ r.ctype = "bin" /\ r.body = DigestOf(d)
    \/ r.hash /\ r.ctype = "text" /\ r.hex /\ r.body = Hex(DigestOf(d))
    \/ r.hash /\ r.ctype = "text" /\ ~r.hex /\ r.body = Base64(DigestOf(d))

(* All ways to ask for the signature of a document are accepted and sign the  *)
(* same hash, so a COSE object made from a hash verifies once the document is *)
(* inserted; a data request returns the document it signed; and whatever is   *)
(* sent, in whatever encoding it is said to be, only 32 bytes are signed, so  *)
(* a hash in one encoding is never signed as a hash in another.               *)
SignedAsAsked ==
    /\ \A d \in Docs : AsksFor(answer.req, d) =>
        /\ answer.code = 400 => answer.msg.ok
        /\ answer.code = 200 =>
            /\ answer.msg.hash = DigestOf(d)
            /\ ~answer.req.hash => answer.cose.payload = Cbor(d)
    /\ answer.code = 200 => HashLen(answer.msg.hash)

(* "payload : bstr,  # original data or SHA256 hash (depending on request     *)
(* content)" (README.md:36): the payload for a hash request is the hash.      *)
HashPayloadIsHash ==
    answer.code = 200 /\ answer.req.hash => answer.cose.payload = answer.msg.hash

(* "When receiving a JSON data package, the service will encode it with       *)
(* Canonical CBOR rules." (README.md:11), "original data as JSON" being any   *)
(* document (README.md:7), the one with a number in README.md:129 among them: *)
(* it is not refused for what it holds, and what is signed is its encoding.   *)
JsonIsEncoded ==
    \A d \in Docs : ~answer.req.hash /\ answer.req.ctype = "json" /\ answer.req.body = Json(d) =>
        /\ answer.code = 400 => answer.msg.ok
        /\ answer.code = 200 => answer.cose.payload = Cbor(d)

=============================================================================
