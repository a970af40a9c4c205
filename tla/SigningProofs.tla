---------------------------- MODULE SigningProofs ----------------------------
(***************************************************************************)
(* Lemmas about signing requests: what getPayloadAndHash returns, and what *)
(* a step of a request preserves while the table, the lookup and the cache *)
(* are as registration and the loader keep them.  CoseClientProofs rests   *)
(* on them.                                                                *)
(***************************************************************************)
EXTENDS Signing, SkidLoaderProofs

(* Every way to ask for the signature of a document is accepted and yields    *)
(* the digest of the document.                                                *)
LEMMA AskedIsAccepted ==
    ASSUME NEW r, NEW d \in Docs, AsksFor(r, d)
    PROVE  /\ GetPayloadAndHash(r).ok
           /\ GetPayloadAndHash(r).hash = DigestOf(d)
           /\ ~r.hash => GetPayloadAndHash(r).payload = Cbor(d)
<1>1. CASE ~r.hash /\ d \in StringDocs /\ r.ctype = "json" /\ r.body = Json(d)
  <2>1. d \notin NullDocs
    BY <1>1, DocsAssumption
  <2>2. GetCBORFromJSON(r.body) = Cbor(d)
    BY <1>1, <2>1 DEF GetCBORFromJSON, Json
  <2>3. Cbor(d) # NoBytes /\ r.body # Unreadable
    BY <1>1 DEF Cbor, NoBytes, Json, Unreadable
  <2> QED BY <1>1, <2>2, <2>3 DEF GetPayloadAndHash, GetPayloadAndHashFromDataRequest, Signs,
                                  DigestOf, GetSigStructBytes
<1>2. CASE ~r.hash /\ r.ctype = "cbor" /\ r.body = Cbor(d)
  <2>1. Cbor(d) # NoBytes /\ r.body # Unreadable
    BY <1>2 DEF Cbor, NoBytes, Unreadable
  <2> QED BY <1>2, <2>1 DEF GetPayloadAndHash, GetPayloadAndHashFromDataRequest, Signs,
                            DigestOf, GetSigStructBytes
<1>3. CASE r.hash /\ r.body # Unreadable /\ HashBytes(r) = DigestOf(d)
  <2>1. HashLen(DigestOf(d))
    BY DEF HashLen, DigestOf, Sha256
  <2> QED BY <1>3, <2>1 DEF GetPayloadAndHash, GetHashFromHashRequest, Signs
<1>4. ASSUME \/ r.ctype = "bin" /\ r.body = DigestOf(d)
             \/ r.ctype = "text" /\ r.hex /\ r.body = Hex(DigestOf(d))
             \/ r.ctype = "text" /\ ~r.hex /\ r.body = Base64(DigestOf(d))
      PROVE  HashBytes(r) = DigestOf(d) /\ r.body # Unreadable
  BY <1>4 DEF HashBytes, Hex, Base64, DigestOf, Sha256, Unreadable
<1> QED BY <1>1, <1>2, <1>3, <1>4 DEF AsksFor

(* What is accepted has 32 bytes to sign.                                     *)
LEMMA AcceptedHasLen ==
    ASSUME NEW r, GetPayloadAndHash(r).ok PROVE HashLen(GetPayloadAndHash(r).hash)
<1>1. CASE r.body # Unreadable /\ r.hash
  BY <1>1 DEF GetPayloadAndHash, GetHashFromHashRequest, Signs, Refused
<1>2. CASE r.body # Unreadable /\ ~r.hash
  <2>1. GetPayloadAndHashFromDataRequest(r).ok
    BY <1>2 DEF GetPayloadAndHash
  <2> QED BY <1>2, <2>1
          DEF GetPayloadAndHash, GetPayloadAndHashFromDataRequest, Signs, Refused, HashLen, Sha256
<1>3. CASE r.body = Unreadable
  BY <1>3 DEF GetPayloadAndHash, Refused
<1> QED BY <1>1, <1>2, <1>3

(* A data request that is accepted signs the structure over its payload.      *)
LEMMA DataHash ==
    ASSUME NEW r, ~r.hash, GetPayloadAndHash(r).ok
    PROVE  LET m == GetPayloadAndHash(r) IN m.hash = Sha256(SigStruct(ProtectedHeader, m.payload))
BY DEF GetPayloadAndHash, GetPayloadAndHashFromDataRequest, Signs, Refused, GetSigStructBytes

-----------------------------------------------------------------------------

(* A cached identity is the committed one, see CacheMirrorsTable. *)
CacheOK ==
    /\ identityCache \in [Uids -> Keys \cup {NoKey}]
    /\ \A u \in Uids : identityCache[u] # NoKey => identityCache[u] = rows[u]

(* What a request holds at each step: the key is the committed one and stays  *)
(* so, the certificate is one for that key, whenever it was looked up.        *)
SlotOK(x) ==
    /\ x.pc # "Idle" => x.uid \in Uids
    /\ x.pc \in SignPcs \ {"Idle", "GetIdentity"} => x.key \in Keys /\ rows[x.uid] = x.key
    /\ x.pc \in SignPcs \ {"GetSKID", "SignHash"} => x.msg = Refused
    /\ x.pc \in {"GetSKID", "SignHash"} =>
        x.msg = GetPayloadAndHash(x.req) /\ GetPayloadAndHash(x.req).ok
    /\ x.pc = "SignHash" => x.kid \in Certs /\ KeyOf[x.kid] = x.key

(* What the last answer says of the request it answers. *)
AnswerOK ==
    /\ answer.code \in {0, 200, 400, 401, 404, 500}
    /\ answer.code = 400 => answer.msg.ok \/ ~GetPayloadAndHash(answer.req).ok
    /\ answer.code = 200 =>
        /\ answer.uid \in Uids
        /\ answer.cose.kid \in Certs /\ KeyOf[answer.cose.kid] = rows[answer.uid]
        /\ answer.msg = GetPayloadAndHash(answer.req) /\ GetPayloadAndHash(answer.req).ok
        /\ answer.cose = GetCOSE(answer.cose.kid, answer.msg.payload,
                                 SignHash(rows[answer.uid], answer.msg.hash))

SignInv ==
    /\ sig \in [Slots -> SlotStates]
    /\ \A s \in Slots : SlotOK(sig[s])
    /\ AnswerOK

(* The properties that follow. *)
LEMMA SignInvType == SignInv => SignTypeOK
BY DEF SignInv, SignTypeOK, SlotOK, AnswerOK

(* A COSE object was made from what the invariant says of its request, so     *)
(* it verifies.                                                               *)
LEMMA SignInvVerifiable == SignInv => CoseVerifiable
<1> SUFFICES ASSUME SignInv, answer.code = 200
             PROVE  LET certified == KeyOf[answer.cose.kid]
                    IN  /\ rows[answer.uid] = certified
                        /\ IF answer.req.hash
                           THEN answer.cose.signature = SignHash(certified, answer.msg.hash)
                           ELSE Verifies(answer.cose, certified)
  BY DEF CoseVerifiable
<1>1. /\ KeyOf[answer.cose.kid] = rows[answer.uid]
      /\ answer.msg = GetPayloadAndHash(answer.req) /\ GetPayloadAndHash(answer.req).ok
      /\ answer.cose.signature = SignHash(rows[answer.uid], answer.msg.hash)
      /\ answer.cose.payload = answer.msg.payload
      /\ answer.cose.protected = ProtectedHeader
  BY DEF SignInv, AnswerOK, GetCOSE
<1>2. CASE ~answer.req.hash
  BY <1>1, <1>2, DataHash DEF Verifies
<1> QED BY <1>1, <1>2

(* What was accepted for a document is its digest.                            *)
LEMMA SignInvAsAsked == SignInv => SignedAsAsked
<1> SUFFICES ASSUME SignInv PROVE SignedAsAsked
  OBVIOUS
<1>1. answer.code = 200 => HashLen(answer.msg.hash)
  BY AcceptedHasLen DEF SignInv, AnswerOK
<1>2. ASSUME NEW d \in Docs, AsksFor(answer.req, d)
      PROVE  /\ answer.code = 400 => answer.msg.ok
             /\ answer.code = 200 =>
                 /\ answer.msg.hash = DigestOf(d)
                 /\ ~answer.req.hash => answer.cose.payload = Cbor(d)
  <2>1. answer.code = 200 => answer.cose.payload = answer.msg.payload
    BY DEF SignInv, AnswerOK, GetCOSE
  <2> QED BY <1>2, <2>1, AskedIsAccepted DEF SignInv, AnswerOK
<1> QED BY <1>1, <1>2 DEF SignedAsAsked

-----------------------------------------------------------------------------

(* One slot moves and nothing is answered. *)
LEMMA SlotMoves ==
    ASSUME SignInv, NEW s \in Slots, NEW x \in SlotStates, sig' = [sig EXCEPT ![s] = x],
           SlotOK(x), UNCHANGED <<rows, answer>>
    PROVE  SignInv'
BY DEF SignInv, SlotOK, AnswerOK

(* One slot is answered. *)
LEMMA Responds ==
    ASSUME SignInv, NEW s \in Slots, NEW code \in {200, 400, 401, 404, 500}, NEW cose,
           RespondWith(s, code, cose), UNCHANGED rows,
           code = 400 => sig[s].msg.ok \/ ~GetPayloadAndHash(sig[s].req).ok,
           code = 200 => /\ sig[s].pc = "SignHash"
                         /\ cose = GetCOSE(sig[s].kid, sig[s].msg.payload,
                                           SignHash(sig[s].key, sig[s].msg.hash))
    PROVE  SignInv'
<1>1. IdleSlot \in SlotStates
  BY DEF IdleSlot, SlotStates, SignPcs, Messages
<1>2. SlotOK(IdleSlot)'
  BY DEF SlotOK, IdleSlot
<1>3. /\ sig' = [sig EXCEPT ![s] = IdleSlot]
      /\ answer'.code = code /\ answer'.uid = sig[s].uid /\ answer'.req = sig[s].req
      /\ answer'.msg = sig[s].msg /\ answer'.cose = cose
  BY DEF RespondWith
<1>4. AnswerOK'
  <2>1. CASE code = 200
    <3>1. SlotOK(sig[s]) /\ cose.kid = sig[s].kid
      BY <2>1 DEF SignInv, GetCOSE
    <3> QED BY <1>3, <2>1, <3>1 DEF AnswerOK, SlotOK, SignPcs
  <2>2. CASE code # 200
    BY <1>3, <2>2 DEF AnswerOK
  <2> QED BY <2>1, <2>2
<1>5. ASSUME NEW r \in Slots PROVE SlotOK(sig[r])'
  BY <1>2, <1>3 DEF SignInv, SlotOK
<1> QED BY <1>1, <1>3, <1>4, <1>5 DEF SignInv

(* One lemma per group of actions.  A request arrives. *)
LEMMA SignReceiveInv ==
    ASSUME SignInv, NEW s \in Slots, SignReceive(s), UNCHANGED rows PROVE SignInv'
<1>1. PICK u \in Uids, r \in SignRequests :
        sig' = [sig EXCEPT ![s] = [IdleSlot EXCEPT !.pc = "GetIdentity", !.uid = u, !.req = r]]
  BY DEF SignReceive
<1> DEFINE x == [IdleSlot EXCEPT !.pc = "GetIdentity", !.uid = u, !.req = r]
<1>2. x \in SlotStates /\ x.pc = "GetIdentity" /\ x.uid \in Uids /\ x.msg = Refused
  BY DEF IdleSlot, SlotStates, SignPcs, Messages
<1> HIDE DEF x
<1>3. SlotOK(x)'
  BY <1>2 DEF SlotOK
<1>4. AnswerOK'
  BY DEF SignReceive, AnswerOK, NoAnswer
<1>5. sig' = [sig EXCEPT ![s] = x]
  BY <1>1 DEF x
<1> QED BY <1>2, <1>3, <1>4, <1>5 DEF SignInv, SlotOK

(* The identity is read, from the cache or from the table, and cached. *)
LEMMA IdentityReadInv ==
    ASSUME SignInv, NEW s \in Slots, NEW k \in Keys, NEW pc \in {"CacheStore", "CheckAuth"},
           sig[s].pc = "GetIdentity", rows[sig[s].uid] = k,
           sig' = [sig EXCEPT ![s].pc = pc, ![s].key = k], UNCHANGED <<rows, answer>>
    PROVE  SignInv'
<1> DEFINE x == [sig[s] EXCEPT !.pc = pc, !.key = k]
<1>1. sig[s] \in SlotStates /\ SlotOK(sig[s])
  BY DEF SignInv
<1>2. /\ x \in SlotStates /\ x.pc = pc /\ x.key = k
      /\ x.uid = sig[s].uid /\ x.msg = sig[s].msg
  BY <1>1 DEF SlotStates, SignPcs
<1>3. sig' = [sig EXCEPT ![s] = x]
  BY DEF SignInv
<1> HIDE DEF x
<1>4. SlotOK(x)
  BY <1>1, <1>2 DEF SlotOK, SignPcs
<1> QED BY <1>2, <1>3, <1>4, SlotMoves

(* The identity cache gets the row that was read: the row cannot have changed. *)
LEMMA CacheStoreInv ==
    ASSUME SignInv, CacheOK, NEW s \in Slots, IdentityCacheStore(s), UNCHANGED rows
    PROVE  SignInv' /\ CacheOK'
<1> DEFINE x == [sig[s] EXCEPT !.pc = "CheckAuth"]
<1>1. sig[s] \in SlotStates /\ SlotOK(sig[s]) /\ sig[s].pc = "CacheStore"
  BY DEF SignInv, IdentityCacheStore, SignGoto
<1>2. /\ x \in SlotStates /\ x.pc = "CheckAuth" /\ x.key = sig[s].key
      /\ x.uid = sig[s].uid /\ x.msg = sig[s].msg
  BY <1>1 DEF SlotStates, SignPcs
<1>3. sig' = [sig EXCEPT ![s] = x] /\ UNCHANGED answer
  BY DEF SignInv, IdentityCacheStore, SignGoto
<1>4. identityCache' = [identityCache EXCEPT ![sig[s].uid] = sig[s].key]
  BY DEF IdentityCacheStore, StoreInCache
<1> HIDE DEF x
<1>5. sig[s].uid \in Uids /\ sig[s].key \in Keys /\ rows[sig[s].uid] = sig[s].key
  BY <1>1 DEF SlotOK, SignPcs
<1>6. SlotOK(x)
  BY <1>1, <1>2 DEF SlotOK, SignPcs
<1>7. CacheOK'
  BY <1>4, <1>5 DEF CacheOK
<1> QED BY <1>2, <1>3, <1>6, <1>7, SlotMoves

(* The token is the identity's, and the payload is accepted. *)
LEMMA AuthOkInv ==
    ASSUME SignInv, NEW s \in Slots, AuthOk(s), UNCHANGED rows PROVE SignInv'
<1> DEFINE x == [sig[s] EXCEPT !.pc = "GetPayload"]
<1>1. sig[s] \in SlotStates /\ SlotOK(sig[s]) /\ sig[s].pc = "CheckAuth"
  BY DEF SignInv, AuthOk, SignGoto
<1>2. /\ x \in SlotStates /\ x.pc = "GetPayload" /\ x.key = sig[s].key
      /\ x.uid = sig[s].uid /\ x.msg = sig[s].msg
  BY <1>1 DEF SlotStates, SignPcs
<1>3. sig' = [sig EXCEPT ![s] = x] /\ UNCHANGED answer
  BY DEF SignInv, AuthOk, SignGoto
<1> HIDE DEF x
<1>4. SlotOK(x)
  BY <1>1, <1>2 DEF SlotOK, SignPcs
<1> QED BY <1>2, <1>3, <1>4, SlotMoves

(* The payload and the hash are kept with the request.                        *)
LEMMA PayloadAcceptedInv ==
    ASSUME SignInv, NEW s \in Slots, PayloadAccepted(s), UNCHANGED rows PROVE SignInv'
<1> DEFINE m == GetPayloadAndHash(sig[s].req)
           x == [sig[s] EXCEPT !.pc = "GetSKID", !.msg = m]
<1>1. sig[s] \in SlotStates /\ SlotOK(sig[s]) /\ sig[s].pc = "GetPayload" /\ m.ok
  BY DEF SignInv, PayloadAccepted
<1>2. m \in Messages
  <2>1. sig[s].req # NoRequest
    BY <1>1 DEF NoRequest, Request, GetPayloadAndHash, GetPayloadAndHashFromDataRequest,
                Refused, Junk, Unreadable
  <2> QED BY <1>1, <2>1 DEF SlotStates, Messages
<1>3. sig' = [sig EXCEPT ![s] = x] /\ UNCHANGED answer
  BY DEF SignInv, PayloadAccepted
<1> HIDE DEF m
<1>4. /\ x \in SlotStates /\ x.pc = "GetSKID" /\ x.key = sig[s].key
      /\ x.uid = sig[s].uid /\ x.msg = m /\ x.req = sig[s].req
  BY <1>1, <1>2 DEF SlotStates, SignPcs
<1> HIDE DEF x
<1>5. SlotOK(x)
  BY <1>1, <1>4 DEF SlotOK, SignPcs, m
<1> QED BY <1>3, <1>4, <1>5, SlotMoves

(* The SKID is one of a certificate for the committed key. *)
LEMMA SkidKnownInv ==
    ASSUME SignInv, LoaderInv, NEW s \in Slots, SkidKnown(s), UNCHANGED rows PROVE SignInv'
<1> DEFINE c == skidStore[sig[s].uid]
           x == [sig[s] EXCEPT !.pc = "SignHash", !.kid = c]
<1>1. /\ sig[s] \in SlotStates /\ SlotOK(sig[s]) /\ sig[s].pc = "GetSKID" /\ c # NoCert
      /\ sig[s].uid \in Uids /\ rows[sig[s].uid] = sig[s].key
  BY DEF SignInv, SkidKnown, SlotOK, SignPcs
<1>2. c \in Certs /\ KeyOf[c] = sig[s].key
  BY <1>1 DEF LoaderInv, LoaderTypeOK, StoreIsNewestMatch, IsNewestFor, UsableFor
<1>3. sig' = [sig EXCEPT ![s] = x] /\ UNCHANGED answer
  BY DEF SignInv, SkidKnown
<1> HIDE DEF c
<1>4. /\ x \in SlotStates /\ x.pc = "SignHash" /\ x.key = sig[s].key /\ x.kid = c
      /\ x.uid = sig[s].uid /\ x.msg = sig[s].msg /\ x.req = sig[s].req
  BY <1>1, <1>2 DEF SlotStates, SignPcs
<1> HIDE DEF x
<1>5. SlotOK(x)
  BY <1>1, <1>2, <1>4 DEF SlotOK, SignPcs
<1> QED BY <1>3, <1>4, <1>5, SlotMoves

(* Every answer but a COSE object. *)
LEMMA RefusedInv ==
    ASSUME SignInv, NEW s \in Slots, UNCHANGED rows,
           \/ InvalidUuid(s) \/ IdentityUnknown(s) \/ IdentityFault(s) \/ AuthRefused(s)
           \/ PayloadRefused(s) \/ SkidUnknown(s) \/ SigningFails(s)
    PROVE  SignInv'
<1>1. SlotOK(sig[s])
  BY DEF SignInv
<1>2. PICK code \in {400, 401, 404, 500} : Respond(s, code)
        /\ (code = 400 => sig[s].pc = "GetSKID" \/ ~GetPayloadAndHash(sig[s].req).ok)
  BY DEF InvalidUuid, IdentityUnknown, IdentityFault, AuthRefused, PayloadRefused, SkidUnknown,
         SigningFails
<1> QED BY <1>1, <1>2, Responds DEF Respond, SlotOK

(* The key and the certificate in hand belong together and to the row.        *)
LEMMA CreateSignedCOSEInv ==
    ASSUME SignInv, NEW s \in Slots, CreateSignedCOSE(s), UNCHANGED rows PROVE SignInv'
BY Responds DEF CreateSignedCOSE

(* A step of a request, while nothing else moves. *)
LEMMA SignStepInv ==
    ASSUME SignInv, CacheOK, LoaderInv, NEW s \in Slots, SignStep(s), UNCHANGED rows
    PROVE  SignInv' /\ CacheOK'
<1>1. CASE IdentityCacheStore(s)
  BY <1>1, CacheStoreInv
<1>2. CASE ~IdentityCacheStore(s)
  <2>1. UNCHANGED identityCache
    BY <1>2 DEF SignStep, SignReceive, InvalidUuid, IdentityFromCache, IdentityFromTable,
                IdentityUnknown, IdentityFault, AuthOk, AuthRefused, PayloadAccepted,
                PayloadRefused, SkidKnown, SkidUnknown, CreateSignedCOSE, SigningFails
  <2>2. CacheOK'
    BY <2>1 DEF CacheOK
  <2>3. ASSUME IdentityFromCache(s) \/ IdentityFromTable(s) PROVE SignInv'
    <3>1. SlotOK(sig[s])
      BY DEF SignInv
    <3> QED BY <2>3, <3>1, IdentityReadInv DEF IdentityFromCache, IdentityFromTable,
                IdentityCached, IdentityFetched, CacheOK, SlotOK
  <2> QED BY <1>2, <2>2, <2>3, SignReceiveInv, AuthOkInv, PayloadAcceptedInv, SkidKnownInv,
             RefusedInv, CreateSignedCOSEInv DEF SignStep
<1> QED BY <1>1, <1>2

(* Filled rows and a lookup that changes leave the requests alone: they hold  *)
(* what was committed, and a certificate for it. *)
LEMMA SignStays ==
    ASSUME SignInv, UNCHANGED signVars, \A u \in Uids : rows[u] # NoKey => rows'[u] = rows[u]
    PROVE  SignInv'
<1>1. UNCHANGED <<sig, answer>>
  BY DEF signVars
<1>2. ASSUME NEW s \in Slots PROVE SlotOK(sig[s])'
  BY <1>1, NoKeyAssumption DEF SignInv, SlotOK, SignPcs
<1>3. AnswerOK'
  BY <1>1, CertKey DEF SignInv, AnswerOK
<1> QED BY <1>1, <1>2, <1>3 DEF SignInv

(* No request survives the process. *)
LEMMA SignResetInv == SignReset => SignInv'
<1> SUFFICES ASSUME SignReset PROVE SignInv'
  OBVIOUS
<1>1. IdleSlot \in SlotStates
  BY DEF IdleSlot, SlotStates, SignPcs, Messages
<1>2. SlotOK(IdleSlot)'
  BY DEF SlotOK, IdleSlot
<1> QED BY <1>1, <1>2 DEF SignReset, SignInv, SlotOK, AnswerOK, NoAnswer

(* The initial states satisfy the invariant.                                  *)
LEMMA SignInitInv == SignInit => SignInv
<1> SUFFICES ASSUME SignInit PROVE SignInv
  OBVIOUS
<1>1. IdleSlot \in SlotStates
  BY DEF IdleSlot, SlotStates, SignPcs, Messages
<1>2. SlotOK(IdleSlot)
  BY DEF SlotOK, IdleSlot
<1> QED BY <1>1, <1>2 DEF SignInit, SignInv, SlotOK, AnswerOK, NoAnswer

=============================================================================
