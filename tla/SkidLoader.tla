------------------------------ MODULE SkidLoader ------------------------------
(***************************************************************************)
(* The goroutine that loads the list of public key certificates and        *)
(* matches it with the identities of the table (main/protocol.go,          *)
(* main/extended_client.go).  The SKID of an identity is the kid of its    *)
(* certificate; a certificate stands for its kid.                          *)
(***************************************************************************)
EXTENDS Context, Sequences

CONSTANTS
    Certs, NoCert,
    KeyOf,                  \* [Certs -> Keys]: the certified public key
    Form,                   \* [Certs -> Forms]
    Lists,                  \* certificate lists the server can publish
    MaxCertLoadFailCount    \* maxCertLoadFailCount

(* usable, not parseable, public key not encodable, kid of a wrong length *)
Forms == {"good", "badX509", "badKey", "badKid"}

ASSUME NoCertAssumption == NoCert \notin Certs
ASSUME CertsAssumption == KeyOf \in [Certs -> Keys] /\ Form \in [Certs -> Forms]
ASSUME ListsAssumption == Lists \subseteq Seq(Certs) /\ <<>> \in Lists
ASSUME MaxCertLoadFailCountAssumption == MaxCertLoadFailCount \in Nat \ {0}

VARIABLES
    skidStore,  \* [Uids -> Certs \cup {NoCert}]
    uidCache,   \* [Keys -> Uids \cup {NoUid}]: the process's sync.Map
    failCount,  \* certLoadFailCounter; it saturates, see CountFailure
    ld,         \* the loader: pc, the list it works on, its position, tempSkidStore
    trustList,  \* the list the server publishes
    installed   \* history: the list skidStore was made from

loaderVars == <<skidStore, uidCache, failCount, ld, trustList, installed>>
skidVars == <<rows, tx, identityCache, skidStore, uidCache, failCount, ld, trustList, installed>>

NoSkids == [u \in Uids |-> NoCert]

(* pc "waiting": for the next tick; "list", "key": for the answer to the      *)
(* request for the list and for the key that signed it; "match": the list is  *)
(* verified and the certificate at position next is looked up.                *)
LoaderStates ==
    [pc : {"waiting", "list", "key", "match"}, list : Lists, next : Nat,
     temp : [Uids -> Certs \cup {NoCert}]]

LoaderTypeOK ==
    /\ skidStore \in [Uids -> Certs \cup {NoCert}]
    /\ uidCache \in [Keys -> Uids \cup {NoUid}]
    /\ failCount \in 0..(MaxCertLoadFailCount + 1)
    /\ ld \in LoaderStates
    /\ ld.next \in 1..(Len(ld.list) + 1)
    /\ trustList \in Lists
    /\ installed \in Lists

LoaderIdle(pc) == [pc |-> pc, list |-> <<>>, next |-> 1, temp |-> NoSkids]

LoaderReset ==
    /\ skidStore' = NoSkids
    /\ uidCache' = [k \in Keys |-> NoUid]
    /\ failCount' = 0
    /\ ld' = LoaderIdle("list")
    /\ installed' = <<>>

LoaderInit ==
    /\ skidStore = NoSkids
    /\ uidCache = [k \in Keys |-> NoUid]
    /\ failCount = 0
    /\ ld = LoaderIdle("list")
    /\ trustList = <<>>
    /\ installed = <<>>

-----------------------------------------------------------------------------
(* Mutant: the loader gives up when it has cleared the lookup. *)
TickUntilCleared ==
    /\ ld.pc = "waiting" /\ failCount < MaxCertLoadFailCount
    /\ ld' = LoaderIdle("list")
    /\ UNCHANGED <<skidStore, uidCache, failCount, trustList, installed>>

Tick ==
    /\ ld.pc = "waiting"
    /\ ld' = LoaderIdle("list")
    /\ UNCHANGED <<skidStore, uidCache, failCount, trustList, installed>>

ListArrives ==
    /\ ld.pc = "list"
    /\ ld' = [ld EXCEPT !.pc = "key", !.list = trustList]
    /\ UNCHANGED <<skidStore, uidCache, failCount, trustList, installed>>

(* The signature of the list is good: the matching starts. *)
ListVerified ==
    /\ ld.pc = "key"
    /\ ld' = [ld EXCEPT !.pc = "match"]
    /\ failCount' = 0
    /\ UNCHANGED <<skidStore, uidCache, trustList, installed>>

(* Mutant: the counter is compared before it is incremented. *)
CountFailureOffByOne ==
    /\ failCount' = IF failCount > MaxCertLoadFailCount THEN failCount ELSE failCount + 1
    /\ IF failCount = MaxCertLoadFailCount
       THEN skidStore' = NoSkids /\ installed' = <<>>
       ELSE UNCHANGED <<skidStore, installed>>
    /\ ld' = LoaderIdle("waiting")
    /\ UNCHANGED <<uidCache, trustList>>

(* The lookup is cleared by the failure that makes the counter equal to the   *)
(* maximum.  Only that equality is asked of the counter, so all values above  *)
(* the maximum are one.                                                       *)
CountFailure ==
    /\ failCount' = IF failCount > MaxCertLoadFailCount THEN failCount ELSE failCount + 1
    /\ IF failCount' = MaxCertLoadFailCount
       THEN skidStore' = NoSkids /\ installed' = <<>>
       ELSE UNCHANGED <<skidStore, installed>>
    /\ ld' = LoaderIdle("waiting")
    /\ UNCHANGED <<uidCache, trustList>>

(* One of the two requests fails: the host has no pinned certificate or shows *)
(* another one, the transport or the status is an error, the answer does not  *)
(* have the two parts of a signed list.                                       *)
RequestFails == ld.pc \in {"list", "key"} /\ CountFailure

(* The list was not signed with the key that was requested after it, which    *)
(* may be a newer one, or it does not parse.                                  *)
ListRefused == ld.pc = "key" /\ CountFailure

Cert == ld.list[ld.next]

Matching == ld.pc = "match" /\ ld.next <= Len(ld.list)

Parses(c) == Form[c] \in {"good", "badKid"}

(* GetUuidForPublicKey: the uid comes from the cache, or from the table. *)
UidCached(k, u) == u # NoUid /\ uidCache[k] = u /\ UNCHANGED uidCache

(* Mutant: the uid is not stored in the cache. *)
UidFetchedNotCached(k, u) ==
    /\ uidCache[k] = NoUid
    /\ PoolHasConn
    /\ rows[u] = k
    /\ UNCHANGED uidCache

UidFetched(k, u) ==
    /\ uidCache[k] = NoUid
    /\ PoolHasConn
    /\ rows[u] = k
    /\ uidCache' = [uidCache EXCEPT ![k] = u]

UidNotExist(k) ==
    /\ uidCache[k] = NoUid
    /\ PoolHasConn
    /\ \A u \in Uids : rows[u] # k

(* A kid of a wrong length is only found after the lookup. *)
TempWith(u, c) == IF Form[c] = "good" THEN [ld.temp EXCEPT ![u] = c] ELSE ld.temp

MatchCert ==
    /\ Matching
    /\ Parses(Cert)
    /\ \E u \in Uids :
        /\ UidCached(KeyOf[Cert], u) \/ UidFetched(KeyOf[Cert], u)
        /\ ld' = [ld EXCEPT !.next = @ + 1, !.temp = TempWith(u, Cert)]
    /\ UNCHANGED <<skidStore, failCount, trustList, installed>>

(* Mutant: the certificate behind a useless one is skipped, too. *)
SkipTwoCerts ==
    /\ Matching
    /\ ~Parses(Cert) \/ UidNotExist(KeyOf[Cert])
    /\ ld' = [ld EXCEPT !.next = @ + 2]
    /\ UNCHANGED <<skidStore, uidCache, failCount, trustList, installed>>

(* The certificate is of no use, or its key belongs to no identity here. *)
SkipCert ==
    /\ Matching
    /\ ~Parses(Cert) \/ UidNotExist(KeyOf[Cert])
    /\ ld' = [ld EXCEPT !.next = @ + 1]
    /\ UNCHANGED <<skidStore, uidCache, failCount, trustList, installed>>

(* The lookup ends with another error: the certificate is skipped. *)
LookupFails ==
    /\ Matching
    /\ Parses(Cert)
    /\ uidCache[KeyOf[Cert]] = NoUid
    /\ ld' = [ld EXCEPT !.next = @ + 1]
    /\ UNCHANGED <<skidStore, uidCache, failCount, trustList, installed>>

(* Mutant: the matches are added to the lookup and nothing is dropped. *)
InstallMerged ==
    /\ ld.pc = "match"
    /\ ld.next > Len(ld.list)
    /\ skidStore' = [u \in Uids |-> IF ld.temp[u] = NoCert THEN skidStore[u] ELSE ld.temp[u]]
    /\ installed' = ld.list
    /\ ld' = LoaderIdle("waiting")
    /\ UNCHANGED <<uidCache, failCount, trustList>>

Install ==
    /\ ld.pc = "match"
    /\ ld.next > Len(ld.list)
    /\ skidStore' = ld.temp
    /\ installed' = ld.list
    /\ ld' = LoaderIdle("waiting")
    /\ UNCHANGED <<uidCache, failCount, trustList>>

LoaderStep ==
    \/ Tick \/ ListArrives \/ ListVerified \/ RequestFails \/ ListRefused
    \/ MatchCert \/ SkipCert \/ LookupFails \/ Install

(* The server publishes another list. *)
Publish(list) ==
    /\ trustList' = list
    /\ UNCHANGED <<skidStore, uidCache, failCount, ld, installed>>

(* A registration that commits; Registration has its steps. *)
Register(u, k) ==
    /\ rows[u] = NoKey
    /\ \A v \in Uids : rows[v] # k
    /\ rows' = [rows EXCEPT ![u] = k]
    /\ UNCHANGED <<tx, identityCache>>

LoaderRestart == LoaderReset /\ UNCHANGED trustList

(* Everything but a restart of the process. *)
ServiceNext ==
    \/ LoaderStep /\ UNCHANGED contextVars
    \/ \E list \in Lists : Publish(list) /\ UNCHANGED contextVars
    \/ \E u \in Uids, k \in Keys : Register(u, k) /\ UNCHANGED loaderVars

SkidNext == ServiceNext \/ (LoaderRestart /\ ContextCrash)

SkidInit == ContextInit /\ LoaderInit

SkidSpec == SkidInit /\ [][SkidNext]_skidVars

-----------------------------------------------------------------------------
(* The loader's own steps: what it does without waiting for the server. *)
OwnStep == Tick \/ MatchCert \/ SkipCert \/ LookupFails \/ Install

OwnFairness == WF_skidVars(OwnStep /\ UNCHANGED contextVars)

(* The servers and the database give a good answer again and again. *)
AnswerFairness ==
    /\ SF_skidVars(ListArrives /\ UNCHANGED contextVars)
    /\ SF_skidVars(ListVerified /\ UNCHANGED contextVars)
    /\ \A c \in Certs : SF_skidVars(MatchCert /\ Cert = c /\ UNCHANGED contextVars)

(* After the last restart.  In the first specification the loader does its    *)
(* part but no answer is certain: time.Tick goes on ticking, and the requests *)
(* of RequestCertificateList have no timeout.                                 *)
UnansweredSkidSpec == SkidInit /\ [][ServiceNext]_skidVars /\ OwnFairness

FairSkidSpec == UnansweredSkidSpec /\ AnswerFairness

-----------------------------------------------------------------------------
(* Positions in a list of the certificates that give identity u its SKID. *)
UsableFor(u, list) ==
    {i \in DOMAIN list : Form[list[i]] = "good" /\ KeyOf[list[i]] = rows[u]}

(* The last one. *)
IsNewestFor(u, list, c) ==
    \E i \in UsableFor(u, list) : list[i] = c /\ \A j \in UsableFor(u, list) : j <= i

SkidTypeOK == ContextTypeOK /\ LoaderTypeOK

(* The SKID of an identity is the kid of the last usable certificate for its  *)
(* committed key in one list the server published, never of an earlier list,  *)
(* another key or an outdated certificate, although lookups of the same list  *)
(* fail one by one and rows are committed while the list is matched.          *)
StoreIsNewestMatch ==
    \A u \in Uids : skidStore[u] # NoCert => IsNewestFor(u, installed, skidStore[u])

(* While maxCertLoadFailCount or more loads have failed in a row, no SKID is  *)
(* known: the counter is compared with = and not with >=, and still no list   *)
(* outlives the limit.                                                        *)
StoreEmptyAfterMaxFailures ==
    failCount >= MaxCertLoadFailCount => skidStore = NoSkids

(* A reload does not take the SKID from an identity that has a certificate in *)
(* the new list, even when every database lookup of the reload fails.         *)
ReloadKeepsMatched ==
    [][ld.pc = "match" /\ ld'.pc = "waiting" =>
        \A u \in Uids :
            skidStore[u] # NoCert /\ UsableFor(u, ld.list) # {} => skidStore'[u] # NoCert]_skidVars

(* An identity whose certificate stays on the published list can sign with it *)
(* again and again, whatever failed before: the loader neither stops nor      *)
(* remembers a failed lookup.                                                 *)
NewestCertPickedUp ==
    \A u \in Uids, c \in Certs :
        <>[]IsNewestFor(u, trustList, c) => []<>(skidStore[u] = c)

(* "load public key certificate list from server and check for new            *)
(* certificates frequently" (main/protocol.go:91).                            *)
CertsCheckedFrequently == []<><<Tick>>_skidVars

=============================================================================
