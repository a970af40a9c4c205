--------------------------- MODULE SkidLoaderProofs ---------------------------
(***************************************************************************)
(* Proofs about the loader, for any identities, keys, certificates, lists  *)
(* and any number of failures that clear the lookup.  The inductive        *)
(* invariant says nothing of transactions and of the identity cache, so    *)
(* that it serves the loader wherever rows are filled and never changed.   *)
(***************************************************************************)
EXTENDS SkidLoader, TLAPS

(* What the loader knows of the table: a key belongs to one identity, and the *)
(* uid that was cached for a key has it.                                      *)
RowsOK == rows \in [Uids -> Keys \cup {NoKey}]

KeyHasOneUid ==
    \A u, v \in Uids : rows[u] # NoKey /\ rows[u] = rows[v] => u = v

UidCacheIsTrue ==
    \A k \in Keys : uidCache[k] # NoUid => rows[uidCache[k]] = k

(* A load starts with nothing, and no failure is counted while it matches.    *)
LoadIsFresh ==
    /\ ld.pc \in {"list", "key"} => ld.next = 1 /\ ld.temp = NoSkids
    /\ ld.pc = "match" => failCount = 0

(* The uid of an identity with a SKID is cached, hence its next lookup cannot *)
(* fail.                                                                      *)
UidKnown(u) == rows[u] \in Keys /\ uidCache[rows[u]] = u

StoredUidIsCached == \A u \in Uids : skidStore[u] # NoCert => UidKnown(u)

(* What has been matched so far is the last usable certificate among those    *)
(* already seen.                                                              *)
Seen(u) == {i \in UsableFor(u, ld.list) : i < ld.next}

MatchedIsNewestSeen ==
    ld.pc = "match" =>
        \A u \in Uids : ld.temp[u] # NoCert =>
            /\ UidKnown(u)
            /\ \E i \in Seen(u) : ld.list[i] = ld.temp[u] /\ \A j \in Seen(u) : j <= i

(* An identity that has a SKID gets one from the certificates already seen.   *)
MatchedIfStored ==
    ld.pc = "match" =>
        \A u \in Uids : skidStore[u] # NoCert /\ Seen(u) # {} => ld.temp[u] # NoCert

LoaderInv ==
    /\ RowsOK /\ LoaderTypeOK
    /\ KeyHasOneUid /\ UidCacheIsTrue
    /\ LoadIsFresh /\ StoredUidIsCached /\ MatchedIsNewestSeen /\ MatchedIfStored
    /\ StoreIsNewestMatch /\ StoreEmptyAfterMaxFailures

-----------------------------------------------------------------------------

USE NoUidAssumption, NoKeyAssumption, NoCertAssumption, MaxCertLoadFailCountAssumption

(* What the lists of the server hold. *)
LEMMA ListCerts ==
    ASSUME NEW list \in Lists
    PROVE  /\ Len(list) \in Nat
           /\ DOMAIN list = 1..Len(list)
           /\ \A i \in 1..Len(list) : list[i] \in Certs
<1>1. list \in Seq(Certs)
  BY ListsAssumption
<1> QED BY <1>1

(* Every certificate has a key and a form. *)
LEMMA CertKey == \A c \in Certs : KeyOf[c] \in Keys /\ KeyOf[c] # NoKey
BY CertsAssumption

(* The loader's state with a new position and a new match. *)
LEMMA LoadWith ==
    ASSUME NEW l \in LoaderStates, NEW n \in Nat, NEW t \in [Uids -> Certs \cup {NoCert}]
    PROVE  [l EXCEPT !.next = n, !.temp = t] \in LoaderStates
BY DEF LoaderStates

(* After a step of the matching, the certificate just seen may be usable.     *)
LEMMA SeenNext ==
    ASSUME LoaderInv, Matching, ld'.list = ld.list, ld'.next = ld.next + 1,
           UNCHANGED rows, NEW u \in Uids
    PROVE  /\ Form[Cert] = "good" /\ KeyOf[Cert] = rows[u] => Seen(u)' = Seen(u) \cup {ld.next}
           /\ ~(Form[Cert] = "good" /\ KeyOf[Cert] = rows[u]) => Seen(u)' = Seen(u)
           /\ \A i \in Seen(u) : i \in Nat /\ i < ld.next
<1>1. ld.list \in Lists /\ ld.next \in Nat /\ ld.next \in 1..Len(ld.list)
  BY ListCerts DEF LoaderInv, LoaderTypeOK, LoaderStates, Matching
<1>2. DOMAIN ld.list = 1..Len(ld.list) /\ Len(ld.list) \in Nat
  BY <1>1, ListCerts
<1> QED BY <1>1, <1>2 DEF Seen, UsableFor, Cert

(* One lemma per action.  A tick starts a load with nothing. *)
LEMMA TickInv == ASSUME LoaderInv, Tick, UNCHANGED rows PROVE LoaderInv'
<1>1. LoaderIdle("list") \in LoaderStates
  BY ListsAssumption DEF LoaderIdle, LoaderStates, NoSkids
<1>2. /\ ld' = LoaderIdle("list")
      /\ UNCHANGED <<rows, skidStore, uidCache, failCount, trustList, installed>>
  BY DEF Tick
<1>3. ld'.pc = "list" /\ ld'.next = 1 /\ ld'.temp = NoSkids /\ ld'.list = <<>>
  BY <1>2 DEF LoaderIdle
<1>4. LoaderTypeOK'
  BY <1>1, <1>2, <1>3 DEF LoaderInv, LoaderTypeOK, LoaderStates
<1> QED BY <1>2, <1>3, <1>4 DEF LoaderInv, RowsOK, KeyHasOneUid, UidCacheIsTrue, LoadIsFresh,
             StoredUidIsCached, UidKnown, MatchedIsNewestSeen, MatchedIfStored,
             StoreIsNewestMatch, IsNewestFor, UsableFor, StoreEmptyAfterMaxFailures

(* The list arrives.                                                          *)
LEMMA ListArrivesInv == ASSUME LoaderInv, ListArrives, UNCHANGED rows PROVE LoaderInv'
<1>1. /\ ld' = [ld EXCEPT !.pc = "key", !.list = trustList] /\ ld.pc = "list"
      /\ UNCHANGED <<rows, skidStore, uidCache, failCount, trustList, installed>>
  BY DEF ListArrives
<1>2. ld'.pc = "key" /\ ld'.next = 1 /\ ld'.temp = NoSkids /\ ld'.list = trustList
  BY <1>1 DEF LoaderInv, LoaderTypeOK, LoaderStates, LoadIsFresh
<1>3. LoaderTypeOK'
  <2>1. trustList \in Lists /\ Len(trustList) \in Nat
    BY ListCerts DEF LoaderInv, LoaderTypeOK, LoaderStates
  <2>2. ld' \in LoaderStates
    BY <1>1, <2>1 DEF LoaderInv, LoaderTypeOK, LoaderStates
  <2> QED BY <1>1, <1>2, <2>1, <2>2 DEF LoaderInv, LoaderTypeOK, LoaderStates
<1> QED BY <1>1, <1>2, <1>3 DEF LoaderInv, RowsOK, KeyHasOneUid, UidCacheIsTrue, LoadIsFresh,
             StoredUidIsCached, UidKnown, MatchedIsNewestSeen, MatchedIfStored,
             StoreIsNewestMatch, IsNewestFor, UsableFor, StoreEmptyAfterMaxFailures

(* The matching starts: nothing is seen, nothing is matched.                  *)
LEMMA ListVerifiedInv == ASSUME LoaderInv, ListVerified, UNCHANGED rows PROVE LoaderInv'
<1>1. /\ ld' = [ld EXCEPT !.pc = "match"] /\ ld.pc = "key" /\ failCount' = 0
      /\ UNCHANGED <<rows, skidStore, uidCache, trustList, installed>>
  BY DEF ListVerified
<1>2. ld'.pc = "match" /\ ld'.next = 1 /\ ld'.temp = NoSkids /\ ld'.list = ld.list
  BY <1>1 DEF LoaderInv, LoaderTypeOK, LoaderStates, LoadIsFresh
<1>3. LoaderTypeOK'
  BY <1>1, <1>2 DEF LoaderInv, LoaderTypeOK, LoaderStates
<1>4. ASSUME NEW u \in Uids PROVE Seen(u)' = {} /\ ld'.temp[u] = NoCert
  BY <1>2, <1>3, ListCerts DEF Seen, UsableFor, NoSkids, LoaderTypeOK, LoaderStates
<1>5. MatchedIsNewestSeen' /\ MatchedIfStored'
  BY <1>4 DEF MatchedIsNewestSeen, MatchedIfStored
<1> QED BY <1>1, <1>2, <1>3, <1>5 DEF LoaderInv, RowsOK, KeyHasOneUid, UidCacheIsTrue,
             LoadIsFresh, StoredUidIsCached, UidKnown,
             StoreIsNewestMatch, IsNewestFor, UsableFor, StoreEmptyAfterMaxFailures

(* A failure: it clears the lookup, or there is none, or it is not the last.  *)
LEMMA FailureInv ==
    ASSUME LoaderInv, ld.pc \in {"list", "key"}, CountFailure, UNCHANGED rows PROVE LoaderInv'
<1>1. LoaderIdle("waiting") \in LoaderStates
  BY ListsAssumption DEF LoaderIdle, LoaderStates, NoSkids
<1>2. ld' = LoaderIdle("waiting") /\ UNCHANGED <<rows, uidCache, trustList>>
  BY DEF CountFailure
<1>3. ld'.pc = "waiting" /\ ld'.next = 1 /\ ld'.list = <<>>
  BY <1>2 DEF LoaderIdle
<1>4. \/ failCount' = MaxCertLoadFailCount /\ skidStore' = NoSkids /\ installed' = <<>>
      \/ failCount' # MaxCertLoadFailCount /\ UNCHANGED <<skidStore, installed>>
  BY DEF CountFailure
<1>5. failCount' \in 0..(MaxCertLoadFailCount + 1)
      /\ (failCount' > MaxCertLoadFailCount => failCount >= MaxCertLoadFailCount)
  BY DEF CountFailure, LoaderInv, LoaderTypeOK, LoaderStates
<1>6. LoaderTypeOK'
  BY <1>1, <1>2, <1>3, <1>4, <1>5, ListsAssumption
     DEF LoaderInv, LoaderTypeOK, LoaderStates, NoSkids
<1>7. StoreEmptyAfterMaxFailures'
  BY <1>4, <1>5 DEF LoaderInv, LoaderTypeOK, LoaderStates, StoreEmptyAfterMaxFailures
<1>8. StoreIsNewestMatch' /\ StoredUidIsCached'
  BY <1>2, <1>4 DEF LoaderInv, StoreIsNewestMatch, IsNewestFor, UsableFor, StoredUidIsCached,
                    UidKnown, NoSkids
<1> QED BY <1>2, <1>3, <1>6, <1>7, <1>8 DEF LoaderInv, RowsOK, KeyHasOneUid, UidCacheIsTrue,
             LoadIsFresh, MatchedIsNewestSeen, MatchedIfStored

(* The matching goes on to the next certificate.  Nothing is lost when the    *)
(* certificate just seen is not usable for an identity whose uid is known.    *)
LEMMA SkippedInv ==
    ASSUME LoaderInv, Matching, ld' = [ld EXCEPT !.next = @ + 1],
           UNCHANGED <<rows, skidStore, uidCache, failCount, trustList, installed>>,
           \A u \in Uids : Form[Cert] = "good" /\ KeyOf[Cert] = rows[u] => ~UidKnown(u)
    PROVE  LoaderInv'
<1>1. /\ ld'.pc = "match" /\ ld.pc = "match" /\ ld'.next = ld.next + 1
      /\ ld'.temp = ld.temp /\ ld'.list = ld.list
  BY DEF LoaderInv, LoaderTypeOK, LoaderStates, Matching
<1>2. LoaderTypeOK'
  <2>1. ld.list \in Lists /\ Len(ld.list) \in Nat
    BY ListCerts DEF LoaderInv, LoaderTypeOK, LoaderStates
  <2> QED BY <1>1, <2>1 DEF LoaderInv, LoaderTypeOK, LoaderStates, Matching
<1>3. ASSUME NEW u \in Uids, UidKnown(u) PROVE Seen(u)' = Seen(u)
  BY <1>1, <1>3, SeenNext
<1>4. MatchedIsNewestSeen'
  BY <1>1, <1>3 DEF LoaderInv, MatchedIsNewestSeen, UidKnown
<1>5. MatchedIfStored'
  BY <1>1, <1>3 DEF LoaderInv, MatchedIfStored, StoredUidIsCached
<1> QED BY <1>1, <1>2, <1>4, <1>5 DEF LoaderInv, RowsOK, KeyHasOneUid, UidCacheIsTrue,
             LoadIsFresh, StoredUidIsCached, UidKnown,
             StoreIsNewestMatch, IsNewestFor, UsableFor, StoreEmptyAfterMaxFailures

(* A certificate of no use is usable for nobody.                              *)
LEMMA SkipCertInv == ASSUME LoaderInv, SkipCert, UNCHANGED rows PROVE LoaderInv'
<1>1. Cert \in Certs
  BY ListCerts DEF LoaderInv, LoaderTypeOK, LoaderStates, SkipCert, Matching, Cert
<1>2. ASSUME NEW u \in Uids, Form[Cert] = "good", KeyOf[Cert] = rows[u] PROVE FALSE
  BY <1>2 DEF SkipCert, Parses, UidNotExist
<1> QED BY <1>2, SkippedInv DEF SkipCert

(* A lookup can only fail for a uid that is not cached.                       *)
LEMMA LookupFailsInv == ASSUME LoaderInv, LookupFails, UNCHANGED rows PROVE LoaderInv'
<1>1. ASSUME NEW u \in Uids, KeyOf[Cert] = rows[u] PROVE ~UidKnown(u)
  BY <1>1 DEF LookupFails, UidKnown
<1> QED BY <1>1, SkippedInv DEF LookupFails

(* A certificate is matched: it is the newest one seen for its identity.      *)
LEMMA MatchCertInv == ASSUME LoaderInv, MatchCert, UNCHANGED rows PROVE LoaderInv'
<1>1. PICK u \in Uids :
        /\ UidCached(KeyOf[Cert], u) \/ UidFetched(KeyOf[Cert], u)
        /\ ld' = [ld EXCEPT !.next = @ + 1, !.temp = TempWith(u, Cert)]
  BY DEF MatchCert
<1>2. Matching /\ UNCHANGED <<rows, skidStore, failCount, trustList, installed>>
  BY DEF MatchCert
<1>3. Cert \in Certs /\ KeyOf[Cert] \in Keys /\ KeyOf[Cert] # NoKey
  BY <1>2, ListCerts, CertKey DEF LoaderInv, LoaderTypeOK, LoaderStates, Matching, Cert
<1>4. /\ rows[u] = KeyOf[Cert]
      /\ uidCache' = [uidCache EXCEPT ![KeyOf[Cert]] = u]
  BY <1>1, <1>3 DEF UidCached, UidFetched, LoaderInv, LoaderTypeOK, LoaderStates, UidCacheIsTrue
<1>5. /\ ld'.pc = "match" /\ ld.pc = "match" /\ ld'.next = ld.next + 1
      /\ ld'.temp = TempWith(u, Cert) /\ ld'.list = ld.list
  BY <1>1, <1>2 DEF LoaderInv, LoaderTypeOK, LoaderStates, Matching
<1>6. LoaderTypeOK'
  <2>1. ld.list \in Lists /\ Len(ld.list) \in Nat
    BY ListCerts DEF LoaderInv, LoaderTypeOK, LoaderStates
  <2>2. TempWith(u, Cert) \in [Uids -> Certs \cup {NoCert}]
    BY <1>3 DEF TempWith, LoaderInv, LoaderTypeOK, LoaderStates
  <2>3. [ld EXCEPT !.next = ld.next + 1, !.temp = TempWith(u, Cert)] \in LoaderStates
    <3>1. ld \in LoaderStates /\ ld.next + 1 \in Nat
      BY DEF LoaderInv, LoaderTypeOK, LoaderStates
    <3> QED BY <2>2, <3>1, LoadWith
  <2>4. uidCache' \in [Keys -> Uids \cup {NoUid}]
    BY <1>4 DEF LoaderInv, LoaderTypeOK, LoaderStates
  <2> QED BY <1>1, <1>2, <1>5, <2>1, <2>3, <2>4
          DEF LoaderInv, LoaderTypeOK, LoaderStates, Matching
<1>7. ASSUME NEW v \in Uids, UidKnown(v) PROVE UidKnown(v)'
  BY <1>2, <1>4, <1>7 DEF UidKnown, LoaderInv, LoaderTypeOK, LoaderStates, KeyHasOneUid
<1>8. UidKnown(u)'
  BY <1>2, <1>3, <1>4 DEF UidKnown, LoaderInv, LoaderTypeOK, LoaderStates
<1>9. ASSUME NEW v \in Uids, v # u PROVE Seen(v)' = Seen(v) /\ ld'.temp[v] = ld.temp[v]
  <2>1. KeyOf[Cert] # rows[v]
    BY <1>3, <1>4, <1>9 DEF LoaderInv, KeyHasOneUid
  <2>2. TempWith(u, Cert)[v] = ld.temp[v]
    BY <1>9 DEF TempWith, LoaderInv, LoaderTypeOK, LoaderStates
  <2> QED BY <1>2, <1>5, <2>1, <2>2, SeenNext
<1>10. ASSUME Form[Cert] = "good" PROVE MatchedIsNewestSeen' /\ MatchedIfStored'
  <2>1. /\ Seen(u)' = Seen(u) \cup {ld.next}
        /\ \A i \in Seen(u) : i \in Nat /\ i < ld.next
    BY <1>2, <1>4, <1>5, <1>10, SeenNext
  <2>2. ld'.temp[u] = Cert /\ ld'.list[ld.next] = Cert /\ ld.next \in Nat
    BY <1>5, <1>10 DEF TempWith, LoaderInv, LoaderTypeOK, LoaderStates, Cert
  <2>3. \E i \in Seen(u)' : ld'.list[i] = ld'.temp[u] /\ \A j \in Seen(u)' : j <= i
    BY <2>1, <2>2
  <2>4. MatchedIsNewestSeen'
    BY <1>5, <1>7, <1>8, <1>9, <2>3 DEF LoaderInv, MatchedIsNewestSeen
  <2>5. MatchedIfStored'
    BY <1>2, <1>3, <1>5, <1>9, <2>2 DEF LoaderInv, MatchedIfStored
  <2> QED BY <2>4, <2>5
<1>11. ASSUME Form[Cert] # "good" PROVE MatchedIsNewestSeen' /\ MatchedIfStored'
  <2>1. \A v \in Uids : Seen(v)' = Seen(v)
    BY <1>2, <1>5, <1>11, SeenNext
  <2>2. ld'.temp = ld.temp
    BY <1>5, <1>11 DEF TempWith
  <2>3. MatchedIsNewestSeen'
    BY <1>5, <1>7, <2>1, <2>2 DEF LoaderInv, MatchedIsNewestSeen
  <2>4. MatchedIfStored'
    BY <1>2, <1>5, <2>1, <2>2 DEF LoaderInv, MatchedIfStored
  <2> QED BY <2>3, <2>4
<1>12. UidCacheIsTrue'
  BY <1>2, <1>3, <1>4 DEF LoaderInv, LoaderTypeOK, LoaderStates, UidCacheIsTrue
<1>13. StoredUidIsCached'
  BY <1>2, <1>7 DEF LoaderInv, StoredUidIsCached
<1> QED BY <1>2, <1>5, <1>6, <1>10, <1>11, <1>12, <1>13
        DEF LoaderInv, RowsOK, KeyHasOneUid, LoadIsFresh,
            StoreIsNewestMatch, IsNewestFor, UsableFor, StoreEmptyAfterMaxFailures

(* The whole list was seen: what was matched is the newest match.             *)
LEMMA InstallInv == ASSUME LoaderInv, Install, UNCHANGED rows PROVE LoaderInv'
<1>1. LoaderIdle("waiting") \in LoaderStates
  BY ListsAssumption DEF LoaderIdle, LoaderStates, NoSkids
<1>2. /\ ld.pc = "match" /\ ld.next > Len(ld.list)
      /\ skidStore' = ld.temp /\ installed' = ld.list /\ ld' = LoaderIdle("waiting")
      /\ UNCHANGED <<rows, uidCache, failCount, trustList>>
  BY DEF Install
<1>3. ld'.pc = "waiting" /\ ld'.next = 1 /\ ld'.list = <<>>
  BY <1>2 DEF LoaderIdle
<1>4. LoaderTypeOK'
  BY <1>1, <1>2, <1>3, ListsAssumption DEF LoaderInv, LoaderTypeOK, LoaderStates
<1>5. \A u \in Uids : Seen(u) = UsableFor(u, ld.list)
  BY <1>2, ListCerts DEF Seen, UsableFor, LoaderInv, LoaderTypeOK, LoaderStates
<1>6. StoreIsNewestMatch'
  <2>1. ASSUME NEW u \in Uids, ld.temp[u] # NoCert PROVE IsNewestFor(u, ld.list, ld.temp[u])
    BY <1>2, <1>5, <2>1 DEF LoaderInv, MatchedIsNewestSeen, IsNewestFor
  <2> QED BY <1>2, <2>1 DEF StoreIsNewestMatch, IsNewestFor, UsableFor
<1>7. StoredUidIsCached'
  BY <1>2 DEF LoaderInv, MatchedIsNewestSeen, StoredUidIsCached, UidKnown
<1>8. StoreEmptyAfterMaxFailures'
  BY <1>2 DEF LoaderInv, LoadIsFresh, StoreEmptyAfterMaxFailures
<1> QED BY <1>2, <1>3, <1>4, <1>6, <1>7, <1>8 DEF LoaderInv, RowsOK, KeyHasOneUid,
             UidCacheIsTrue, LoadIsFresh, MatchedIsNewestSeen, MatchedIfStored

(* What the loader does of its own, with a table that does not change. *)
LEMMA LoaderStepInv == ASSUME LoaderInv, LoaderStep, UNCHANGED rows PROVE LoaderInv'
BY TickInv, ListArrivesInv, ListVerifiedInv, FailureInv, SkipCertInv, LookupFailsInv,
   MatchCertInv, InstallInv DEF LoaderStep, RequestFails, ListRefused

-----------------------------------------------------------------------------

(* What others do.  Rows are filled while a list is matched. *)
LEMMA RowsGrowInv ==
    ASSUME LoaderInv, UNCHANGED loaderVars, RowsOK', KeyHasOneUid',
           \A u \in Uids : rows[u] # NoKey => rows'[u] = rows[u]
    PROVE  LoaderInv'
<1>1. UNCHANGED <<skidStore, uidCache, failCount, ld, trustList, installed>>
  BY DEF loaderVars
<1>2. LoaderTypeOK' /\ LoadIsFresh' /\ StoreEmptyAfterMaxFailures'
  BY <1>1 DEF LoaderInv, LoaderTypeOK, LoaderStates, LoadIsFresh, StoreEmptyAfterMaxFailures
<1>3. UidCacheIsTrue'
  BY <1>1 DEF LoaderInv, LoaderTypeOK, UidCacheIsTrue
<1>4. ASSUME NEW u \in Uids, rows[u] \in Keys
      PROVE  /\ rows'[u] = rows[u]
             /\ Seen(u)' = Seen(u)
             /\ \A list : UsableFor(u, list)' = UsableFor(u, list)
             /\ UidKnown(u) => UidKnown(u)'
  BY <1>1, <1>4 DEF Seen, UsableFor, UidKnown
<1>5. StoredUidIsCached'
  BY <1>1, <1>4 DEF LoaderInv, StoredUidIsCached, UidKnown
<1>6. MatchedIsNewestSeen'
  BY <1>1, <1>4 DEF LoaderInv, MatchedIsNewestSeen, UidKnown
<1>7. MatchedIfStored'
  BY <1>1, <1>4 DEF LoaderInv, MatchedIfStored, StoredUidIsCached, UidKnown
<1>8. StoreIsNewestMatch'
  BY <1>1, <1>4 DEF LoaderInv, StoreIsNewestMatch, IsNewestFor, StoredUidIsCached, UidKnown
<1> QED BY <1>2, <1>3, <1>5, <1>6, <1>7, <1>8 DEF LoaderInv

(* The server publishes another list. *)
LEMMA PublishInv ==
    ASSUME LoaderInv, NEW list \in Lists, Publish(list), UNCHANGED rows PROVE LoaderInv'
BY DEF Publish, LoaderInv, RowsOK, LoaderTypeOK, LoaderStates, KeyHasOneUid, UidCacheIsTrue,
       LoadIsFresh, StoredUidIsCached, UidKnown, MatchedIsNewestSeen, MatchedIfStored, Seen,
       StoreIsNewestMatch, IsNewestFor, UsableFor, StoreEmptyAfterMaxFailures

(* A process that starts knows nothing. *)
LEMMA ResetInv ==
    ASSUME RowsOK', KeyHasOneUid', trustList' \in Lists, LoaderReset PROVE LoaderInv'
<1>1. LoaderIdle("list") \in LoaderStates
  BY ListsAssumption DEF LoaderIdle, LoaderStates, NoSkids
<1>2. /\ skidStore' = NoSkids /\ uidCache' = [k \in Keys |-> NoUid] /\ failCount' = 0
      /\ ld' = LoaderIdle("list") /\ installed' = <<>>
  BY DEF LoaderReset
<1>3. ld'.pc = "list" /\ ld'.next = 1 /\ ld'.temp = NoSkids /\ ld'.list = <<>>
  BY <1>2 DEF LoaderIdle
<1>4. LoaderTypeOK'
  BY <1>1, <1>2, <1>3, ListsAssumption DEF LoaderTypeOK, NoSkids
<1> QED BY <1>2, <1>3, <1>4 DEF LoaderInv, UidCacheIsTrue, LoadIsFresh, StoredUidIsCached,
             UidKnown, MatchedIsNewestSeen, MatchedIfStored, StoreIsNewestMatch, NoSkids,
             StoreEmptyAfterMaxFailures

(* A loader that was never started before.                                    *)
LEMMA InitLoaderInv == ASSUME RowsOK, KeyHasOneUid, LoaderInit PROVE LoaderInv
<1>1. LoaderIdle("list") \in LoaderStates
  BY ListsAssumption DEF LoaderIdle, LoaderStates, NoSkids
<1>2. /\ skidStore = NoSkids /\ uidCache = [k \in Keys |-> NoUid] /\ failCount = 0
      /\ ld = LoaderIdle("list") /\ installed = <<>> /\ trustList = <<>>
  BY DEF LoaderInit
<1>3. ld.pc = "list" /\ ld.next = 1 /\ ld.temp = NoSkids /\ ld.list = <<>>
  BY <1>2 DEF LoaderIdle
<1>4. LoaderTypeOK
  BY <1>1, <1>2, <1>3, ListsAssumption DEF LoaderTypeOK, NoSkids
<1> QED BY <1>2, <1>3, <1>4 DEF LoaderInv, UidCacheIsTrue, LoadIsFresh, StoredUidIsCached,
             UidKnown, MatchedIsNewestSeen, MatchedIfStored, StoreIsNewestMatch, NoSkids,
             StoreEmptyAfterMaxFailures

(* A row that is filled leaves the other rows alone. *)
LEMMA RegisterInv ==
    ASSUME LoaderInv, NEW u \in Uids, NEW k \in Keys, Register(u, k), UNCHANGED loaderVars
    PROVE  LoaderInv'
<1>1. /\ rows[u] = NoKey /\ \A v \in Uids : rows[v] # k
      /\ rows' = [rows EXCEPT ![u] = k]
  BY DEF Register
<1>2. RowsOK' /\ KeyHasOneUid' /\ \A v \in Uids : rows[v] # NoKey => rows'[v] = rows[v]
  BY <1>1 DEF LoaderInv, RowsOK, KeyHasOneUid
<1> QED BY <1>2, RowsGrowInv

-----------------------------------------------------------------------------

(* The loader next to single steps of registration and restarts. *)
SkidInv == ContextTypeOK /\ LoaderInv

(* The initial states satisfy the invariant.                                  *)
LEMMA SkidInitInv == SkidInit => SkidInv
<1> SUFFICES ASSUME SkidInit PROVE SkidInv
  OBVIOUS
<1>1. ContextTypeOK
  BY DEF SkidInit, ContextInit, ContextTypeOK, TxStates
<1>2. RowsOK /\ KeyHasOneUid
  BY <1>1 DEF SkidInit, ContextInit, ContextTypeOK, RowsOK, KeyHasOneUid
<1> QED BY <1>1, <1>2, InitLoaderInv DEF SkidInit, SkidInv

(* The process dies, and the tables keep their types. *)
LEMMA CrashType == ASSUME ContextTypeOK, ContextCrash PROVE ContextTypeOK'
<1>1. ASSUME NEW k \in Keys PROVE tx'[k] \in [state : TxStates, uid : Uids \cup {NoUid}]
  BY DEF ContextTypeOK, ContextCrash, TxStates
<1>2. tx' = [k \in Keys |-> tx'[k]]
  BY DEF ContextCrash
<1>3. tx' \in [Keys -> [state : TxStates, uid : Uids \cup {NoUid}]]
  BY <1>1, <1>2
<1> QED BY <1>3 DEF ContextTypeOK, ContextCrash

(* Every step preserves it.                                                   *)
LEMMA SkidNextInv == SkidInv /\ [SkidNext]_skidVars => SkidInv'
<1> SUFFICES ASSUME SkidInv, [SkidNext]_skidVars PROVE SkidInv'
  OBVIOUS
<1>1. CASE LoaderStep /\ UNCHANGED contextVars
  BY <1>1, LoaderStepInv DEF SkidInv, ContextTypeOK, contextVars
<1>2. ASSUME NEW list \in Lists, Publish(list), UNCHANGED contextVars PROVE SkidInv'
  BY <1>2, PublishInv DEF SkidInv, ContextTypeOK, contextVars
<1>3. ASSUME NEW u \in Uids, NEW k \in Keys, Register(u, k), UNCHANGED loaderVars
      PROVE  SkidInv'
  BY <1>3, RegisterInv DEF SkidInv, ContextTypeOK, Register
<1>4. CASE LoaderRestart /\ ContextCrash
  <2>1. RowsOK' /\ KeyHasOneUid' /\ trustList' \in Lists
    BY <1>4 DEF SkidInv, LoaderInv, LoaderTypeOK, RowsOK, KeyHasOneUid, LoaderRestart, ContextCrash
  <2> QED BY <1>4, <2>1, ResetInv, CrashType DEF SkidInv, LoaderRestart
<1>5. CASE UNCHANGED skidVars
  <2>1. UNCHANGED rows /\ UNCHANGED loaderVars
    BY <1>5 DEF skidVars, loaderVars
  <2>2. RowsOK' /\ KeyHasOneUid'
    BY <2>1 DEF SkidInv, LoaderInv, RowsOK, KeyHasOneUid
  <2> QED BY <1>5, <2>1, <2>2, RowsGrowInv DEF SkidInv, ContextTypeOK, skidVars
<1> QED BY <1>1, <1>2, <1>3, <1>4, <1>5 DEF SkidNext, ServiceNext

(* The inductive invariant holds throughout.                                  *)
THEOREM SkidInvariant == SkidSpec => []SkidInv
BY SkidInitInv, SkidNextInv, PTL DEF SkidSpec

(* Every variable keeps its type.                                             *)
THEOREM SkidTypeCorrect == SkidSpec => []SkidTypeOK
<1>1. SkidInv => SkidTypeOK
  BY DEF SkidInv, LoaderInv, SkidTypeOK
<1> QED BY <1>1, SkidInvariant, PTL

(* The kid an identity signs with is that of the last usable certificate for its *)
(* committed key in one published list, whatever list, whatever lookups failed *)
(* and whatever was registered while the list was matched.                    *)
THEOREM NewestMatch == SkidSpec => []StoreIsNewestMatch
<1>1. SkidInv => StoreIsNewestMatch
  BY DEF SkidInv, LoaderInv
<1> QED BY <1>1, SkidInvariant, PTL

(* From the failure that makes the counter equal to the maximum until the next *)
(* list is installed no SKID is known, although only equality is tested.      *)
THEOREM EmptyAfterMaxFailures == SkidSpec => []StoreEmptyAfterMaxFailures
<1>1. SkidInv => StoreEmptyAfterMaxFailures
  BY DEF SkidInv, LoaderInv
<1> QED BY <1>1, SkidInvariant, PTL

(* The only step from the matching to the waiting is the installation. *)
LEMMA NextKeepsMatched ==
    ASSUME SkidInv, [SkidNext]_skidVars, ld.pc = "match", ld'.pc = "waiting",
           NEW u \in Uids, skidStore[u] # NoCert, UsableFor(u, ld.list) # {}
    PROVE  skidStore'[u] # NoCert
<1>1. ASSUME MatchCert \/ SkipCert \/ LookupFails PROVE ld'.pc = ld.pc
  BY <1>1 DEF MatchCert, SkipCert, LookupFails, SkidInv, LoaderInv, LoaderTypeOK, LoaderStates
<1>2. ~(Tick \/ ListArrives \/ ListVerified \/ RequestFails \/ ListRefused)
  BY DEF Tick, ListArrives, ListVerified, RequestFails, ListRefused
<1>3. UNCHANGED ld \/ LoaderStep \/ LoaderReset
  BY DEF SkidNext, ServiceNext, Publish, loaderVars, skidVars, LoaderRestart
<1>4. Install
  BY <1>1, <1>2, <1>3 DEF LoaderStep, LoaderReset, LoaderIdle
<1>5. Seen(u) = UsableFor(u, ld.list)
  BY <1>4, ListCerts DEF Install, Seen, UsableFor, SkidInv, LoaderInv, LoaderTypeOK, LoaderStates
<1> QED BY <1>4, <1>5 DEF Install, SkidInv, LoaderInv, MatchedIfStored

(* A reload takes the SKID from no identity that has a usable certificate in the *)
(* new list, even when every lookup in the database fails: its uid is cached. *)
THEOREM ReloadsKeepMatched == SkidSpec => ReloadKeepsMatched
<1>1. SkidInv /\ [SkidNext]_skidVars =>
        [ld.pc = "match" /\ ld'.pc = "waiting" =>
            \A u \in Uids :
                skidStore[u] # NoCert /\ UsableFor(u, ld.list) # {} => skidStore'[u] # NoCert]_skidVars
  BY NextKeepsMatched
<1> QED BY <1>1, SkidInvariant, PTL DEF SkidSpec, ReloadKeepsMatched

=============================================================================
