------------------------------ MODULE MCSigning ------------------------------
(* One identity and every request over one document of each kind, sent to a  *)
(* service at rest: the identity is registered or not, has a SKID or not.    *)
EXTENDS Signing, TLC

CONSTANTS k1, c1, s1, n1, t1

MCKeyOf == c1 :> k1
MCForm == c1 :> "good"
MCLists == {<<>>, <<c1>>}
MCWithoutNull == n1 :> s1

ServingInit ==
    /\ tx = [k \in Keys |-> [state |-> "none", uid |-> NoUid]]
    /\ identityCache = [u \in Uids |-> NoKey]
    /\ \E list \in Lists, k \in Keys \cup {NoKey} :
        /\ list # <<>> => k = k1
        /\ rows = [u \in Uids |-> k]
        /\ skidStore = [u \in Uids |-> IF list = <<>> THEN NoCert ELSE c1]
        /\ uidCache = [x \in Keys |-> IF list = <<>> THEN NoUid ELSE CHOOSE u \in Uids : TRUE]
        /\ installed = list
        /\ trustList = list
    /\ failCount = 0
    /\ ld = LoaderIdle("waiting")
    /\ SignInit

ServingSpec == ServingInit /\ [][ServingNext]_signingVars

=============================================================================
