----------------------------- MODULE MCMigration -----------------------------
(* Key files of an older version with nothing, one pair of keys, and an empty *)
(* pair besides; lists with one, two, three and repeated entries, and one     *)
(* that cannot be decoded; pools of one connection, of two, and of any number.*)
EXTENDS Migration, TLC

CONSTANTS u1, u2, h1

MCEntries == Uids \X {"private", "public"}

PairOf(u, v) == <<u, "private">> :> v @@ <<u, "public">> :> v

MCOldStores == {PairOf(u1, "none") @@ PairOf(u2, "none"), PairOf(u1, "key") @@ PairOf(u2, "none"),
                PairOf(u1, "key") @@ PairOf(u2, "empty")}

Conf(list, map, limit) ==
    [given |-> Options, dbNumeric |-> TRUE, dbMaxOpenConns |-> limit,
     tls |-> [decodes |-> TRUE, certs |-> (h1 :> "good")],
     identitiesDecode |-> TRUE, identities |-> list, tokens |-> map]

Id(u, t) == [uid |-> u, token |-> t]

MCConfigs ==
    {Conf(<<>>, {}, 1), Conf(<<Id(u1, "t1")>>, {}, 1),
     Conf(<<Id(u1, "t1"), Id(u2, "t2")>>, {}, 2),
     [Conf(<<Id(u1, "t1")>>, {}, 2) EXCEPT !.identitiesDecode = FALSE],
     Conf(<<>>, {Id(u1, "t1"), Id(u2, "t1")}, 0),
     Conf(<<Id(u2, "t2")>>, {Id(u1, "t1"), Id(u2, "t3")}, 2),
     Conf(<<Id(u1, "t1"), Id(u2, "t1")>>, {}, 2)}

=============================================================================
