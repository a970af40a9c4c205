----------------------------- MODULE MCSkidLoader -----------------------------
(* Two identities; two usable certificates and one with a bad kid for the    *)
(* first key, one usable certificate for the second one, and two that the    *)
(* loader cannot read.                                                       *)
EXTENDS SkidLoader, TLC

CONSTANTS u1, u2, k1, k2, c1, c2, c3, c4, c5, c6

MCKeyOf == c1 :> k1 @@ c2 :> k1 @@ c3 :> k1 @@ c4 :> k2 @@ c5 :> k1 @@ c6 :> k2

MCForm ==
    c1 :> "good" @@ c2 :> "good" @@ c3 :> "badKid" @@ c4 :> "good"
        @@ c5 :> "badX509" @@ c6 :> "badKey"

(* Renewal before and after the older certificate, a bad kid behind a good   *)
(* one, unreadable certificates, and both identities in one list.            *)
MCLists ==
    {<<>>, <<c1>>, <<c1, c2>>, <<c2, c1>>, <<c1, c3>>, <<c5, c1>>, <<c6, c4>>, <<c1, c4, c2>>}

(* A few lists with every case, for the liveness runs. *)
MCFewLists == {<<>>, <<c1>>, <<c1, c2>>, <<c4, c3>>, <<c5, c2>>}

=============================================================================
