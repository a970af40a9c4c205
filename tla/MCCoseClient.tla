----------------------------- MODULE MCCoseClient -----------------------------
(* One uid that two requests race for, a certificate for each key, one       *)
(* signing request at a time.                                                *)
EXTENDS CoseClient, TLC

CONSTANTS k1, k2, c1, c2, s1

MCKeyOf == c1 :> k1 @@ c2 :> k2
MCForm == c1 :> "good" @@ c2 :> "good"
MCLists == {<<>>, <<c1>>, <<c1, c2>>}
MCWithoutNull == <<>>
MCRequests ==
    {Request(FALSE, "cbor", FALSE, Cbor(s1)), Request(TRUE, "bin", FALSE, DigestOf(s1))}
=============================================================================
