-------------------------------- MODULE Config --------------------------------
(***************************************************************************)
(* What a configuration means (main/config.go): whether it is accepted,    *)
(* and which identities the migration reads from it.                       *)
(***************************************************************************)
EXTENDS SequencesExt

CONSTANTS
    Hosts,              \* hosts of a file with pinned TLS certificates
    NilUid, NoToken     \* uuid.Nil and the empty token

(* given: the options that are set, none if the configuration does not parse, *)
(* a secret of the right length among them; dbNumeric: every given pool       *)
(* parameter is a number; dbMaxOpenConns: the limit of the pool; tls: the     *)
(* file with the pinned certificates; identitiesDecode: identities.json is    *)
(* missing or can be opened and decoded; identities: its entries; tokens: the *)
(* map "tokens", as the set of its entries.                                   *)
Options == {"secret32", "registerAuth", "certificateServer", "certificateServerPubKey",
            "postgresDSN"}

CheckMandatory(c) == Options \ {"postgresDSN"} \subseteq c.given

(* A certificate that does not parse is only logged: its host has no pin, and *)
(* the file is accepted.                                                      *)
LoadServerTLSCertificates(c) ==
    c.tls.decodes /\ \E h \in Hosts : c.tls.certs[h] # "none"

SetDbParams(c) == c.dbNumeric

Load(c) == CheckMandatory(c) /\ LoadServerTLSCertificates(c) /\ SetDbParams(c)

(* Without a data source name there is no context manager. *)
GetCtxManager(c) == "postgresDSN" \in c.given

-----------------------------------------------------------------------------
(* identities.json: it is readable, every entry has a uid and its own token. *)
LoadIdentitiesFile(c) ==
    /\ c.identitiesDecode
    /\ \A i \in DOMAIN c.identities :
        c.identities[i].uid # NilUid /\ c.identities[i].token # NoToken
    /\ \A i, j \in DOMAIN c.identities :
        c.identities[i].token = c.identities[j].token => i = j

(* The map: the tokens are not empty.  Neither they nor the uids are compared *)
(* with those of the file.                                                    *)
LoadTokens(c) == \A e \in c.tokens : e.token # NoToken

(* The lists the migration can work on: a map is read in any order. *)
IdentityLists(c) ==
    IF LoadIdentitiesFile(c) /\ LoadTokens(c)
    THEN {c.identities \o t : t \in SetToSeqs(c.tokens)}
    ELSE {}

=============================================================================
