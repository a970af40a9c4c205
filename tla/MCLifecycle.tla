----------------------------- MODULE MCLifecycle -----------------------------
(* Configurations that are complete, have no data source name, miss a         *)
(* mandatory option, have no usable pin file, a pool parameter that is no     *)
(* number.                                                                    *)
EXTENDS Lifecycle, TLC

CONSTANTS h1

Conf(given, numeric, decodes) ==
    [given |-> given, dbNumeric |-> numeric,
     tls |-> [decodes |-> decodes, certs |-> (h1 :> "bad")], identities |-> <<>>, tokens |-> {}]

MCConfigs ==
    {Conf(Options, TRUE, TRUE), Conf(Options \ {"postgresDSN"}, TRUE, TRUE),
     Conf(Options \ {"registerAuth"}, TRUE, TRUE), Conf(Options, FALSE, TRUE),
     Conf(Options, TRUE, FALSE)}

=============================================================================
