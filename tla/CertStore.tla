----------------------------- MODULE CertStore ------------------------------
(***************************************************************************)
(* The certificate store (internal/tlsterm/certloader.go): certificates    *)
(* are found through the virtual hosts of nginx and Apache, and a TLS      *)
(* handshake picks one by the name the client asks for.                    *)
(*                                                                         *)
(* A virtual host is known by the files of its certificate and its key     *)
(* ("" for a directive that is missing) and by its names; a file by its    *)
(* generation.  Certificate and key fit when they are of the same one; a   *)
(* file that cannot be read fits nothing.                                  *)
(***************************************************************************)
EXTENDS Integers, Sequences

CONSTANTS
    Names,        \* host names and wildcard names
    Wildcard,     \* the wildcard name that covers each host name
    NginxSites,   \* the virtual hosts, in the order of the globs
    ApacheSites,
    Autocert      \* the names autocert may issue a certificate for

NoCert == [file |-> "", gen |-> 0]
Issued == [file |-> "acme", gen |-> 0]

-----------------------------------------------------------------------------

\* parseNginx: the catch-all name is no domain.
ParseNginx(v) == [v EXCEPT !.names = @ \ {"_"}]

\* The pairs Reload tries, in its order: the hosts that give both files and a
\* name.
Pairs ==
    SelectSeq([i \in DOMAIN NginxSites |-> ParseNginx(NginxSites[i])] \o ApacheSites,
              LAMBDA v : v.cert # "" /\ v.key # "" /\ v.names # {})

\* tls.LoadX509KeyPair
Fits(v, pem) == pem[v.cert] = pem[v.key]

\* One round of Reload: the pair serves its names from now on; one that cannot
\* be read, or does not fit, leaves them to the pairs before it.
LoadPair(next, v, pem) ==
    [d \in DOMAIN next \cup (IF Fits(v, pem) THEN v.names ELSE {}) |->
        IF Fits(v, pem) /\ d \in v.names THEN [file |-> v.cert, gen |-> pem[v.cert]]
        ELSE next[d]]

\* Names without a dot have no wildcard.
GetCertificate(byName, name) ==
    CASE name \in DOMAIN byName                                        -> byName[name]
      [] name \notin DOMAIN byName /\ Wildcard[name] \in DOMAIN byName -> byName[Wildcard[name]]
      [] OTHER -> IF name \in Autocert THEN Issued ELSE NoCert
=============================================================================
