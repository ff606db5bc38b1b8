------------------------------ MODULE Connection ------------------------------
(***************************************************************************)
(* From the arguments to the connections: what Validate lets through, what *)
(* createConnectionURL asks of the driver, what kind of connection that is *)
(* worth with the server at hand, and what HaveExtensionInSchema learns    *)
(* over it (argument_list.go, pgsql_connection.go).                        *)
(*                                                                         *)
(* A run opens many connections with one set of arguments; NewConnection   *)
(* dials nothing, the first query does.  The server may be reconfigured in *)
(* between.  A root certificate stands for the authority it belongs to.    *)
(***************************************************************************)
EXTENDS Sequences, Functions

CONSTANTS
  Databases,    \* databases a run connects to, pgbouncer's among them
  Authority,    \* certificate authorities
  NoFile,       \* an argument left empty
  System,       \* the authorities of the operating system
  Installed     \* what pg_extension may hold: sequences of pairs
                \* <<extension, schema>>

Server == [tls : {"off", "offered", "required"}, signedBy : Authority,
           nameMatches : BOOLEAN, installed : Installed]

ConnectionAssumption ==
  /\ NoFile \notin Authority /\ System \subseteq Authority
  /\ Installed \subseteq Seq(STRING \X STRING)

VARIABLES
  args, server,
  pc,       \* "start", "run" or "exit"
  conns     \* the connection of each database

vars == <<args, server, pc, conns>>

Arguments ==
  [Username : {"", "u"}, Password : {"", "p"}, EnableSSL : BOOLEAN,
   TrustServerCertificate : BOOLEAN, SSLRootCertLocation : Authority \cup {NoFile},
   SSLCertLocation : {"", "f"}, SSLKeyLocation : {"", "f"}]

\* pool: what became of it; url: what the driver was asked; dialled: the
\* server it met; link: how it is protected; have: what
\* HaveExtensionInSchema("tablefunc", "public") said.
Closed == [pool |-> "none"]

Init ==
  /\ args \in Arguments /\ server \in Server
  /\ pc = "start" /\ conns = [d \in Databases |-> Closed]

-----------------------------------------------------------------------------
(* The arguments *)

\* Mutation: a root certificate is never asked for.
validateSSLNever == TRUE

validateSSL ==
  args.EnableSSL /\ ~args.TrustServerCertificate =>
    args.SSLRootCertLocation # NoFile

Validate ==
  /\ pc = "start"
  /\ pc' = IF args.Username # "" /\ args.Password # "" /\ validateSSL
           THEN "run" ELSE "exit"
  /\ UNCHANGED <<args, server, conns>>

-----------------------------------------------------------------------------
(* The connection string *)

Given(file) == IF file = "" THEN {} ELSE {file}

\* Mutation: without SSL no mode is given; the driver's default is "require".
createConnectionURLDefault ==
  [sslmode |-> IF args.EnableSSL /\ ~args.TrustServerCertificate
               THEN "verify-full" ELSE "require",
   sslrootcert |-> IF args.EnableSSL /\ ~args.TrustServerCertificate
                   THEN args.SSLRootCertLocation ELSE NoFile,
   sslcert |-> Given(args.SSLCertLocation), sslkey |-> Given(args.SSLKeyLocation)]

\* Mutation: the root certificate is passed on in every mode.
createConnectionURLRoot ==
  [sslmode |-> IF ~args.EnableSSL THEN "disable"
               ELSE IF args.TrustServerCertificate THEN "require" ELSE "verify-full",
   sslrootcert |-> args.SSLRootCertLocation,
   sslcert |-> Given(args.SSLCertLocation), sslkey |-> Given(args.SSLKeyLocation)]

createConnectionURL ==
  IF ~args.EnableSSL
  THEN [sslmode |-> "disable", sslrootcert |-> NoFile, sslcert |-> {}, sslkey |-> {}]
  ELSE [sslmode |-> IF args.TrustServerCertificate THEN "require" ELSE "verify-full",
        sslrootcert |-> IF args.TrustServerCertificate THEN NoFile
                        ELSE args.SSLRootCertLocation,
        sslcert |-> Given(args.SSLCertLocation),
        sslkey |-> Given(args.SSLKeyLocation)]

\* sqlx.Open keeps the string for later.
NewConnection(d) ==
  /\ pc = "run" /\ conns[d].pool = "none"
  /\ conns' = [conns EXCEPT ![d] = [pool |-> "open", url |-> createConnectionURL]]
  /\ UNCHANGED <<args, server, pc>>

-----------------------------------------------------------------------------
(* lib/pq: what a connection string leads to *)

Roots(url) == IF url.sslrootcert = NoFile THEN System ELSE {url.sslrootcert}

\* require is verify-ca when there is a root certificate.
Accepted(url, s) ==
  /\ url.sslmode = "verify-full" =>
       s.signedBy \in Roots(url) /\ s.nameMatches
  /\ url.sslmode = "require" /\ url.sslrootcert # NoFile =>
       s.signedBy \in Roots(url)

Links(url, s) ==
  LET plain == IF s.tls = "required" THEN "refused" ELSE "plain"
      tls == IF s.tls = "off" \/ ~Accepted(url, s) THEN "refused"
             ELSE IF url.sslmode = "verify-full" THEN "verified" ELSE "encrypted"
      \* a client certificate without its key, or a key alone
      unpaired == IF (url.sslcert = {}) # (url.sslkey = {}) THEN {"refused"} ELSE {}
  IN  IF url.sslmode = "disable" THEN {plain} ELSE {tls} \cup unpaired

-----------------------------------------------------------------------------
(* HaveExtensionInSchema *)

\* A row makes an entry for its extension; a row without a schema adds none.
AddExtension(list, row) ==
  [e \in DOMAIN list \cup {row[1]} |->
     (IF e \in DOMAIN list THEN list[e] ELSE {})
       \cup IF e = row[1] /\ row[2] # "" THEN {row[2]} ELSE {}]

\* The schemas of each extension, row by row.
getExtensions(rows) ==
  LET upTo[n \in 0 .. Len(rows)] ==
        IF n = 0 THEN <<>> ELSE AddExtension(upTo[n - 1], rows[n])
  IN  upTo[Len(rows)]

\* Mutation: any schema will do.
HaveExtensionAnywhere(rows, extension, schema) ==
  extension \in DOMAIN getExtensions(rows)

HaveExtensionInSchema(rows, extension, schema) ==
  /\ extension \in DOMAIN getExtensions(rows)
  /\ schema \in getExtensions(rows)[extension]

\* The first query of a connection dials.  The answer may be an error.
Query(d) ==
  /\ conns[d].pool = "open"
  /\ \E link \in Links(conns[d].url, server), answers \in BOOLEAN :
       conns' = [conns EXCEPT ![d] =
         [pool |-> "dialled", dialled |-> server, link |-> link,
          answered |-> answers /\ link # "refused",
          have |-> /\ answers /\ link # "refused"
                   /\ HaveExtensionInSchema(server.installed, "tablefunc", "public")]]
  /\ UNCHANGED <<args, server, pc>>

\* Another certificate, other settings.
Reconfigure ==
  /\ pc = "run" /\ \E d \in Databases : conns[d].pool = "open"
  /\ \E s \in Server : s.installed = server.installed /\ server' = s
  /\ UNCHANGED <<args, pc, conns>>

Next == \/ Validate \/ Reconfigure
        \/ \E d \in Databases : NewConnection(d) \/ Query(d)

Spec == Init /\ [][Next]_vars

-----------------------------------------------------------------------------
(* Properties *)

Dialled == {d \in Databases : conns[d].pool = "dialled"}
Up == {d \in Dialled : conns[d].link # "refused"}

\* Type correctness, and that no connection is made with rejected arguments.
TypeOK ==
  /\ args \in Arguments /\ server \in Server
  /\ pc \in {"start", "run", "exit"}
  /\ \A d \in Databases :
       /\ conns[d].pool \in {"none", "open", "dialled"}
       /\ conns[d].pool # "none" =>
            pc = "run" /\ args.Username # "" /\ args.Password # ""
       /\ d \in Dialled => conns[d].link \in {"refused", "plain", "encrypted", "verified"}

\* "If true will use SSL encryption, false will not use encryption"
\* (argument_list.go:27), for every connection of the run and whatever the
\* server offers.
EncryptedAsAsked ==
  \A d \in Up : (conns[d].link = "plain") = ~args.EnableSSL

\* "If false certificate will be verified against supplied certificate"
\* (argument_list.go:28): a connection that is up ended at a server with a
\* certificate of the supplied authority and for its own name.
VerifiedAsAsked ==
  args.EnableSSL /\ ~args.TrustServerCertificate =>
    \A d \in Up :
      /\ conns[d].dialled.signedBy = args.SSLRootCertLocation
      /\ conns[d].dialled.nameMatches

\* "If true server certificate is not verified": the certificate then costs
\* no connection, even if a root certificate was supplied with it.
TrustSuffices ==
  args.EnableSSL /\ args.TrustServerCertificate =>
    \A d \in Dialled :
      conns[d].link = "refused" =>
        \/ conns[d].dialled.tls = "off"
        \/ (args.SSLCertLocation = "") # (args.SSLKeyLocation = "")

\* Locks are asked for only where crosstab is in public: "yes" is never a
\* guess, and "no" means that it is not there or that the query failed.
ExtensionIsThere ==
  \A d \in Dialled :
    conns[d].have =
      /\ conns[d].answered
      /\ <<"tablefunc", "public">> \in Range(conns[d].dialled.installed)

\* Together: a connection is what the arguments say, and so is what is learnt
\* over it (pgsql_connection.go:140-197).
ConnectedAsAsked ==
  EncryptedAsAsked /\ VerifiedAsAsked /\ TrustSuffices /\ ExtensionIsThere
=============================================================================
