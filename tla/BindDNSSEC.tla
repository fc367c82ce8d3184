------------------------------ MODULE BindDNSSEC ------------------------------
(* The bind backend's DNSSEC database (Bind2Backend, binddnssec.cc): the  *)
(* domainmetadata and tsigkeys tables of the SQLite file named by         *)
(* dnssec-db, and the calls the packet handler makes on them.  Each table *)
(* is a sequence of rows in the order a select returns them.  Every call  *)
(* returns false and touches nothing when no database was opened.         *)
EXTENDS Naturals, Sequences, SequencesExt

CONSTANTS
    DnssecDb,       \* dnssec-db is set and the backend is not hybrid
    NoAlgorithm,    \* the empty DNSName passed as "any algorithm"
    EmptySecret     \* the empty string a caller's content starts as

VARIABLES
    domainmetadata, \* rows [domain, kind, content]
    tsigkeys        \* rows [name, algorithm, secret]; (name, algorithm) is unique

\* setupDNSSEC: d_dnssecdb is opened only when dnssec-db is set and the
\* backend is not hybrid; each call's first check is !d_dnssecdb || d_hybrid.
\* A build without SQLite3 has stubs that answer false, and refuses to
\* start with dnssec-db set: the same as no database.
Enabled == DnssecDb

MetadataRows(name, kind) ==
    SelectSeq(domainmetadata, LAMBDA r : r.domain = name /\ r.kind = kind)

\* getDomainMetadata: the content of every row of (name, kind), in order.
getDomainMetadata(name, kind) ==
    [ok   |-> Enabled,
     meta |-> IF Enabled
                THEN [i \in DOMAIN MetadataRows(name, kind) |-> MetadataRows(name, kind)[i].content]
                ELSE <<>>]

\* setDomainMetadata runs the delete of (name, kind) and then one insert
\* per value, each its own statement.  An SSqlException at any of them
\* becomes a PDNSException; the statements before it stay done.  "done" is
\* how many statements succeeded, Len(values) + 1 being all of them.
setDomainMetadataRows(name, kind, values, done) ==
    IF ~Enabled \/ done = 0 THEN domainmetadata
    ELSE SelectSeq(domainmetadata, LAMBDA r : ~(r.domain = name /\ r.kind = kind))
         \o [i \in 1..(done - 1) |-> [domain |-> name, kind |-> kind, content |-> values[i]]]

\* What setDomainMetadata answers: false without a database, true when
\* every statement ran, and a thrown PDNSException otherwise.
setDomainMetadataResult(values, done) ==
    IF ~Enabled THEN "false"
    ELSE IF done = Len(values) + 1 THEN "true" ELSE "thrown"

\* getTSIGKey: every row of the name whose algorithm is the one asked for
\* (any, while the caller's algorithm is empty) overwrites algorithm and
\* content; the last one wins.  The answer is true whether or not a row
\* matched, with the caller's algorithm and content as they were when none
\* did.
getTSIGKey(name, algorithm, content) ==
    LET match(acc, row) ==
            IF row.name = name /\ (acc.algorithm = NoAlgorithm \/ acc.algorithm = row.algorithm)
              THEN [algorithm |-> row.algorithm, content |-> row.secret]
              ELSE acc
        found == FoldLeft(match, [algorithm |-> algorithm, content |-> content], tsigkeys)
    IN  [ok |-> Enabled,
         algorithm |-> IF Enabled THEN found.algorithm ELSE algorithm,
         content   |-> IF Enabled THEN found.content ELSE content]
====
