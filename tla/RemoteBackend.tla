---------------------------- MODULE RemoteBackend ----------------------------
(* The remote backend (src/modules/remotebackend/remotebackend.cc): one     *)
(* RemoteBackend object per worker thread, talking JSON-RPC to a remote     *)
(* process over a connector.  Every method sends one request and blocks     *)
(* for one response; a failed send or receive throws away the connector     *)
(* and builds a new one before throwing DBException.  A lookup leaves its   *)
(* result rows in d_result behind the cursor d_index, which get() walks.    *)
(* A transaction is named by d_trxid, the start time, sent with every       *)
(* feed, commit and abort.                                                  *)
(*                                                                          *)
(* The connector and the remote process are not under src/: the connector   *)
(* is a FIFO channel pair per connection, replaced by build(); the remote   *)
(* answers each request it reads, in order, with any result.  The caller    *)
(* (the thread's UeberBackend or the zone-transfer code) may call any       *)
(* method whenever the object is idle, feeding records only inside a        *)
(* transaction it started.                                                  *)
EXTENDS Integers, Sequences

CONSTANTS
    Instances,      \* RemoteBackend objects, one per thread
    RowIds,         \* the records a lookup result can carry
    BadRows,        \* whether the remote may send a row missing a field
    DNSSEC,         \* d_dnssec: the "dnssec" setting of the backend
    MaxRows,        \* longest result a lookup returns
    MaxRequests     \* requests each object sends in a behaviour

LookupMethods == {"lookup", "APILookup", "list"}
TrxMethods == {"startTransaction", "feedRecord", "commitTransaction", "abortTransaction"}
\* The methods whose answer is parsed into the caller's arguments and
\* leaves the object as it was, named by their group: recv() treats the
\* answers of a group alike.
OtherMethods == {"metadata", "keys", "zones", "listing"}
Methods == LookupMethods \cup TrxMethods \cup OtherMethods

\* A row of the "result" array: a record, and whether stringFromJson finds
\* its qtype, qname and content.
Rows == [id : RowIds, ok : IF BadRows THEN BOOLEAN ELSE {TRUE}]
Results == UNION {[1..n -> Rows] : n \in 0..MaxRows}

Request == [rid : 1..MaxRequests, method : Methods]
\* A response: the answer to request rid; ok is FALSE when "result" is
\* false; rows is the "result" array of a lookup.
Response == [rid : 1..MaxRequests, ok : BOOLEAN, rows : Results]

VARIABLES
    pc,         \* "idle", or the method waiting in recv()
    dIndex,     \* d_index: -1, or the next row of d_result get() returns
    dResult,    \* the "result" rows of d_result
    dTrxid,     \* d_trxid: -1, or the start time (any value but -1: 1)
    toRemote,   \* requests written to the current connector, unread
    toBackend,  \* responses written by the remote, not yet received
    inTrx,      \* the caller's view: a transaction it started is open
    sent,       \* requests sent so far; the rid of the last one
    served,     \* rows of the result the last lookup installed
    got,        \* rows get() has returned since that lookup
    ends        \* commit/abort requests sent for the caller's transaction

vars == <<pc, dIndex, dResult, dTrxid, toRemote, toBackend, inTrx,
          sent, served, got, ends>>

Init ==
    /\ pc = [i \in Instances |-> "idle"]
    /\ dIndex = [i \in Instances |-> -1]
    /\ dResult = [i \in Instances |-> <<>>]
    /\ dTrxid = [i \in Instances |-> -1]
    /\ toRemote = [i \in Instances |-> <<>>]
    /\ toBackend = [i \in Instances |-> <<>>]
    /\ inTrx = [i \in Instances |-> FALSE]
    /\ sent = [i \in Instances |-> 0]
    /\ served = [i \in Instances |-> <<>>]
    /\ got = [i \in Instances |-> <<>>]
    /\ ends = [i \in Instances |-> 0]

\* connector.reset(); build(): a new connection, and nothing written to or
\* by the old one is seen again.
build(i) ==
    /\ toRemote' = [toRemote EXCEPT ![i] = <<>>]
    /\ toBackend' = [toBackend EXCEPT ![i] = <<>>]

\* send(): the connector writes the request, or fails, and then the
\* connector is rebuilt and DBException thrown.
send(i, req) ==
    \/ /\ toRemote' = [toRemote EXCEPT ![i] = Append(@, req)]
       /\ pc' = [pc EXCEPT ![i] = req.method]
       /\ UNCHANGED toBackend
    \/ /\ build(i)
       /\ UNCHANGED pc

NextRequest(i, m) == [rid |-> sent[i] + 1, method |-> m]

Call(i) ==
    /\ pc[i] = "idle"
    /\ sent[i] < MaxRequests
    /\ sent' = [sent EXCEPT ![i] = @ + 1]

\* lookup(), APILookup() and list(): refused ("Attempt to lookup while one
\* running") while d_index is set, which leaves everything as it was.
Lookup(i, m) ==
    /\ Call(i)
    /\ dIndex[i] = -1
    /\ served' = [served EXCEPT ![i] = <<>>]
    /\ got' = [got EXCEPT ![i] = <<>>]
    /\ send(i, NextRequest(i, m))
    /\ UNCHANGED <<dIndex, dResult, dTrxid, inTrx, ends>>

\* startTransaction(): d_trxid is the time, set before the request is sent.
StartTransaction(i) ==
    /\ Call(i)
    /\ ~inTrx[i]
    /\ dTrxid' = [dTrxid EXCEPT ![i] = 1]
    /\ ends' = [ends EXCEPT ![i] = 0]
    /\ send(i, NextRequest(i, "startTransaction"))
    /\ UNCHANGED <<dIndex, dResult, inTrx, served, got>>

\* feedRecord() (and feedEnts, replaceRRSet alike): one request carrying
\* d_trxid, inside a transaction the caller started.
FeedRecord(i) ==
    /\ Call(i)
    /\ inTrx[i]
    /\ send(i, NextRequest(i, "feedRecord"))
    /\ UNCHANGED <<dIndex, dResult, dTrxid, inTrx, served, got, ends>>

\* A commit that forgets to clear d_trxid.
EndTransactionKeepsTrxid(i, m) ==
    /\ Call(i)
    /\ dTrxid[i] # -1
    /\ inTrx' = [inTrx EXCEPT ![i] = FALSE]
    /\ send(i, NextRequest(i, m))
    /\ UNCHANGED <<dIndex, dResult, dTrxid, served, got, ends>>

\* commitTransaction() and abortTransaction(): nothing to do without a
\* d_trxid; otherwise d_trxid is cleared, then the request is sent.  The
\* caller's transaction is over whatever the outcome.
EndTransaction(i, m) ==
    /\ Call(i)
    /\ dTrxid[i] # -1
    /\ dTrxid' = [dTrxid EXCEPT ![i] = -1]
    /\ inTrx' = [inTrx EXCEPT ![i] = FALSE]
    /\ send(i, NextRequest(i, m))
    /\ UNCHANGED <<dIndex, dResult, served, got, ends>>

\* A method that sends its request through send() and reads the answer
\* through recv(), keeping nothing of it in the object.
Query(i, m) ==
    /\ Call(i)
    /\ send(i, NextRequest(i, m))
    /\ UNCHANGED <<dIndex, dResult, dTrxid, inTrx, served, got, ends>>

\* getAllDomainMetadata, getDomainMetadata and setDomainMetadata.
MetadataCall(i) == Query(i, "metadata")

\* getDomainKeys, removeDomainKey, addDomainKey, (de)activateDomainKey,
\* (un)publishDomainKey and getTSIGKey: without d_dnssec they return false
\* and send nothing.
KeyCall(i) == DNSSEC /\ Query(i, "keys")

\* getDomainInfo, setNotified, autoPrimaryBackend and createSecondaryDomain.
\* getDomainInfo for the empty name returns before sending.
ZoneCall(i) == Query(i, "zones")

\* directBackendCmd, searchRecords, getAllDomains, getUpdatedPrimaries,
\* getUnfreshSecondaryInfos, setStale and setFresh.  searchComments sends
\* nothing.
ListingCall(i) == Query(i, "listing")

\* The remote process reads the oldest request of the connection and
\* answers it; a lookup is answered with any result array.
Remote(i) ==
    /\ toRemote[i] # <<>>
    /\ LET req == Head(toRemote[i]) IN
       /\ \E ok \in BOOLEAN, rows \in IF req.method \in LookupMethods THEN Results ELSE {<<>>} :
             toBackend' = [toBackend EXCEPT ![i] = Append(@, [rid |-> req.rid, ok |-> ok, rows |-> rows])]
       /\ ends' = IF req.method \in {"commitTransaction", "abortTransaction"}
                  THEN [ends EXCEPT ![i] = @ + 1] ELSE ends
    /\ toRemote' = [toRemote EXCEPT ![i] = Tail(@)]
    /\ UNCHANGED <<pc, dIndex, dResult, dTrxid, inTrx, sent, served, got>>

\* A lookup that sets the cursor on an empty result array too.
LookupReturnsEmptyCursor(i, resp) ==
    LET rows == IF resp.ok THEN resp.rows ELSE <<>> IN
    /\ dResult' = [dResult EXCEPT ![i] = rows]
    /\ dIndex' = [dIndex EXCEPT ![i] = IF resp.ok THEN 0 ELSE -1]
    /\ served' = [served EXCEPT ![i] = rows]
    /\ UNCHANGED <<dTrxid, inTrx>>

\* What lookup()/APILookup()/list() do with the response: an array that is
\* not empty becomes the cursor's rows, and d_index is set to 0.
LookupReturns(i, resp) ==
    LET rows == IF resp.ok THEN resp.rows ELSE <<>> IN
    /\ dResult' = [dResult EXCEPT ![i] = rows]
    /\ dIndex' = [dIndex EXCEPT ![i] = IF rows = <<>> THEN -1 ELSE 0]
    /\ served' = [served EXCEPT ![i] = rows]
    /\ UNCHANGED <<dTrxid, inTrx>>

\* What startTransaction() does with the response: a false result clears
\* d_trxid; a true one opens the caller's transaction.
StartTransactionReturns(i, resp) ==
    /\ dTrxid' = IF resp.ok THEN dTrxid ELSE [dTrxid EXCEPT ![i] = -1]
    /\ inTrx' = [inTrx EXCEPT ![i] = resp.ok]
    /\ UNCHANGED <<dIndex, dResult, served>>

\* recv(): a receive that fails (a timeout while no response is there yet,
\* the remote gone, a response with no "result" field) rebuilds the
\* connector and throws DBException, past whatever the method would have
\* done with the answer.
recvFails(i) ==
    build(i)

Recv(i) ==
    /\ pc[i] # "idle"
    /\ pc' = [pc EXCEPT ![i] = "idle"]
    /\ \/ /\ toBackend[i] # <<>>
          /\ LET resp == Head(toBackend[i]) IN
             /\ CASE pc[i] \in LookupMethods -> LookupReturns(i, resp)
                  [] pc[i] = "startTransaction" -> StartTransactionReturns(i, resp)
                  [] OTHER -> UNCHANGED <<dIndex, dResult, served, dTrxid, inTrx>>
          /\ toBackend' = [toBackend EXCEPT ![i] = Tail(@)]
          /\ UNCHANGED toRemote
       \/ /\ recvFails(i)
          /\ UNCHANGED <<dIndex, dResult, served, dTrxid, inTrx>>
    /\ UNCHANGED <<sent, got, ends>>

\* get() with the cursor ending one row early.
getEndsEarly(i) ==
    /\ pc[i] = "idle"
    /\ dIndex[i] # -1
    /\ dResult[i][dIndex[i] + 1].ok
    /\ got' = [got EXCEPT ![i] = Append(@, dResult[i][dIndex[i] + 1])]
    /\ IF dIndex[i] + 2 >= Len(dResult[i])
       THEN /\ dResult' = [dResult EXCEPT ![i] = <<>>]
            /\ dIndex' = [dIndex EXCEPT ![i] = -1]
       ELSE /\ dIndex' = [dIndex EXCEPT ![i] = @ + 1]
            /\ UNCHANGED dResult
    /\ UNCHANGED <<pc, dTrxid, toRemote, toBackend, inTrx, sent, served, ends>>

\* get(): returns the row at d_index and advances; past the last row
\* d_result is cleared and d_index reset to -1.  A row missing qtype, qname
\* or content makes stringFromJson throw before d_index moves, which
\* leaves everything as it was; without a cursor get() returns false.
get(i) ==
    /\ pc[i] = "idle"
    /\ dIndex[i] # -1
    /\ dResult[i][dIndex[i] + 1].ok
    /\ got' = [got EXCEPT ![i] = Append(@, dResult[i][dIndex[i] + 1])]
    /\ IF dIndex[i] + 1 = Len(dResult[i])
       THEN /\ dResult' = [dResult EXCEPT ![i] = <<>>]
            /\ dIndex' = [dIndex EXCEPT ![i] = -1]
       ELSE /\ dIndex' = [dIndex EXCEPT ![i] = @ + 1]
            /\ UNCHANGED dResult
    /\ UNCHANGED <<pc, dTrxid, toRemote, toBackend, inTrx, sent, served, ends>>

\* Every object has sent its requests and is idle.
Quiescent ==
    /\ \A i \in Instances : pc[i] = "idle" /\ sent[i] = MaxRequests
    /\ UNCHANGED vars

Next ==
    \/ \E i \in Instances :
          \/ \E m \in LookupMethods : Lookup(i, m)
          \/ StartTransaction(i)
          \/ FeedRecord(i)
          \/ MetadataCall(i) \/ KeyCall(i) \/ ZoneCall(i) \/ ListingCall(i)
          \/ \E m \in {"commitTransaction", "abortTransaction"} : EndTransaction(i, m)
          \/ Remote(i)
          \/ Recv(i)
          \/ get(i)
    \/ Quiescent

Spec == Init /\ [][Next]_vars

-----------------------------------------------------------------------------

TypeOK ==
    /\ pc \in [Instances -> {"idle"} \cup Methods]
    /\ dResult \in [Instances -> Results]
    /\ \A i \in Instances : dIndex[i] \in -1..(Len(dResult[i]) - 1)
    /\ dTrxid \in [Instances -> {-1, 1}]
    /\ toRemote \in [Instances -> Seq(Request)]
    /\ toBackend \in [Instances -> Seq(Response)]
    /\ inTrx \in [Instances -> BOOLEAN]
    /\ sent \in [Instances -> 0..MaxRequests]
    /\ served \in [Instances -> Results]
    /\ got \in [Instances -> Results]
    /\ ends \in [Instances -> Nat]

\* get() returns the rows of the last lookup's result in order, and the
\* cursor is reset only after it has returned all of them.
CursorDeliversLookupInOrder ==
    \A i \in Instances :
        /\ got[i] = SubSeq(served[i], 1, Len(got[i]))
        /\ dIndex[i] = -1 => got[i] = served[i]
        /\ dIndex[i] # -1 => dResult[i] = served[i] /\ dIndex[i] = Len(got[i])

\* The remote hears the end of a transaction (commitTransaction or
\* abortTransaction) at most once: a caller that aborts after a commit,
\* whether the commit succeeded or failed, sends nothing more.
TransactionEndedOnce ==
    \A i \in Instances : ends[i] <= 1

\* A lookup is refused ("Attempt to lookup while one running") only while
\* the rows of the previous lookup can still be read by get().
LookupRefusedOnlyWhileRowsPending ==
    \A i \in Instances : dIndex[i] # -1 => dResult[i][dIndex[i] + 1].ok
====
