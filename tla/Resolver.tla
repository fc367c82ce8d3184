------------------------------ MODULE Resolver ------------------------------
(***************************************************************************)
(* The Resolver of resolver.cc as tryAutoPrimarySynchronous uses it        *)
(* (packethandler.cc 1102-1121): a fresh object opens its UDP socket,      *)
(* getSoaSerial asks the claimed primary for the zone's SOA, then resolve  *)
(* asks it for the NS set, both on that one socket, each waiting at most   *)
(* three seconds and reading exactly one datagram.                         *)
(*                                                                         *)
(* The remote answers each query it receives with any rcode, with or       *)
(* without records of the type asked.  The network loses, duplicates and  *)
(* reorders datagrams, and other peers may send to the socket's port.     *)
(* Every datagram here names the queried domain with one question, so the  *)
(* qname and qdcount checks of parseResult never fire; the serial and the  *)
(* record contents are left out.                                           *)
(***************************************************************************)
EXTENDS Naturals, Sequences

CONSTANTS
    Ids,            \* the values dns_random_uint16 may draw
    Remote,         \* the claimed primary, port 53
    Stranger,       \* another peer that can reach the socket's port
    RCodes,         \* rcodes an answer may carry
    NoError,        \* rcode 0
    SocketFaults,   \* whether bind, sendto or the address family may fail
    MaxStrays,      \* bound on datagrams from other peers
    MaxCopies       \* bound on duplicated deliveries

ASSUME NoError \in RCodes

QTypes == {"SOA", "NS"}

\* A datagram as MOADNSParser sees it; wellformed is whether it parses.
Datagrams == [from : {Remote, Stranger}, id : Ids, qtype : QTypes,
              rcode : RCodes, rrs : SUBSET QTypes, wellformed : BOOLEAN]

\* No datagram taken yet.
NoDatagram == [from |-> "none"]

VARIABLES
    pc,         \* "open", "soa", "soawait", "ns", "nswait", "done"
    qid,        \* the id sendResolve drew for the query being waited on
    queries,    \* queries the remote has received and not answered: [id, qtype]
    inflight,   \* answers on their way to the socket
    sockbuf,    \* the socket's receive buffer, oldest datagram first
    soa,        \* the datagram getSoaSerial took the serial from
    ns,         \* the datagram resolve() took the NS set from
    outcome,    \* "pending"; "proceed", "servfail" (returned); "thrown" (escapes)
    strays,     \* datagrams from other peers so far
    copies      \* duplicated deliveries so far

vars == <<pc, qid, queries, inflight, sockbuf, soa, ns, outcome, strays, copies>>

TypeOK ==
    /\ pc \in {"open", "soa", "soawait", "ns", "nswait", "done"}
    /\ qid \in Ids
    /\ queries \subseteq [id : Ids, qtype : QTypes]
    /\ inflight \subseteq Datagrams
    /\ sockbuf \in Seq(Datagrams)
    /\ soa \in Datagrams \cup {NoDatagram}
    /\ ns \in Datagrams \cup {NoDatagram}
    /\ outcome \in {"pending", "proceed", "servfail", "thrown"}
    /\ strays \in 0..MaxStrays /\ copies \in 0..MaxCopies

Init ==
    /\ pc = "open"
    /\ qid = CHOOSE i \in Ids : TRUE
    /\ queries = {} /\ inflight = {} /\ sockbuf = <<>>
    /\ soa = NoDatagram /\ ns = NoDatagram
    /\ outcome = "pending"
    /\ strays = 0 /\ copies = 0

\* The try block ends: the Resolver is destroyed and its socket closed.
End(result) == pc' = "done" /\ outcome' = result

\* Resolver::Resolver: makeQuerySocket binds a random port, trying nine
\* times; when every try fails it throws PDNSException, which is not the
\* ResolverException tryAutoPrimarySynchronous catches.
Open ==
    /\ pc = "open"
    /\ \/ pc' = "soa" /\ UNCHANGED outcome
       \/ SocketFaults /\ End("thrown")
    /\ UNCHANGED <<qid, queries, inflight, sockbuf, soa, ns, strays, copies>>

Phase(t) == IF t = "SOA" THEN "soa" ELSE "ns"
Wait(t) == IF t = "SOA" THEN "soawait" ELSE "nswait"

\* An id computed one past the 16-bit range the header field holds.
sendResolveIdOverflow(t) ==
    /\ pc = Phase(t)
    /\ \E id \in Ids :
          /\ qid' = id + 1
          /\ queries' = queries \cup {[id |-> id, qtype |-> t]}
          /\ pc' = Wait(t)
    /\ UNCHANGED <<inflight, sockbuf, soa, ns, outcome, strays, copies>>

\* sendResolve: a fresh random id and the default socket of the remote's
\* family; a ResolverException when that family has no socket or sendto
\* fails.
sendResolve(t) ==
    /\ pc = Phase(t)
    /\ \/ \E id \in Ids :
             /\ qid' = id
             /\ queries' = queries \cup {[id |-> id, qtype |-> t]}
             /\ pc' = Wait(t)
             /\ UNCHANGED outcome
       \/ SocketFaults /\ End("servfail") /\ UNCHANGED <<qid, queries>>
    /\ UNCHANGED <<inflight, sockbuf, soa, ns, strays, copies>>

\* A wait with no timeout: it blocks until a datagram arrives.
WaitWithoutTimeout == FALSE

\* waitForData returns 0 when nothing arrived within three seconds:
\* "Timeout waiting for answer", a ResolverException.
Timeout ==
    /\ pc \in {"soawait", "nswait"}
    /\ sockbuf = <<>>
    /\ End("servfail")
    /\ UNCHANGED <<qid, queries, inflight, sockbuf, soa, ns, strays, copies>>

Waiting == pc \in {"soawait", "nswait"} /\ sockbuf # <<>>
Oldest == Head(sockbuf)

\* recvfrom takes the oldest datagram: from another peer, resolve() throws
\* "Got answer from the wrong peer".
ReceiveWrongPeer ==
    /\ Waiting /\ Oldest.from # Remote
    /\ sockbuf' = Tail(sockbuf)
    /\ End("servfail")
    /\ UNCHANGED <<qid, queries, inflight, soa, ns, strays, copies>>

\* MOADNSParser throws MOADNSException, which neither resolve() nor
\* tryAutoPrimarySynchronous catches; doQuestion answers ServFail.
ReceiveMalformed ==
    /\ Waiting /\ Oldest.from = Remote /\ ~Oldest.wellformed
    /\ sockbuf' = Tail(sockbuf)
    /\ End("thrown")
    /\ UNCHANGED <<qid, queries, inflight, soa, ns, strays, copies>>

\* parseResult returns 0 with the answer's records only for rcode 0 and the
\* query's id: a nonzero rcode is returned before the id is looked at, a
\* wrong id throws.  The query type is not compared.
ParsedOk(d) == d.rcode = NoError /\ d.id = qid

\* getSoaSerial: a nonzero return, an empty result or a first record that
\* is not an SOA throw; otherwise the serial is read and the NS query
\* follows on the same socket.
ReceiveSOA ==
    /\ Waiting /\ pc = "soawait" /\ Oldest.from = Remote /\ Oldest.wellformed
    /\ sockbuf' = Tail(sockbuf)
    /\ \/ /\ ParsedOk(Oldest) /\ "SOA" \in Oldest.rrs
          /\ soa' = Oldest /\ pc' = "ns"
          /\ UNCHANGED outcome
       \/ /\ ~(ParsedOk(Oldest) /\ "SOA" \in Oldest.rrs)
          /\ End("servfail") /\ UNCHANGED soa
    /\ UNCHANGED <<qid, queries, inflight, ns, strays, copies>>

\* The NS read without resolve()'s check of the sender's address.
ReceiveNSAnyPeer ==
    /\ Waiting /\ pc = "nswait" /\ Oldest.wellformed
    /\ sockbuf' = Tail(sockbuf)
    /\ \/ /\ ParsedOk(Oldest) /\ ns' = Oldest
          /\ End(IF "NS" \in Oldest.rrs THEN "proceed" ELSE "servfail")
       \/ ~ParsedOk(Oldest) /\ End("servfail") /\ UNCHANGED ns
    /\ UNCHANGED <<qid, queries, inflight, soa, strays, copies>>

\* resolve() for the NS set.  tryAutoPrimarySynchronous ignores its return
\* value and goes on only when the result holds an NS record (haveNS).
ReceiveNS ==
    /\ Waiting /\ pc = "nswait" /\ Oldest.from = Remote /\ Oldest.wellformed
    /\ sockbuf' = Tail(sockbuf)
    /\ \/ /\ ParsedOk(Oldest) /\ ns' = Oldest
          /\ End(IF "NS" \in Oldest.rrs THEN "proceed" ELSE "servfail")
       \/ ~ParsedOk(Oldest) /\ End("servfail") /\ UNCHANGED ns
    /\ UNCHANGED <<qid, queries, inflight, soa, strays, copies>>

-----------------------------------------------------------------------------
(* The remote and the network: no fairness, they may fall silent.         *)

SocketOpen == pc \notin {"open", "done"}

\* The remote answers a query it received, with any rcode; an answer with
\* rcode 0 carries records of the type asked or none.
RemoteAnswers ==
    /\ SocketOpen
    /\ \E q \in queries, rc \in RCodes, rrs \in SUBSET QTypes, wf \in BOOLEAN :
          /\ rrs \subseteq {q.qtype}
          /\ rc # NoError => rrs = {}
          /\ queries' = queries \ {q}
          /\ inflight' = inflight \cup
                {[from |-> Remote, id |-> q.id, qtype |-> q.qtype, rcode |-> rc,
                  rrs |-> rrs, wellformed |-> wf]}
    /\ UNCHANGED <<pc, qid, sockbuf, soa, ns, outcome, strays, copies>>

\* An answer reaches the socket; a duplicating network leaves a copy behind.
Deliver ==
    /\ SocketOpen
    /\ \E d \in inflight :
          /\ sockbuf' = Append(sockbuf, d)
          /\ \/ inflight' = inflight \ {d} /\ UNCHANGED copies
             \/ copies < MaxCopies /\ copies' = copies + 1 /\ UNCHANGED inflight
    /\ UNCHANGED <<pc, qid, queries, soa, ns, outcome, strays>>

Lose ==
    /\ SocketOpen
    /\ \E d \in inflight : inflight' = inflight \ {d}
    /\ UNCHANGED <<pc, qid, queries, sockbuf, soa, ns, outcome, strays, copies>>

\* Another peer sends a datagram to the socket's port.
Stray ==
    /\ SocketOpen /\ strays < MaxStrays
    /\ \E id \in Ids, t \in QTypes :
          sockbuf' = Append(sockbuf, [from |-> Stranger, id |-> id, qtype |-> t,
                                      rcode |-> NoError, rrs |-> {t}, wellformed |-> TRUE])
    /\ strays' = strays + 1
    /\ UNCHANGED <<pc, qid, queries, inflight, soa, ns, outcome, copies>>

\* The try block has ended and the socket is closed.
Done == pc = "done" /\ UNCHANGED vars

Thread ==
    \/ Open \/ \E t \in QTypes : sendResolve(t)
    \/ Timeout \/ ReceiveWrongPeer \/ ReceiveMalformed \/ ReceiveSOA \/ ReceiveNS

Next == Thread \/ RemoteAnswers \/ Deliver \/ Lose \/ Stray \/ Done

Spec == Init /\ [][Next]_vars

\* The handler thread keeps running and waitForData returns.
FairSpec == Spec /\ WF_vars(Thread)

-----------------------------------------------------------------------------
(* Properties.                                                             *)

\* The serial and the NS set the bootstrap goes on with come from the
\* claimed primary's answers to its SOA and NS queries: never from a
\* datagram of another peer that reached the socket first, nor from an
\* answer that a duplication left in the buffer.
AnswersFromRemote ==
    /\ soa # NoDatagram => soa.from = Remote /\ soa.qtype = "SOA"
    /\ outcome = "proceed" => ns.from = Remote /\ ns.qtype = "NS"

\* The resolution step of the bootstrap ends, whatever the remote and the
\* network do: a lost query or answer costs the three-second timeout of
\* waitForData, never the handler thread.
ResolutionEnds == <>(pc = "done")

================================================================================
