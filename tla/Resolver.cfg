\* Two ids, so that the NS query can draw the SOA query's id; one stray
\* datagram and one duplicated delivery; an rcode other than NoError; and
\* bind, sendto and parse failures.
CONSTANTS
    Ids = {1, 2}
    Remote = Remote
    Stranger = Stranger
    RCodes = {"NoError", "Refused"}
    NoError = "NoError"
    SocketFaults = TRUE
    MaxStrays = 1
    MaxCopies = 1

SPECIFICATION FairSpec

INVARIANT TypeOK
INVARIANT AnswersFromRemote
PROPERTY ResolutionEnds
