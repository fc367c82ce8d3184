\* One backend object (objects share nothing but the remote, which answers
\* statelessly here), results of up to three rows, so a malformed row can
\* sit between two good ones, and eight requests per behaviour: a lookup
\* read to its end, timed-out requests with late answers behind them, and
\* a transaction with feeds, a commit and an abort fit in one behaviour.
CONSTANTS
    Instances = {b1}
    RowIds = {r1, r2}
    BadRows = TRUE
    DNSSEC = TRUE
    MaxRows = 3
    MaxRequests = 8

SPECIFICATION Spec

INVARIANT TypeOK
INVARIANT CursorDeliversLookupInOrder
INVARIANT TransactionEndedOnce
