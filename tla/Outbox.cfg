\* Two relays, with crashes, lost answers and slow transactions.
SPECIFICATION FairSpec
CONSTANTS
    o1 = o1
    o2 = o2
    billing = billing
    execution = execution
    Order = {o1, o2}
    Queue = {billing, execution}
    Relay = {r1, r2}
    BatchSize = 2
    MaxTransactions = 3
    MaxCopies = 2
CONSTRAINT FewRows
INVARIANTS TypeOK PublishedIsAccepted
PROPERTIES ImplementsChannel EveryRowIsPublished
