\* Three transactions and two Closes on a channel of two slots, so that an order can be
\* wrong and the channel full.
CONSTANTS
    Transactions = {t1, t2, t3}
    NoTransaction = NoTransaction
    Closers = {c1, c2}
    QueueSize = 2
SPECIFICATION Spec
INVARIANTS
    OpenWhileOffering
PROPERTIES
    ImplementsDelivery
