CONSTANT SYNC_STAGES = 2
SPECIFICATION FairSpec
INVARIANT IInv
INVARIANT IdleMeansDelivered
PROPERTY ImplementsChannel
PROPERTY Delivered
PROPERTY FreeAgain
