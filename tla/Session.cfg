SPECIFICATION Spec
CONSTANT PingInterval = 3
INVARIANT FiniIsGivenLive
INVARIANT NothingForgotten
INVARIANT ConnectedIsComplete
PROPERTY ImplementsEntities
PROPERTY Reconnects
PROPERTY LossIsNoticed
