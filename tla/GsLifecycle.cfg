SPECIFICATION JniSpec
INVARIANTS StatsThreadSafe RxThreadSafe StoppedIsClean CallbackSafe ThreadsDetached ClosedIsGone
PROPERTY ControlReturns
