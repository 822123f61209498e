CONSTANTS
    LinkId = 2
    PortMod = 4
    ChanMod = 16
    Primary = 1
    Chans <- MCChans
    Raw = {61, 200}
    MaxPaths = 2
    MaxFrames = 3
    Fresh = {"second"}
    Absent = Absent
    Tick = 4
    Overrun = 1
    Intervals = {1, 4}
    IdrMax = 3
    Signals <- MCSignals
    NoiseGrid <- MCNoiseGrid
SPECIFICATION LinkSpec
INVARIANTS
    CountersConserved SnapshotExact SessionHonest KeysPair
    LossRequestsKeyframe RequestRepeated ScoreHonest PenaltyEarned
