SPECIFICATION Spec
CONSTANTS
    fsck = fsck
    kickstart = kickstart
    btrfs = btrfs
    Delayd = Delayd
    Nobody = Nobody
    Pauser = {fsck}
    OnConsole = {fsck}
    Resetter = {}
    ROOTDELAY = 2
    Resume = FALSE
    Env = {"giveup"}
    MaxTime = 5
    MaxFaults = 0
CHECK_DEADLOCK FALSE
INVARIANT ZeroKept
