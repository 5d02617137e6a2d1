SPECIFICATION Spec
CONSTANTS
    fsck = fsck
    kickstart = kickstart
    btrfs = btrfs
    Delayd = Delayd
    Nobody = Nobody
    Pauser = {fsck, kickstart}
    OnConsole = {fsck}
    Resetter = {}
    ROOTDELAY = 2
    Resume = FALSE
    Env = {"crash"}
    MaxTime = 5
    MaxFaults = 1
CHECK_DEADLOCK FALSE
INVARIANTS GrantInv NotShortened NotProlonged NoEarlyExpiry
