SPECIFICATION FairSpec
CONSTANTS
    fsck = fsck
    kickstart = kickstart
    btrfs = btrfs
    Delayd = Delayd
    Nobody = Nobody
    Pauser = {fsck}
    OnConsole = {fsck}
    Resetter = {btrfs}
    ROOTDELAY = 1
    Resume = TRUE
    Env = {"crash", "giveup", "rdshell"}
    MaxTime = 3
    MaxFaults = 1
CHECK_DEADLOCK FALSE
PROPERTIES PauseSettled ExpiryComes
