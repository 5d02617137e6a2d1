SPECIFICATION RuntimeSpec
CONSTANTS
 rootfs = rootfs
 datafs = datafs
 Keys = {rootfs, datafs}
 MaxId = 3
 MaxMoves = 1
 MaxEvents = 2
 Page = 1
 MaxKills = 1
 MAX_TRIES = 3
 MAX_IFS = 5
 PmapCalls <- Packets
 NfsJobs <- NfsCases
 MaxFaults = 2
 MaxUnpause = 1
 MaxStarts = 2
 Unlimited = Unlimited
INVARIANTS
 RuntimeTypeOK MountFollowed NfsHandle NfsCleanedUp HaltInOrder HaltHarmless
 MemberWaits PipeOneByOne PipeResults PipeRetries
PROPERTY RuntimeSettles
