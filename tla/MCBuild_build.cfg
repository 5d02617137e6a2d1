SPECIFICATION BuildSpec
CONSTANTS
 none = none
 hole = hole
 t1 = t1
 t2 = t2
 NoPath = none
 NoName = none
 Hole = hole
 Chunks = 2
 MAXSYMLINKS = 3
 Threads = {t1, t2}
 PutJobs <- PutCases
 ScanJobs <- ScanCases
INVARIANTS
 BuildTypeOK PutClosure PutInstalled PutNoFalseFailure ScanOnce ScanExact DepOutput
 ExtractReadable ExtractFaithful BootInOrder
PROPERTY ToolTerminates
