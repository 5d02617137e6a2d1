---------------------------- MODULE MCRootdelay ----------------------------
(* Instances of Rootdelay for TLC.                                         *)
EXTENDS Rootdelay, TLC

CONSTANTS fsck, kickstart, btrfs

============================================================================
