----------------------------- MODULE MCRuntime -----------------------------
(* Instances of the programs that run in the image, for TLC.               *)
EXTENDS MountMonitor, Nfsmount, Halt, MemberTimeout, Pipeline, TLC

CONSTANTS rootfs, datafs

VARIABLE tool  \* the program this behaviour runs; the others stay at their start

Udp == [valid |-> TRUE, port |-> 0, tcp |-> FALSE, pmaptcp |-> FALSE, pmap |-> "none", lock |-> FALSE,
        kernel |-> TRUE, rejects |-> {}, whole |-> TRUE, refuses |-> FALSE, reaches |-> TRUE, nosocket |-> FALSE,
        breaks |-> FALSE, registered |-> [nfsport |-> 2049, mntport |-> 20048]]
Tcp == [Udp EXCEPT !.tcp = TRUE, !.pmaptcp = TRUE]
NfsCases ==
  [udp |-> Udp,
   udplock |-> [Udp EXCEPT !.port = 2049, !.pmap = "spoof", !.lock = TRUE, !.rejects = {"AUTH_ERROR", "PROG_UNAVAIL"}],
   udpfails |-> [Udp EXCEPT !.port = 2049, !.pmaptcp = TRUE, !.kernel = FALSE, !.rejects = {"PROG_UNAVAIL"}],
   udpmismatch |-> [Udp EXCEPT !.port = 2049, !.pmaptcp = TRUE, !.rejects = {"PROG_MISMATCH"}],
   udprefused |-> [Udp EXCEPT !.pmaptcp = TRUE, !.refuses = TRUE],
   udpnomountd |-> [Udp EXCEPT !.pmaptcp = TRUE, !.registered = [nfsport |-> 0, mntport |-> 0]],
   tcp |-> [Tcp EXCEPT !.lock = TRUE, !.pmap = "inuse"],
   tcplock |-> [Tcp EXCEPT !.lock = TRUE, !.pmap = "spoof", !.kernel = FALSE],
   tcpnolockd |-> [Tcp EXCEPT !.lock = TRUE],
   tcpnosocket |-> [Tcp EXCEPT !.nosocket = TRUE, !.pmap = "spoof"],
   tcprefused |-> [Tcp EXCEPT !.refuses = TRUE, !.pmap = "spoof"],
   tcpbreaks |-> [Tcp EXCEPT !.breaks = TRUE, !.kernel = FALSE],
   tcppieces |-> [Tcp EXCEPT !.whole = FALSE],
   tcpstarting |-> [Tcp EXCEPT !.rejects = {"AUTH_ERROR", "PROG_UNAVAIL", "PROG_MISMATCH"}, !.pmap = "spoof"],
   nonfs |-> [Tcp EXCEPT !.registered.nfsport = 0, !.pmap = "spoof"],
   nomountd |-> [Tcp EXCEPT !.registered.mntport = 0],
   unreached |-> [Tcp EXCEPT !.reaches = FALSE],
   badoption |-> [Udp EXCEPT !.valid = FALSE],
   noport |-> [Udp EXCEPT !.pmap = "error"]]

\* What the lock manager asks the dummy portmapper, and what it does not.
Pmap == [packet |-> TRUE, version |-> TRUE, auth |-> TRUE, proc |-> "SET", proto |-> "udp"]
Packets == {Pmap, [Pmap EXCEPT !.proto = "tcp"], [Pmap EXCEPT !.proto = "other"], [Pmap EXCEPT !.proc = "UNSET"],
            [Pmap EXCEPT !.packet = FALSE], [Pmap EXCEPT !.version = FALSE], [Pmap EXCEPT !.auth = FALSE]}

----------------------------------------------------------------------------
\* Disks and interfaces for halt: every set of the options, by every name.
Disk == [name |-> "sd", removable |-> "0", device |-> "ok", managed |-> "none", vendor |-> "ATA", size |-> "large",
         opens |-> TRUE, accepts |-> {"flush", "standby"}]
Nic(kind, up, works) == [kind |-> kind, up |-> up, works |-> works]
Machine ==
  [called |-> "halt", slash |-> FALSE, opts |-> {}, root |-> TRUE, chdir |-> TRUE, shutdown |-> TRUE, wtmp |-> TRUE,
   INIT_VERSION |-> TRUE, RUNLEVEL |-> "0", utmp |-> "none", inet |-> TRUE,
   ifs |-> <<Nic("eth", TRUE, TRUE), Nic("lo", TRUE, TRUE), Nic("shaper", TRUE, TRUE), Nic("alias", TRUE, TRUE),
             Nic("shaper", TRUE, FALSE), Nic("shaper", TRUE, TRUE)>>,   \* the last one is beyond MAX_IFS
   disks |-> <<Disk, [Disk EXCEPT !.name = "other"], [Disk EXCEPT !.name = "hd", !.size = "small", !.accepts = {"blk"}],
               [Disk EXCEPT !.vendor = "SCSI"], [Disk EXCEPT !.vendor = "SCSI", !.removable = "1", !.accepts = {"ext"}]>>,
   works |-> {"halt", "poweroff", "reboot", "kexec"}, monitor |-> FALSE]
Called == {[Machine EXCEPT !.called = c, !.opts = o, !.RUNLEVEL = r, !.works = w] :
             c \in {"halt", "reboot", "poweroff"}, o \in SUBSET {"n", "w", "f", "i", "h", "p", "k"}, r \in {"0", "3"},
             w \in {{"halt", "reboot"}, {}}}
Alone(d) == [Machine EXCEPT !.disks = <<d, Disk>>]
Troubled ==
  {Alone([Disk EXCEPT !.removable = x]) : x \in {"1", "none", "error"}}
  \cup {Alone([Disk EXCEPT !.device = x]) : x \in {"none", "error"}}
  \cup {Alone([Disk EXCEPT !.managed = x]) : x \in {"0", "1", "error"}}
  \cup {Alone([Disk EXCEPT !.vendor = x]) : x \in {"none", "error"}}
  \cup {Alone([Disk EXCEPT !.size = "error"]), Alone([Disk EXCEPT !.opens = FALSE]),
        [Machine EXCEPT !.root = FALSE], [Machine EXCEPT !.monitor = TRUE], [Machine EXCEPT !.wtmp = FALSE],
        [Machine EXCEPT !.chdir = FALSE], [Machine EXCEPT !.opts = {"i", "h"}, !.inet = FALSE],
        [Machine EXCEPT !.disks = <<Disk, [Disk EXCEPT !.removable = "error"], Disk>>],
        [Machine EXCEPT !.INIT_VERSION = FALSE, !.utmp = "6"], [Machine EXCEPT !.RUNLEVEL = "none"],
        [Machine EXCEPT !.RUNLEVEL = "3", !.shutdown = FALSE], [Machine EXCEPT !.called = "poweroff", !.slash = TRUE]}

----------------------------------------------------------------------------
\* Arrays: two members of which one is enough, one that is not ours, one alone.
Array(n, configured, need) == [members |-> 1 .. n, configured |-> configured, need |-> need, hasty |-> FALSE]
MemberCases ==
  {[kind |-> k, delay |-> d, arrays |-> [md0 |-> [Array(2, TRUE, 1) EXCEPT !.hasty = TRUE], md1 |-> x]] :
     k \in {"md", "btrfs"}, d \in {0, 2}, x \in {Array(2, TRUE, 2), Array(1, TRUE, 1), Array(2, FALSE, 1)}}

\* Pipelines: steps that mount or not, may fail, are not there, or stop it.
PStep(name, mounts, rcs) == [name |-> name, there |-> TRUE, mounts |-> mounts, late |-> FALSE, rcs |-> rcs]
Waitdev == PStep("waitdev", FALSE, {"ok", "fail"})
Mountfs == PStep("mountfs", TRUE, {"ok", "fail"})
Rootfs == PStep("rootfs", FALSE, {"stop", "fail"})
Absent == [Mountfs EXCEPT !.there = FALSE]
PipeJob(steps, retry) == [steps |-> steps, retry |-> retry]
PipeCases ==
  {PipeJob(<<Waitdev, Mountfs, Rootfs>>, 0), PipeJob(<<Mountfs, Rootfs>>, 1)}
  \cup {PipeJob(<<Mountfs, Absent, [Mountfs EXCEPT !.late = TRUE]>>, n) : n \in {1, Unlimited}}
  \cup {PipeJob(<<Absent, Mountfs, PStep("", FALSE, {}), Rootfs>>, 0), PipeJob(<<>>, 0)}

----------------------------------------------------------------------------
toolVars == <<tool, mountVars, nfsVars, haltVars, memberVars, pipeVars>>

RuntimeInit ==
  /\ tool \in {"mounts", "nfsmount", "halt", "members", "pipeline"}
  /\ MountInit /\ (tool # "mounts" => lastId = 0)
  /\ NfsInit /\ (tool # "nfsmount" => nfsJob = "badoption")
  /\ HaltStart(IF tool = "halt" THEN Called \cup Troubled ELSE {Machine})
  /\ MemberStart(IF tool = "members" THEN MemberCases ELSE {[kind |-> "md", delay |-> 0, arrays |-> <<>>]})
  /\ PipeStart(IF tool = "pipeline" THEN PipeCases ELSE {[steps |-> <<>>, retry |-> 0]})

OfMounts(A) == tool = "mounts" /\ A /\ UNCHANGED <<tool, nfsVars, haltVars, memberVars, pipeVars>>
OfNfs(A) == tool = "nfsmount" /\ A /\ UNCHANGED <<tool, mountVars, haltVars, memberVars, pipeVars>>
OfHalt(A) == tool = "halt" /\ A /\ UNCHANGED <<tool, mountVars, nfsVars, memberVars, pipeVars>>
OfMembers(A) == tool = "members" /\ A /\ UNCHANGED <<tool, mountVars, nfsVars, haltVars, pipeVars>>
OfPipe(A) == tool = "pipeline" /\ A /\ UNCHANGED <<tool, mountVars, nfsVars, haltVars, memberVars>>
Rest == /\ CASE tool = "nfsmount" -> NfsFinished [] tool = "halt" -> HaltFinished [] OTHER -> TRUE
        /\ UNCHANGED toolVars
RuntimeNext == OfMounts(MountStep) \/ OfNfs(NfsStep) \/ OfHalt(HaltStep) \/ OfMembers(MemberStep) \/ OfPipe(PipeStep) \/ Rest

\* Each program runs on, nfsmount's servers and its dummy portmapper answer what
\* reaches them; time passes, ueventd runs its timers and handlers.  Nobody has to
\* mount, move or unmount anything, no member has to appear, no pause is lifted.
RuntimeSpec ==
  /\ RuntimeInit /\ [][RuntimeNext]_toolVars
  /\ WF_toolVars(OfMounts(Daemon)) /\ WF_toolVars(OfHalt(HaltStep))
  /\ WF_toolVars(OfNfs(Client)) /\ WF_toolVars(OfNfs(Serve)) /\ WF_toolVars(OfNfs(DummyPortmap))
  /\ WF_toolVars(OfMembers(Filter)) /\ WF_toolVars(OfMembers(FireTimer)) /\ WF_toolVars(OfMembers(Tick))
  /\ WF_toolVars(OfMembers(MemberHandler)) /\ WF_toolVars(OfPipe(PipeHandler))

\* The states of the three programs beside the handlers; nfsmount's tries are bounded.
RuntimeTypeOK == MountTypeOK /\ NfsTypeOK /\ HaltTypeOK

\* Every program comes to rest: nfsmount ends whatever UDP loses (MAX_TRIES) and,
\* over TCP, once the server answers or the connection breaks; halt ends; and the
\* mount monitor, when mounts stop changing, has caught up, has given up for a
\* temporary file, or has missed what it cannot notice; when no more members come,
\* arrays and file systems are started with what they have, and nothing is left in
\* queue and timers (MemberSettled); and a pipeline has ended or is paused (PipeRests).
RuntimeSettles ==
  <>[](CASE tool = "mounts" -> Quiet \/ overflow \/ missed \/ monitor = "dead"
         [] tool = "nfsmount" -> NfsFinished
         [] tool = "halt" -> HaltFinished
         [] tool = "members" -> MemberSettled
         [] tool = "pipeline" -> PipeRests)
============================================================================
