-------------------------------- MODULE Halt --------------------------------
(***************************************************************************)
(* halt, reboot and poweroff (features/runtime/src/halt): one program that *)
(* by its name and options hands over to shutdown, or records the event,   *)
(* syncs, takes interfaces and disks down and calls reboot().  A call that *)
(* fails lets the program go on.                                           *)
(***************************************************************************)
EXTENDS Integers, Sequences, FiniteSets

CONSTANT MAX_IFS   \* interfaces ifdown() has room for: 64
ASSUME MaxIfsAssumption == MAX_IFS \in Nat

VARIABLES
  halt,     \* argv[0], options, environment, interfaces, disks, and what reboot() can do
  hpc,      \* where main() is
  wtmp,     \* the record is written
  synced,   \* sync() was called
  pass,     \* ifdown(): 1 the shapers, 0 the others
  at,       \* the next interface or disk
  ups,      \* the interfaces that are up
  flushed,  \* disks whose cache was flushed
  standby,  \* disks put in standby mode
  cad,      \* CTRL-ALT-DEL reboots at once
  stopped,  \* init is stopped
  fate      \* what became of the system

haltVars == <<halt, hpc, wtmp, synced, pass, at, ups, flushed, standby, cad, stopped, fate>>

Has(o) == o \in halt.opts

\* progname is argv[0] from its last slash on, with the slash.
Named(n) == ~halt.slash /\ halt.called = n
do_reboot == Named("reboot")
do_poweroff == Named("poweroff") \/ Has("p")
do_nothing == Has("w")
do_sync == ~Has("n")
do_wtmp == ~Has("n") /\ ~Has("d")

HaltStart(jobs) ==
  /\ halt \in jobs
  /\ hpc = "args" /\ wtmp = FALSE /\ synced = FALSE /\ pass = 1 /\ at = 1
  /\ ups = {i \in DOMAIN halt.ifs : halt.ifs[i].up}
  /\ flushed = {} /\ standby = {} /\ cad = FALSE /\ stopped = FALSE /\ fate = "up"

\* RUNLEVEL when init started us, else the record in utmp; either may be missing.
get_runlevel == IF halt.INIT_VERSION /\ halt.RUNLEVEL # "none" THEN halt.RUNLEVEL ELSE halt.utmp

\* The program becomes shutdown, unless execv() fails.
do_shutdown ==
  /\ hpc' = "exit1"
  /\ fate' = IF ~halt.shutdown THEN fate ELSE IF do_reboot THEN "shutdown -r" ELSE "shutdown -h"

\* Bad options, users other than root and a root directory nobody can go to end
\* here; outside runlevels 0 and 6, without -f and -w, shutdown is left to do it.
Arguments ==
  /\ hpc = "args"
  /\ LET asks == ~Has("f") /\ ~do_nothing
     IN IF \/ (Has("p") /\ do_reboot) \/ ~halt.root \/ ~halt.chdir
           \/ (asks /\ get_runlevel # "6" /\ do_reboot /\ Has("k"))
        THEN hpc' = "exit1" /\ UNCHANGED fate
        ELSE IF asks /\ get_runlevel \notin {"0", "6"} THEN do_shutdown
        ELSE hpc' = "wtmp" /\ UNCHANGED fate
  /\ UNCHANGED <<halt, wtmp, synced, pass, at, ups, flushed, standby, cad, stopped>>

WriteWtmp ==
  /\ hpc = "wtmp"
  /\ wtmp' = (do_wtmp /\ halt.wtmp)
  /\ hpc' = IF do_nothing /\ ~Has("h") /\ ~Has("i") THEN "exit0" ELSE "sync"
  /\ UNCHANGED <<halt, synced, pass, at, ups, flushed, standby, cad, stopped, fate>>

Sync ==
  /\ hpc = "sync"
  /\ synced' = do_sync
  /\ hpc' = IF Has("i") THEN "ifdown" ELSE "disks"
  /\ UNCHANGED <<halt, wtmp, pass, at, ups, flushed, standby, cad, stopped, fate>>

\* Mutant: one pass is like the other.
TakesAny(i) == halt.ifs[i].kind \notin {"lo", "alias"} /\ halt.ifs[i].works

\* ifdown(): SIOCGIFCONF lists as many interfaces as there is room for.  One of
\* this pass is taken down, unless it is lo, an alias, or one whose flags cannot
\* be read or set.  Without a socket or the list, nothing is.
numif == IF Len(halt.ifs) <= MAX_IFS THEN Len(halt.ifs) ELSE MAX_IFS
Takes(i) == LET f == halt.ifs[i] IN (f.kind = "shaper") = (pass = 1) /\ f.kind \notin {"lo", "alias"} /\ f.works
Ifdown ==
  /\ hpc = "ifdown"
  /\ \/ /\ halt.inet /\ at <= numif
        /\ ups' = IF Takes(at) THEN ups \ {at} ELSE ups
        /\ at' = at + 1 /\ UNCHANGED <<pass, hpc>>
     \/ /\ halt.inet /\ at > numif
        /\ at' = 1 /\ UNCHANGED ups
        /\ IF pass = 1 THEN pass' = 0 /\ UNCHANGED hpc ELSE hpc' = "disks" /\ UNCHANGED pass
     \/ ~halt.inet /\ hpc' = "disks" /\ at' = 1 /\ UNCHANGED <<pass, ups>>
  /\ UNCHANGED <<halt, wtmp, synced, flushed, standby, cad, stopped, fate>>

\* The extended flush is wanted (1) for any large disk, whatever it identifies as;
\* -1 when its size cannot be read.
flush_cache_ext(d) == CASE d.size = "error" -> -1 [] d.size = "large" -> 1 [] OTHER -> 0

\* list_disks(): what a directory entry of /sys/block means for the walk.  An
\* attribute that is there and cannot be read ends it.
List1(d) ==
  LET ext == IF flush_cache_ext(d) < 0 THEN "stop" ELSE "take"
  IN CASE d.name = "other" -> "skip"
       [] d.removable = "error" -> "stop"
       [] d.removable = "none" -> "skip"
       [] d.name = "hd" -> IF d.removable = "1" THEN "skip" ELSE ext
       [] d.device # "ok" -> IF d.device = "error" THEN "stop" ELSE "skip"
       [] d.managed = "error" -> "stop"
       [] d.managed = "1" -> "skip"
       [] d.vendor # "ATA" /\ d.vendor # "SCSI" -> IF d.vendor = "error" THEN "stop" ELSE "skip"
       [] d.vendor = "ATA" -> IF d.removable = "1" THEN "skip" ELSE ext
       [] OTHER -> IF d.removable = "1" THEN ext ELSE "skip"

\* do_standby_disk(): the extended flush if wanted, then the plain one, then
\* BLKFLSBUF; standby with -h only.
Flushes(d) == d.opens /\ ((flush_cache_ext(d) = 1 /\ "ext" \in d.accepts) \/ d.accepts \cap {"flush", "blk"} # {})
Disks ==
  /\ hpc = "disks"
  /\ IF at <= Len(halt.disks) /\ List1(halt.disks[at]) # "stop"
     THEN LET d == halt.disks[at]
              taken == List1(d) = "take"
          IN /\ flushed' = IF taken /\ Flushes(d) THEN flushed \cup {at} ELSE flushed
             /\ standby' = IF taken /\ Has("h") /\ d.opens /\ "standby" \in d.accepts THEN standby \cup {at} ELSE standby
             /\ at' = at + 1 /\ UNCHANGED hpc
     ELSE hpc' = (IF do_nothing THEN "exit0" ELSE "down") /\ UNCHANGED <<at, flushed, standby>>
  /\ UNCHANGED <<halt, wtmp, synced, pass, ups, cad, stopped, fate>>

\* init_reboot(): down for good, or the kernel refuses and the next way is tried.
Reboots(how, next) ==
  IF how \in halt.works THEN fate' = how /\ hpc' = "off" ELSE hpc' = next /\ UNCHANGED fate
Down ==
  /\ hpc = "down"
  /\ IF do_reboot
     THEN (IF Has("k") THEN Reboots("kexec", "reboot") ELSE hpc' = "reboot" /\ UNCHANGED fate) /\ UNCHANGED <<cad, stopped>>
     ELSE /\ cad' = TRUE /\ stopped' = TRUE
          /\ IF do_poweroff THEN Reboots("poweroff", "halt") ELSE hpc' = "halt" /\ UNCHANGED fate
  /\ UNCHANGED <<halt, wtmp, synced, pass, at, ups, flushed, standby>>
LastWay ==
  /\ hpc \in {"reboot", "halt"}
  /\ Reboots(hpc, "back")
  /\ UNCHANGED <<halt, wtmp, synced, pass, at, ups, flushed, standby, cad, stopped>>
\* Mutant: init stays stopped.
ComeBackStopped ==
  /\ hpc = "back" \/ (hpc = "off" /\ halt.monitor /\ fate = "halt")
  /\ cad' = FALSE /\ fate' = "up" /\ hpc' = "exit0"
  /\ UNCHANGED <<halt, wtmp, synced, pass, at, ups, flushed, standby, stopped>>

\* Continued from the kernel's monitor.
ComeBack ==
  /\ hpc = "back" \/ (hpc = "off" /\ halt.monitor /\ fate = "halt")
  /\ cad' = FALSE /\ stopped' = FALSE /\ fate' = "up" /\ hpc' = "exit0"
  /\ UNCHANGED <<halt, wtmp, synced, pass, at, ups, flushed, standby>>

HaltStep == Arguments \/ WriteWtmp \/ Sync \/ Ifdown \/ Disks \/ Down \/ LastWay \/ ComeBack
HaltFinished == hpc \in {"exit0", "exit1", "off"}

----------------------------------------------------------------------------
(* Properties *)

\* The state of halt; only disks and interfaces of this machine are touched.
HaltTypeOK ==
  /\ hpc \in {"args", "wtmp", "sync", "ifdown", "disks", "down", "reboot", "halt", "back", "off", "exit0", "exit1"}
  /\ flushed \cup standby \subseteq DOMAIN halt.disks /\ ups \subseteq DOMAIN halt.ifs

\* sync() comes first: before it, unless -n forbids it, no interface goes down, no
\* disk is flushed or put in standby mode and the system does not stop.
HaltSynced ==
  (flushed \cup standby # {} \/ fate \in {"halt", "poweroff", "reboot", "kexec"}
    \/ \E i \in DOMAIN halt.ifs : halt.ifs[i].up /\ i \notin ups) => Has("n") \/ synced

\* With -i the interfaces go down before a disk is touched: all that ifdown() was
\* told of, and whose flags it could set, but for lo and aliases.
HaltNetFirst ==
  Has("i") /\ halt.inet /\ flushed \cup standby # {} =>
    \A i \in ups : i <= numif /\ halt.ifs[i].works => halt.ifs[i].kind \in {"lo", "alias"}

\* The system stops only when every disk that list_disks() is for was flushed, up
\* to the first one with an attribute that stopped the walk.
HaltFlushed ==
  fate \in {"halt", "poweroff", "reboot", "kexec"} =>
    \A i \in DOMAIN halt.disks :
      /\ \A j \in 1 .. i : List1(halt.disks[j]) # "stop"
      /\ List1(halt.disks[i]) = "take" /\ Flushes(halt.disks[i])
      => i \in flushed

\* "First, we find all shaper devices and down them. Then we down all real
\* interfaces": no other interface goes down while a shaper is up that ifdown()
\* was told of and could take down.
HaltShapers ==
  (\E i \in DOMAIN halt.ifs : halt.ifs[i].kind # "shaper" /\ halt.ifs[i].up /\ i \notin ups) =>
    \A i \in ups : ~(halt.ifs[i].kind = "shaper" /\ halt.ifs[i].works /\ i <= numif)

\* A program that could not stop the system, or was continued from the kernel's
\* monitor, leaves init running and CTRL-ALT-DEL to init.
HaltUndone == hpc \in {"exit0", "exit1"} => ~stopped /\ ~cad

\* -w promises to "only write a wtmp reboot record and exit": the system stays up
\* and, without -h and -i, nothing but the record changes.
HaltRecordOnly ==
  do_nothing => /\ fate = "up" /\ ~cad /\ ~stopped
                /\ {"h", "i"} \cap halt.opts = {} => ~synced /\ flushed = {} /\ Cardinality(ups) =
                     Cardinality({i \in DOMAIN halt.ifs : halt.ifs[i].up})

\* What comes before what: sync(), the shapers, the other interfaces, the disks
\* and the end.
HaltInOrder == HaltSynced /\ HaltShapers /\ HaltNetFirst /\ HaltFlushed

\* What does not stop the system leaves it as it was.
HaltHarmless == HaltUndone /\ HaltRecordOnly

============================================================================
