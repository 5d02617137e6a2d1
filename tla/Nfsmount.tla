------------------------------ MODULE Nfsmount ------------------------------
(***************************************************************************)
(* nfsmount (features/runtime/src/nfsmount): asks the server's portmapper  *)
(* for two ports, calls its mount daemon and then mount(); beside it runs, *)
(* if asked for, the dummy portmapper that answers the kernel's lock       *)
(* manager.  Over UDP requests and replies are lost, delayed, duplicated   *)
(* and reordered; over TCP a reply may come in several pieces.  A call is  *)
(* named by its procedure, as each has its xid.  Lengths count words of 4  *)
(* bytes, from the fragment header on.                                     *)
(***************************************************************************)
EXTENDS Naturals, Sequences, FiniteSets

CONSTANTS
  NfsJobs,    \* name -> options, and what servers and kernel will do
  MAX_TRIES,  \* of a call over UDP
  PmapCalls   \* packets the dummy portmapper may get: [packet, version, auth, proc, proto]

VARIABLES
  nfsJob,    \* the name of this run's command line
  npc,       \* where nfs_mount() is
  rpc,       \* the call at work: [proc, phase, i, len]
  tcp,       \* the call goes over TCP
  reqs,      \* requests on their way
  reps,      \* replies on their way: [proc, state]
  ports,     \* nfs_port and mount_port
  root,      \* data->root
  mounted,   \* mounted, of nfs_mount()
  acked,     \* the UMNT call came back with success
  rmtab,     \* server: the client is noted as having the path mounted
  undone,    \* server: it has handled an UMNT
  spoof,     \* the dummy portmapper: "none", "runs" or "gone"
  promised,  \* the SETs the dummy portmapper said TRUE to
  kmounted   \* mount() succeeded

nfsVars == <<nfsJob, npc, rpc, tcp, reqs, reps, ports, root, mounted, acked, rmtab, undone,
             spoof, promised, kmounted>>
pmVars == <<spoof, promised>>
netVars == <<reqs, reps, rmtab, undone>>
cliVars == <<ports, root, mounted, acked>>

nfs == NfsJobs[nfsJob]
NoCall == [proc |-> "none", phase |-> "none", i |-> 0, len |-> 0]
\* The mount daemon's calls share a socket; a portmapper's is closed after its call,
\* and what was on the way is dropped.
ToMountd(p) == p \in {"mnt", "umnt"}
Dropped(S) == {m \in S : ToMountd(m.proc)}

NfsInit ==
  /\ nfsJob \in DOMAIN NfsJobs
  /\ npc = "opts" /\ rpc = NoCall /\ tcp = FALSE
  /\ reqs = {} /\ reps = {} /\ rmtab = FALSE /\ undone = FALSE
  /\ ports = [nfs |-> nfs.port, mount |-> 0]
  /\ root = "none" /\ mounted = FALSE /\ acked = FALSE
  /\ spoof = "none" /\ promised = {} /\ kmounted = FALSE

----------------------------------------------------------------------------
(* nfsmount_main() *)

\* start_dummy_portmap(): not needed if something holds its port already; the
\* file, the socket or fork() may fail.
StartSpoof ==
  /\ npc' = IF nfs.pmap = "error" THEN "fail" ELSE "nfsport"
  /\ spoof' = IF nfs.pmap = "spoof" THEN "runs" ELSE spoof

\* Options, server and path, any of which may be refused.
ParseOptions ==
  /\ npc = "opts"
  /\ IF nfs.valid THEN StartSpoof ELSE npc' = "fail" /\ UNCHANGED spoof
  /\ UNCHANGED <<nfsJob, rpc, tcp, netVars, cliVars, promised, kmounted>>

\* The end: SIGTERM and waitpid().
TearDown ==
  /\ npc \in {"done", "failed"}
  /\ npc' = IF npc = "done" THEN "ok" ELSE "fail"
  /\ spoof' = IF spoof = "runs" THEN "gone" ELSE spoof
  /\ UNCHANGED <<nfsJob, rpc, tcp, netVars, cliVars, promised, kmounted>>

----------------------------------------------------------------------------
(* sunrpc.c *)

\* Words of a reply: its header, with the status, and with a whole file handle;
\* the last also stands for longer ones.
HEADER == 7
STATUS == 8
WHOLE == 10
reply_len(p) == IF ToMountd(p) THEN WHOLE ELSE STATUS   \* sizeof(mnt_reply), sizeof(reply)

Connect(p, overTcp) == rpc' = [proc |-> p, phase |-> "send", i |-> 0, len |-> reply_len(p)] /\ tcp' = overTcp

\* The request leaves, over UDP perhaps for nowhere, or write() fails.
RpcSend ==
  /\ rpc.phase = "send"
  /\ \/ /\ rpc' = [rpc EXCEPT !.phase = "wait"]
        /\ reqs' \in {reqs \cup {[proc |-> rpc.proc]}} \cup (IF tcp THEN {} ELSE {reqs})
     \/ (tcp => nfs.breaks) /\ rpc' = [rpc EXCEPT !.phase = "fail"] /\ UNCHANGED reqs
  /\ UNCHANGED <<nfsJob, npc, tcp, reps, rmtab, undone, cliVars, pmVars, kmounted>>

Failed == [rpc EXCEPT !.phase = "fail"]
\* Mutant: one try too many.
AgainOnceMore(phase) == IF rpc.i < MAX_TRIES THEN [rpc EXCEPT !.i = @ + 1, !.phase = phase] ELSE Failed

Again(phase) == IF rpc.i + 1 < MAX_TRIES THEN [rpc EXCEPT !.i = @ + 1, !.phase = phase] ELSE Failed

\* Over UDP poll() gives up after its seconds and the request is sent again, or
\* read() fails and poll() is called again; over TCP read() waits, but the
\* connection may break.
RpcTimeout ==
  /\ rpc.phase = "wait"
  /\ tcp => nfs.breaks
  /\ rpc' \in IF tcp THEN {Failed} ELSE {Again("send"), Again("wait")}
  /\ UNCHANGED <<nfsJob, npc, tcp, netVars, cliVars, pmVars, kmounted>>

\* The length of a reply: of a server that rejects the call, of one that handled
\* it, of what one read() over TCP left behind.
Words(r) ==
  CASE r.state \in {"AUTH_ERROR", "rest"} -> HEADER - 1
    [] r.state = "PROG_UNAVAIL" -> HEADER
    [] r.state = "PROG_MISMATCH" -> STATUS + 1
    [] OTHER -> CASE r.proc = "mnt" -> IF nfs.refuses THEN STATUS ELSE WHOLE
                  [] r.proc = "umnt" -> HEADER
                  [] OTHER -> STATUS

\* rpc_do_reply(): what read() returns bounds what later tries may read, unless
\* not even the header came; another xid, a refusal or a fragment that is not the
\* last is a bad reply, and over UDP poll() is called again.
Reads(r) == IF tcp /\ ~nfs.whole THEN HEADER - 1 .. Words(r) ELSE {Words(r)}
Left(r, n) == IF n < Words(r) THEN {[proc |-> r.proc, state |-> "rest"]} ELSE {}
Matches(r) == r.proc = rpc.proc
RpcReply ==
  /\ rpc.phase = "wait"
  /\ \E r \in reps : \E n \in Reads(r) :
       /\ ToMountd(r.proc) = ToMountd(rpc.proc)
       /\ r.state = "rest" \/ ~\E m \in reps : m.state = "rest"
       /\ reps' \in {(reps \ {r}) \cup Left(r, n)} \cup IF tcp THEN {} ELSE {reps}
       /\ LET len == IF n < HEADER \/ rpc.len < n THEN rpc.len ELSE n
          IN rpc' = IF n >= HEADER /\ Matches(r) /\ r.state = "ok" THEN [rpc EXCEPT !.len = len, !.phase = "done"]
                    ELSE IF tcp THEN Failed
                    ELSE [Again("wait") EXCEPT !.len = len]
  /\ UNCHANGED <<nfsJob, npc, tcp, reqs, rmtab, undone, cliVars, pmVars, kmounted>>

\* External: the server handles a request, over UDP perhaps once more later, and
\* its answer gets lost or not; over TCP it may be in several fragments.  A server
\* still starting rejects what it will do later; a refusal of the path is a reply
\* with a status.
Serve ==
  /\ \E q \in reqs :
       /\ \E keep \in IF tcp THEN {FALSE} ELSE BOOLEAN : reqs' = IF keep THEN reqs ELSE reqs \ {q}
       /\ \E state \in {"ok"} \cup nfs.rejects \cup IF tcp /\ ~nfs.whole THEN {"frag"} ELSE {} :
            LET handled == state \in {"ok", "frag"}
            IN /\ reps' \in {reps \cup {[proc |-> q.proc, state |-> state]}} \cup (IF tcp THEN {} ELSE {reps})
               /\ rmtab' = IF ~handled THEN rmtab
                           ELSE CASE q.proc = "mnt" -> rmtab \/ ~nfs.refuses
                                  [] q.proc = "umnt" -> FALSE
                                  [] OTHER -> rmtab
               /\ undone' = (undone \/ (q.proc = "umnt" /\ handled))
  /\ UNCHANGED <<nfsJob, npc, rpc, tcp, cliVars, pmVars, kmounted>>

----------------------------------------------------------------------------
(* get_ports() and portmap(): over TCP if the portmapper accepts, else over UDP *)

Asking(p) == npc = p /\ rpc.phase = "none"
CallPortmap(p) ==
  /\ Asking(p)
  /\ IF p = "nfsport" /\ ports.nfs # 0 THEN npc' = "mntport" /\ UNCHANGED <<rpc, tcp>>
     ELSE Connect(p, nfs.pmaptcp) /\ UNCHANGED npc
  /\ UNCHANGED <<nfsJob, netVars, cliVars, pmVars, kmounted>>

\* The port, or 0 when the call failed or its reply is incomplete.
PortOf(p) == IF rpc.phase = "done" /\ rpc.len >= STATUS THEN nfs.registered[p] ELSE 0

\* No port for NFS is fatal over TCP only; the mount daemon's port is what came
\* back, 0 included.
PortmapDone ==
  /\ npc \in {"nfsport", "mntport"} /\ rpc.phase \in {"done", "fail"}
  /\ LET port == PortOf(npc)
     IN IF npc = "nfsport"
        THEN /\ npc' = IF port = 0 /\ nfs.tcp THEN "failed" ELSE "mntport"
             /\ ports' = [ports EXCEPT !.nfs = IF port = 0 THEN 2049 ELSE port]
        ELSE npc' = "mnt" /\ ports' = [ports EXCEPT !.mount = port]
  /\ rpc' = NoCall /\ reqs' = Dropped(reqs) /\ reps' = Dropped(reps)
  /\ UNCHANGED <<nfsJob, tcp, rmtab, undone, root, mounted, acked, pmVars, kmounted>>

----------------------------------------------------------------------------
(* nfs_mount() *)

CallMount ==
  /\ Asking("mnt")
  /\ IF nfs.reaches /\ ports.mount # 0 THEN Connect("mnt", nfs.tcp) /\ UNCHANGED npc
     ELSE IF nfs.tcp \/ ~nfs.reaches THEN npc' = "failed" /\ UNCHANGED <<rpc, tcp>>
     ELSE rpc' = [Failed EXCEPT !.proc = "mnt"] /\ UNCHANGED <<npc, tcp>>   \* nobody at port 0
  /\ UNCHANGED <<nfsJob, netVars, cliVars, pmVars, kmounted>>

\* Mutant: the length of the reply is not looked at.
CompleteAny == TRUE

\* mount_call() and mount_v2() or mount_v3(): the reply long enough for a status,
\* and that is 0.  The handle is what then stands in mnt_reply.
Complete == rpc.len >= STATUS
MountDone ==
  /\ npc = "mnt" /\ rpc.phase \in {"done", "fail"}
  /\ IF rpc.phase = "done" /\ Complete /\ ~nfs.refuses
     THEN /\ npc' = "socket" /\ mounted' = TRUE
          /\ root' = IF rpc.len = WHOLE THEN "handle" ELSE IF rpc.len >= STATUS THEN "garbage" ELSE "stale"
     ELSE npc' = "bail" /\ UNCHANGED <<mounted, root>>
  /\ rpc' = NoCall
  /\ UNCHANGED <<nfsJob, tcp, netVars, ports, acked, pmVars, kmounted>>

\* A socket with a privileged port, then mount(); the kernel's lock manager may
\* ask a portmapper before mount() returns.
MountSyscall ==
  /\ npc = "socket"
  /\ npc' \in IF nfs.nosocket THEN {"bail"} ELSE IF nfs.lock THEN {"lockd"} ELSE {"result"}
  /\ UNCHANGED <<nfsJob, rpc, tcp, netVars, cliVars, pmVars, kmounted>>

\* mount() returns: with locks it needs an answer from some portmapper; with a
\* handle that is none it may do anything.
MountReturns ==
  /\ npc \in {"lockd", "result"}
  /\ npc = "lockd" => nfs.pmap # "spoof" \/ promised # {}
  /\ LET can == nfs.kernel /\ (npc = "lockd" => nfs.pmap # "none")
     IN \E ok \in {can} \cup IF root = "handle" THEN {} ELSE {FALSE} :
          npc' = (IF ok THEN "done" ELSE "bail") /\ kmounted' = ok
  /\ UNCHANGED <<nfsJob, rpc, tcp, netVars, cliVars, pmVars>>

\* Mutant: nothing is taken back.
BailSilent ==
  /\ Asking("bail")
  /\ npc' = "failed"
  /\ UNCHANGED <<nfsJob, rpc, tcp, netVars, cliVars, pmVars, kmounted>>

\* bail: a mount the server knows of is taken back, over the same socket.
Bail ==
  /\ Asking("bail")
  /\ IF mounted THEN Connect("umnt", nfs.tcp) /\ UNCHANGED npc
     ELSE npc' = "failed" /\ UNCHANGED <<rpc, tcp>>
  /\ UNCHANGED <<nfsJob, netVars, cliVars, pmVars, kmounted>>
BailDone ==
  /\ npc = "bail" /\ rpc.phase \in {"done", "fail"}
  /\ acked' = (rpc.phase = "done")
  /\ npc' = "failed" /\ rpc' = NoCall
  /\ UNCHANGED <<nfsJob, tcp, netVars, ports, root, mounted, pmVars, kmounted>>

----------------------------------------------------------------------------
(* dummy_portmap(): a SET for tcp or udp is answered TRUE and noted.  A    *)
(* packet that is short or no call is dropped; one for other programs or   *)
(* versions, from another user, or for another procedure gets an answer    *)
(* that registers nothing.                                                 *)
Granted(c) == c.packet /\ c.version /\ c.auth /\ c.proc = "SET" /\ c.proto \in {"tcp", "udp"}
DummyPortmap ==
  /\ spoof = "runs" /\ npc = "lockd"
  /\ \E c \in PmapCalls : promised' = IF Granted(c) THEN promised \cup {c} ELSE promised
  /\ UNCHANGED <<nfsJob, npc, rpc, tcp, netVars, cliVars, spoof, kmounted>>

Client == ParseOptions \/ TearDown \/ RpcSend \/ RpcTimeout \/ RpcReply \/ CallPortmap("nfsport")
          \/ CallPortmap("mntport") \/ PortmapDone \/ CallMount \/ MountDone \/ MountSyscall \/ MountReturns
          \/ Bail \/ BailDone
NfsStep == Client \/ Serve \/ DummyPortmap
NfsFinished == npc \in {"ok", "fail"}

----------------------------------------------------------------------------
(* Properties *)

\* The state of nfsmount; a call over UDP has at most MAX_TRIES tries.
NfsTypeOK ==
  /\ npc \in {"opts", "nfsport", "mntport", "mnt", "socket", "lockd", "result", "bail", "done", "failed", "ok", "fail"}
  /\ rpc.i < MAX_TRIES /\ rpc.phase \in {"none", "send", "wait", "done", "fail"}
  /\ spoof \in {"none", "runs", "gone"} /\ promised \subseteq PmapCalls

\* mount() is never called on a status that is not of this reply, and the file
\* handle it gets came whole from the server, if no reply is long enough for the
\* status and too short for the handle: over UDP no PROG_MISMATCH, after which
\* the good reply is cut; over TCP no reply that comes in pieces.
Intact == IF nfs.tcp THEN nfs.whole ELSE "PROG_MISMATCH" \notin nfs.rejects
NfsHandle == npc \in {"socket", "lockd", "result"} => root # "stale" /\ (Intact => root = "handle")

\* The UMNT call succeeds only for an answer to it: a late second answer to MNT,
\* on the same socket, is not taken for one.
NfsUmountDone == acked => undone

\* A run that fails, at whatever point, leaves no entry for the client on the
\* server, if calls are not lost or rejected: over TCP with a server that is up
\* and replies that come in one piece.  A reply in pieces is an error, and MNT is
\* then not taken back; over UDP a duplicate of MNT that comes after UMNT may
\* always leave an entry.
Reliable == nfs.tcp /\ nfs.whole /\ ~nfs.breaks /\ nfs.rejects = {}
NfsTakenBack == npc = "fail" /\ Reliable => ~rmtab

\* Whatever the way out, the dummy portmapper is gone and its port free.
NfsTornDown == NfsFinished => spoof # "runs"

\* Nothing of a run stays behind: on the server, of an unanswered UMNT, or of the
\* dummy portmapper.
NfsCleanedUp == NfsTakenBack /\ NfsUmountDone /\ NfsTornDown

============================================================================
