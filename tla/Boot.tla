-------------------------------- MODULE Boot --------------------------------
(***************************************************************************)
(* From the headers of the init scripts to the real init: sort-services    *)
(* (tools) writes rc.order when the image is built; init and rc (features/ *)
(* runtime/data) stop and start services by it, runlevel after runlevel;   *)
(* the mount handler asks for runlevel 2 when everything is mounted, and   *)
(* the service runinit of that level for the switch to the real init.      *)
(* A service is its place in boot.svcs.  rc holds the console lock while   *)
(* it runs; the handler takes it to write to /.initrd/telinit.             *)
(***************************************************************************)
EXTENDS Naturals, Sequences, FiniteSets, SequencesExt

VARIABLES
  boot,      \* the scripts' headers and what they do; the file systems of fstab
  bpc,       \* "sort", "order", "init", "rc", or an end: "unsorted", "sysexec"
  sort,      \* levels and types sort-services has still to sort
  kahn,      \* the variables of order_services()
  rc_order,  \* <<level, "S" or "K">> -> its services in order, with tiers
  telinit,   \* the fifo
  rc,        \* the runlevel; 9 before the first
  lines_rc,  \* the lines of rc.order that rc has still to read: <<act, service>>
  locksys,   \* services with a file in /var/lock/subsys
  missing,   \* services whose last start or stop failed, or that the user refused
  user,      \* levels the user has still to write
  mounted,   \* file systems of fstab that are mounted
  mountq,    \* an event waits in the queue "mount"
  handler,   \* where the handler of that queue is
  resumed    \* resume_checked

bootVars == <<boot, bpc, sort, kahn, rc_order, telinit, rc, lines_rc, locksys, missing, user, mounted, mountq, handler, resumed>>
sortVars == <<boot, sort, kahn>>
rcVars == <<rc_order, telinit, rc, lines_rc, locksys, missing>>
devVars == <<user, mounted, mountq, handler, resumed>>

known_levels == 0..6
LevelsAndTypes == [n \in 1..14 |-> <<(n - 1) \div 2, IF n % 2 = 1 THEN "K" ELSE "S">>]
NoKahn == [queue |-> <<>>]
Svc(i) == boot.svcs[i]
Svcs == DOMAIN boot.svcs
Names(i) == {Svc(i).name} \cup Svc(i).provide
Named(n) == {i \in Svcs : Svc(i).name = n}

----------------------------------------------------------------------------
(* sort-services *)

\* parse_service(): a script is stopped where it is not started, and without a
\* list of its own by the lists for its start.
InLevel(i, l, t) == IF t = "S" THEN l \in Svc(i).S_level
                    ELSE l \in Svc(i).K_level \cup (known_levels \ Svc(i).S_level)
Own(k, s) == IF k = <<>> THEN s ELSE k
Require(i, t) == IF t = "S" THEN Svc(i).S_require ELSE Own(Svc(i).K_require, Svc(i).S_require)
Should(i, t) == IF t = "S" THEN Svc(i).S_should ELSE Own(Svc(i).K_should, Svc(i).S_should)
Active(l, t) == SelectSeq([i \in Svcs |-> i], LAMBDA i : InLevel(i, l, t))

\* find_provide(): the first of the level's services with that name, or 0.
find_provide(n, l, t) ==
  LET ps == SelectSeq(Active(l, t), LAMBDA i : n \in Names(i))
  IN IF ps = <<>> THEN 0 ELSE Head(ps)
Found(names, l, t) == SelectSeq([k \in DOMAIN names |-> find_provide(names[k], l, t)], LAMBDA p : p # 0)

\* create_deps(): what is fatal, and the list deps of every service.
Fatal(l, t) ==
  \E i \in ToSet(Active(l, t)) :
    \/ \E j \in ToSet(Active(l, t)) \ {i} : Names(i) \cap Names(j) # {}
    \/ \E k \in DOMAIN Require(i, t) : find_provide(Require(i, t)[k], l, t) \in {0, i}
    \/ \E k \in DOMAIN Should(i, t) : find_provide(Should(i, t)[k], l, t) = i
    \/ t = "S" /\ \E k \in DOMAIN Svc(i).S_before : find_provide(Svc(i).S_before[k], l, t) = i
create_deps(l, t) ==
  LET own(d, i) == [d EXCEPT ![i] = @ \o Found(Require(i, t), l, t) \o Found(Should(i, t), l, t)]
      others(d, i) == FoldLeft(LAMBDA e, j : [e EXCEPT ![j] = Append(@, i)], d,
                               IF t = "S" THEN Found(Svc(i).S_before, l, t) ELSE <<>>)
  IN FoldLeft(LAMBDA d, i : others(own(d, i), i), [i \in Svcs |-> <<>>], Active(l, t))

\* Mutant: services are stopped in the order in which they are started.
EdgeStart(i, dep, t) == <<dep, i>>

\* A dependency starts before what depends on it and stops after it.
Edge(i, dep, t) == IF t = "S" THEN <<dep, i>> ELSE <<i, dep>>

\* order_services(): Kahn's algorithm for one level and type.  A service named
\* twice in deps counts once.
Once(s) == SelectSeq([k \in DOMAIN s |-> IF \E h \in 1 .. k - 1 : s[h] = s[k] THEN 0 ELSE s[k]], LAMBDA x : x # 0)
Edges(l, t) ==
  LET deps == create_deps(l, t)
      active == Active(l, t)
  IN FlattenSeq([k \in DOMAIN active |->
       LET ds == Once(deps[active[k]]) IN [h \in DOMAIN ds |-> Edge(active[k], ds[h], t)]])
OrderBegin ==
  /\ bpc = "sort" /\ sort # <<>>
  /\ LET l == Head(sort)[1]
         t == Head(sort)[2]
         edges == Edges(l, t)
         degree(i) == Cardinality({k \in DOMAIN edges : edges[k][2] = i})
     IN IF Fatal(l, t) THEN bpc' = "unsorted" /\ UNCHANGED kahn
        ELSE /\ kahn' = [queue |-> SelectSeq(Active(l, t), LAMBDA i : degree(i) = 0), order |-> <<>>,
                         in_degree |-> [i \in Svcs |-> degree(i)], tier |-> [i \in Svcs |-> 0], edges |-> edges]
             /\ bpc' = "order"
  /\ UNCHANGED <<boot, sort, rcVars, devVars>>

\* The first of the queue is the next line; a successor with no predecessor left
\* joins the queue, one tier higher at least.
OrderPop ==
  /\ bpc = "order" /\ kahn.queue # <<>>
  /\ LET u == Head(kahn.queue)
         out_u == SelectSeq(kahn.edges, LAMBDA e : e[1] = u)
         vs == [k \in DOMAIN out_u |-> out_u[k][2]]
         up == kahn.tier[u] + 1
         degree(i) == IF i \in ToSet(vs) THEN kahn.in_degree[i] - 1 ELSE kahn.in_degree[i]
     IN kahn' = [kahn EXCEPT
                   !.queue = Tail(@) \o SelectSeq(vs, LAMBDA v : degree(v) = 0),
                   !.order = Append(@, [svc |-> u, tier |-> kahn.tier[u]]),
                   !.in_degree = [i \in Svcs |-> degree(i)],
                   !.tier = [i \in Svcs |-> IF i \in ToSet(vs) /\ @[i] < up THEN up ELSE @[i]]]
  /\ UNCHANGED <<boot, bpc, sort, rcVars, devVars>>

\* Services left over are in a loop.
OrderEnd ==
  /\ bpc = "order" /\ kahn.queue = <<>>
  /\ LET x == Head(sort)
     IN IF Len(kahn.order) < Len(Active(x[1], x[2])) THEN bpc' = "unsorted" /\ UNCHANGED <<sort, rc_order, kahn>>
        ELSE /\ rc_order' = [y \in DOMAIN rc_order \cup {x} |-> IF y = x THEN kahn.order ELSE rc_order[y]]
             /\ sort' = Tail(sort) /\ kahn' = NoKahn
             /\ bpc' = IF Len(sort) = 1 THEN "init" ELSE "sort"
  /\ UNCHANGED <<boot, telinit, rc, lines_rc, locksys, missing, devVars>>

----------------------------------------------------------------------------
(* init and rc *)

BootStart(jobs) ==
  /\ boot \in jobs
  /\ bpc = "sort" /\ sort = LevelsAndTypes /\ kahn = NoKahn /\ rc_order = [x \in {} |-> <<>>]
  /\ telinit = <<>> /\ rc = 9 /\ lines_rc = <<>> /\ locksys = {} /\ missing = {}
  /\ user = boot.user /\ mounted = {} /\ mountq = boot.early /\ handler = "idle"
  /\ resumed = ~boot.resume

Act(l, t) == [n \in DOMAIN rc_order[<<l, t>>] |-> <<t, rc_order[<<l, t>>][n].svc>>]

\* init: runlevel 3 first, then what the fifo says; 9 is the real init.
Enter(l) == rc' = l /\ lines_rc' = Act(l, "K") \o Act(l, "S") /\ bpc' = "rc"
InitRead ==
  /\ bpc = "init"
  /\ IF rc = 9 THEN Enter(3) /\ UNCHANGED telinit
     ELSE /\ telinit # <<>> /\ telinit' = Tail(telinit)
          /\ CASE Head(telinit) = 9 -> bpc' = "sysexec" /\ UNCHANGED <<rc, lines_rc>>
               [] Head(telinit) = rc -> UNCHANGED <<bpc, rc, lines_rc>>
               [] OTHER -> Enter(Head(telinit))
  /\ UNCHANGED <<sortVars, rc_order, locksys, missing, devVars>>

\* What a script does with "start": a daemon leaves its lock file; killall ends
\* the handler, ueventd has been stopped before; runinit tells init to go on.
Alive == Named("uevent") \cap locksys # {}
Start(i) ==
  /\ locksys' = IF Svc(i).daemon THEN locksys \cup {i} ELSE locksys
  /\ handler' = IF Svc(i).name = "killall" THEN "killed" ELSE handler
  /\ telinit' = IF Svc(i).name = "runinit" THEN Append(telinit, 9) ELSE telinit

\* What a script does with "stop": stop_daemon() removes the lock file when the
\* signal was sent, and leaves it when there is no such process.
Stop(i) ==
  \/ i \notin locksys /\ UNCHANGED <<locksys, missing>>
  \/ i \in locksys /\ locksys' = locksys \ {i} /\ missing' = missing \ {i}
  \/ i \in locksys /\ Svc(i).stuck /\ missing' = missing \cup {i} /\ UNCHANGED locksys

\* A line of rc.order: K for what is up, S for what is not.  The result of a
\* script is not looked at, and with stop= the user may refuse a start.
RcLine ==
  /\ bpc = "rc" /\ lines_rc # <<>>
  /\ lines_rc' = Tail(lines_rc)
  /\ LET act == Head(lines_rc)[1]
         i == Head(lines_rc)[2]
     IN IF act = "K"
        THEN Stop(i) /\ UNCHANGED <<handler, telinit>>
        ELSE \/ i \in locksys /\ UNCHANGED <<locksys, missing, handler, telinit>>
             \/ i \notin locksys /\ ~Svc(i).fails /\ Start(i) /\ missing' = missing \ {i}
             \/ /\ i \notin locksys /\ (Svc(i).fails \/ Svc(i).asked)
                /\ missing' = missing \cup {i} /\ UNCHANGED <<locksys, handler, telinit>>
  /\ UNCHANGED <<sortVars, bpc, rc_order, rc, user, mounted, mountq, resumed>>
RcDone ==
  /\ bpc = "rc" /\ lines_rc = <<>>
  /\ bpc' = "init"
  /\ UNCHANGED <<sortVars, rcVars, devVars>>

\* The user's shell.
UserWrites ==
  /\ user # <<>> /\ bpc \in {"init", "rc"} /\ rc # 9
  /\ telinit' = Append(telinit, Head(user)) /\ user' = Tail(user)
  /\ UNCHANGED <<sortVars, bpc, rc_order, rc, lines_rc, locksys, missing, mounted, mountq, handler, resumed>>

----------------------------------------------------------------------------
(* The handler of the queue "mount" *)

\* A line whose directory is not there is passed over; below the root there is
\* none before the root is mounted.  With rootonly the other lines have no events.
IsDir(m) == m = "root" \/ ("root" \in mounted /\ boot.fstab[m])
Wanted == {m \in DOMAIN boot.fstab : IsDir(m) /\ (boot.rootonly => m = "root")}

\* The handler of mountdev events mounts a file system of fstab, once the resume
\* is checked; ueventd-mounts puts an event into the queue "mount".
Mount(m) ==
  /\ bpc \in {"init", "rc"} /\ Alive
  /\ resumed /\ m \in Wanted \ mounted
  /\ mounted' = mounted \cup {m} /\ mountq' = TRUE
  /\ UNCHANGED <<sortVars, bpc, rcVars, user, handler, resumed>>
ResumeChecked ==
  /\ bpc \in {"init", "rc"} /\ Alive /\ ~resumed
  /\ resumed' = TRUE
  /\ UNCHANGED <<sortVars, bpc, rcVars, user, mounted, mountq, handler>>

\* ueventd moves the events away and starts it.
HandlerStart ==
  /\ bpc \in {"init", "rc"} /\ Alive /\ mountq /\ handler \in {"idle", "killed"}
  /\ mountq' = FALSE /\ handler' = "resume"
  /\ UNCHANGED <<sortVars, bpc, rcVars, user, mounted, resumed>>

\* The events stay for another call until the resume is checked.
HandlerResume ==
  /\ bpc \in {"init", "rc"} /\ handler = "resume"
  /\ IF resumed THEN handler' = "mounts" /\ UNCHANGED mountq ELSE handler' = "idle" /\ mountq' = TRUE
  /\ UNCHANGED <<sortVars, bpc, rcVars, user, mounted, resumed>>

all_mounted == Wanted \subseteq mounted
sysinit_found == "root" \in mounted /\ boot.init
HandlerMounts ==
  /\ bpc \in {"init", "rc"} /\ handler = "mounts"
  /\ handler' = IF all_mounted /\ sysinit_found THEN "lock" ELSE "idle"
  /\ UNCHANGED <<sortVars, bpc, rcVars, user, mounted, mountq, resumed>>

\* run_console_locked activate_localdev
Activate ==
  /\ bpc = "init" /\ handler = "lock"
  /\ telinit' = Append(telinit, 2) /\ handler' = "idle"
  /\ UNCHANGED <<sortVars, bpc, rc_order, rc, lines_rc, locksys, missing, user, mounted, mountq, resumed>>

BootStep == OrderBegin \/ OrderPop \/ OrderEnd \/ InitRead \/ RcLine \/ RcDone \/ UserWrites
            \/ (\E m \in DOMAIN boot.fstab : Mount(m)) \/ ResumeChecked \/ HandlerStart \/ HandlerResume \/ HandlerMounts \/ Activate

\* Nothing happens any more: the end, or init and the handler wait.
BootIdle == /\ bpc = "init" /\ rc # 9 /\ telinit = <<>> /\ user = <<>> /\ handler \in {"idle", "killed"}
            /\ Alive => all_mounted /\ resumed /\ ~mountq
BootFinished == bpc \in {"unsorted", "sysexec"} \/ BootIdle

----------------------------------------------------------------------------
(* Properties *)

\* i comes before j, by the headers alone.
Depends(i, j, t) == \/ ToSet(Require(i, t) \o Should(i, t)) \cap Names(j) # {}
                    \/ t = "S" /\ ToSet(Svc(j).S_before) \cap Names(i) # {}
First(i, j, t) == IF t = "S" THEN Depends(j, i, t) ELSE Depends(i, j, t)
Sortable(l, t) ==
  LET s == {i \in Svcs : InLevel(i, l, t)}
  IN /\ \A i, j \in s : i # j => Names(i) \cap Names(j) = {}
     /\ \A i \in s : ToSet(Require(i, t)) \subseteq UNION {Names(j) : j \in s}
     /\ \A c \in (SUBSET s) \ {{}} : \E j \in c : \A i \in c : ~First(i, j, t)

\* sort-services succeeds exactly when in every level, for start and for stop, every
\* name has one provider, what is required is there, and nothing depends on itself;
\* then each service of the level has one line, behind all lines that must precede
\* it, and its tier is the length of the longest chain that leads to it.
SortRight ==
  /\ bpc = "unsorted" => \E x \in ToSet(LevelsAndTypes) : ~Sortable(x[1], x[2])
  /\ bpc = "init" /\ rc = 9 => \A x \in ToSet(LevelsAndTypes) :
       LET ls == rc_order[x]
           before(m) == {n \in DOMAIN ls : First(ls[n].svc, ls[m].svc, x[2])}
       IN /\ Sortable(x[1], x[2])
          /\ Len(ls) = Cardinality({i \in Svcs : InLevel(i, x[1], x[2])})
          /\ {ls[n].svc : n \in DOMAIN ls} = {i \in Svcs : InLevel(i, x[1], x[2])}
          /\ \A m \in DOMAIN ls :
               /\ \A n \in before(m) : n < m /\ ls[n].tier < ls[m].tier
               /\ ls[m].tier > 0 => \E n \in before(m) : ls[n].tier = ls[m].tier - 1

\* A service is up only while those it requires are, at every moment of every
\* change of runlevel, unless one of them failed, was refused, or leaves no lock
\* file; unless its own stop failed, after which rc stops the others all the same;
\* and unless the header has an order of its own for the stop.
Upheld(i) == Svc(i).K_require = <<>> /\ Svc(i).K_level \cap Svc(i).S_level = {}
BootUpheld ==
  \A i \in locksys \ missing : \A n \in ToSet(Svc(i).S_require) : \A j \in Svcs \ missing :
    n \in Names(j) /\ Upheld(i) /\ Upheld(j) /\ Svc(j).daemon => j \in locksys

\* The real init is started when everything is mounted, with the services of the
\* other levels stopped, after killall, and with no handler at work; and if it is
\* there, boot does not end anywhere else.  What the user writes is not judged.
Undisturbed == boot.user = <<>> /\ missing = {}
BootSwitches ==
  Undisturbed =>
    /\ bpc = "sysexec" =>
         /\ boot.init /\ all_mounted /\ resumed
         /\ handler = "killed"
         /\ \A i \in locksys : 2 \in Svc(i).S_level
    /\ BootIdle => ~boot.init

\* Services start and stop in the order of their dependencies, up to the switch.
BootInOrder == SortRight /\ BootUpheld /\ BootSwitches

=============================================================================
