------------------------------ MODULE PutQueue ------------------------------
(***************************************************************************)
(* The first half of initrd-put (utils/initrd-put): the files named on the *)
(* command line and everything they depend on are gathered through a LIFO  *)
(* queue (queue.c) into a tree (tree.c).  A path is the sequence of its    *)
(* components; "", at the end, is a trailing slash.  The host's file       *)
(* system, the dynamic linker and the options are one record, job.         *)
(***************************************************************************)
EXTENDS Naturals, Sequences, FiniteSets, SequencesExt

CONSTANTS
  PutJobs,      \* name -> a command line with the host it runs on
  MAXSYMLINKS,  \* the kernel's limit on links in a walk
  NoPath        \* "no such path": prefix == NULL, a file without interpreter

VARIABLES
  putJob,     \* the name of this run's command line
  stage,      \* where main() is
  argn,       \* arguments already enqueued
  inqueue,    \* the queue, its head first
  left,       \* entries of the queue the inner loop has still to visit
  files,      \* the tree: the paths that were processed
  elf_cache,  \* <<class and machine, soname>> -> path
  walk        \* the loop variables of enqueue_canonicalized_path

queueVars == <<putJob, argn, inqueue, left, files, elf_cache, walk>>

job == PutJobs[putJob]
Host == job.fs
MapSeq(s, F(_)) == [i \in DOMAIN s |-> F(s[i])]

\* The kernel's path lookup.  A link among the parents is followed once, and
\* below the same root: directory links point at directories, and relatively.
Join(base, to) ==
  FoldLeft(LAMBDA p, c : IF c = ".." THEN (IF p = <<>> THEN p ELSE Front(p))
                         ELSE IF c \in {".", ""} THEN p ELSE Append(p, c),
           base, to)
LinkTarget(p, n) == Join(IF n.abs THEN <<>> ELSE Front(p), n.to)
Lookup(fs, p) ==
  LET real[i \in 0..Len(p)] ==
        IF i = 0 THEN <<>>
        ELSE LET q == Append(real[i - 1], p[i])
             IN IF i < Len(p) /\ q \in DOMAIN fs /\ fs[q].type = "lnk"
                THEN LinkTarget(q, fs[q]) ELSE q
  IN real[Len(p)]
Exists(fs, p) == Lookup(fs, p) \in DOMAIN fs
LStat(fs, p) == fs[Lookup(fs, p)]

\* ENOTDIR: something that is no directory where the path goes through.
Enotdir(fs, p) == \E q \in DOMAIN fs : IsStrictPrefix(q, Lookup(fs, p)) /\ fs[q].type \notin {"dir", "lnk"}

----------------------------------------------------------------------------
(* queue.c *)

Queued(q) == {q[i].src : i \in DOMAIN q}

enqueue_item(q, p) ==
  IF p \in job.exclude \cup Queued(q) \cup files THEN q
  ELSE <<[src |-> p, recursive |-> FALSE]>> \o q

EnqueueAll(q, s) == FoldLeft(enqueue_item, q, s)

\* f->recursive = ...: also of an entry that was queued before.
SetRecursive(q, p, r) ==
  MapSeq(q, LAMBDA f : IF f.src = p THEN [f EXCEPT !.recursive = r] ELSE f)

\* "queue" of main()'s inner loop; entries are added in front of it.
CurIndex(q) == Len(q) - left + 1
Cur == inqueue[CurIndex(inqueue)]

\* Mutant: the new pass is counted before the last entry is out.
DequeueLate(q) ==
  /\ inqueue' = RemoveAt(q, CurIndex(q))
  /\ left' = IF left = 1 THEN Len(q) ELSE left - 1

\* dequeue_item() and "queue = next"; a finished pass begins the next one.
Dequeue(q) ==
  /\ inqueue' = RemoveAt(q, CurIndex(q))
  /\ left' = IF left = 1 THEN Len(q) - 1 ELSE left - 1

----------------------------------------------------------------------------
(* main(): the path below the destination directory *)

Dst(p) == IF job.prefix # NoPath /\ IsPrefix(job.prefix, p)
          THEN SubSeq(p, Len(job.prefix) + 1, Len(p)) ELSE p

InDestdir(p) == Exists(job.dest, Dst(p)) /\ LStat(job.dest, Dst(p)).type # "dir"

Parent(p) == IF p = job.prefix \/ Len(p) < 2 THEN <<>> ELSE <<Front(p)>>

\* The orders in which fts may list what is below d: a directory is followed
\* by all that is below it.
Below(d) == {p \in DOMAIN Host : IsStrictPrefix(d, p)}
Preorders(S) ==
  {s \in SetToSeqs(S) :
     \A i \in DOMAIN s :
       LET below == {j \in DOMAIN s : IsPrefix(s[i], s[j])}
       IN below = i .. (i + Cardinality(below) - 1)}

----------------------------------------------------------------------------
(* enqueue-shebang.c, enqueue-library.c and elf_dlopen.c *)

Shebang(text) ==
  IF text.kind = "script" /\ text.interp # NoPath THEN <<text.interp>> ELSE <<>>

Key(elf, soname) == <<elf.machine, soname>>

\* Mutant: a binary with a library path of its own uses the cache as well.
CanUseCacheAny(elf) == ~job.nocache

can_use_cache(elf) == ~elf.rpath /\ ~job.nocache
all_in_cache(elf) ==
  can_use_cache(elf) /\ \A i \in DOMAIN elf.needed : Key(elf, elf.needed[i]) \in DOMAIN elf_cache

\* What ldd prints, through a pipe; a failure of it is fatal.
Ldd(elf) == MapSeq(elf.ldd, LAMBDA l : l.path)

\* ldd is asked unless the cache knows every DT_NEEDED name.
SharedLibraries(elf) ==
  IF all_in_cache(elf)
  THEN MapSeq(elf.needed, LAMBDA n : elf_cache[Key(elf, n)])
       \o (IF elf.interp = NoPath THEN <<>> ELSE <<elf.interp>>)
  ELSE Ldd(elf)

\* What ldd said is remembered, the first answer for a name.
Remembered(elf) ==
  LET pending == {Key(elf, elf.ldd[i].soname) : i \in DOMAIN elf.ldd}
      FirstOf(k) == elf.ldd[SelectInSeq(elf.ldd, LAMBDA l : Key(elf, l.soname) = k)].path
  IN IF all_in_cache(elf) \/ ~can_use_cache(elf) THEN elf_cache
     ELSE [k \in DOMAIN elf_cache \cup pending |->
             IF k \in DOMAIN elf_cache THEN elf_cache[k] ELSE FirstOf(k)]

\* IGNORE_PUT_DLOPEN_FEATURE, IGNORE_PUT_DLOPEN_PRIORITY: entries for all files
\* or for the ones that match the entry's expression.
in_envvar(list, p, word) == \E e \in list : e.word = word /\ p \in e.files

\* The child tries the names of a note in turn and reports the first that loads.
resolve_soname(names) ==
  LET i == SelectInSeq(names, LAMBDA n : n \in DOMAIN job.ld)
  IN IF i = 0 THEN <<>> ELSE <<job.ld[names[i]]>>

visit_userfunc(p, n) ==
  IF in_envvar(job.ignfeature, p, n.feature) \/ in_envvar(job.ignpriority, p, n.priority)
  THEN <<>> ELSE resolve_soname(n.sonames)
DlopenNotes(p, elf) == FlattenSeq(MapSeq(elf.notes, LAMBDA n : visit_userfunc(p, n)))

\* enqueue_libraries(): only a dynamic binary needs any.
Libraries(p, text) ==
  IF text.kind = "elf" /\ text.dynamic THEN SharedLibraries(text) \o DlopenNotes(p, text) ELSE <<>>

\* enqueue_regular_file(): an unreadable file is kept, its needs are unknown.
RegularFile(p, text) == Shebang(text) \o Libraries(p, text)

----------------------------------------------------------------------------
(* The steps of main() up to the complete tree *)

NoWalk == [rname |-> <<>>, rest |-> <<>>, links |-> 0, recursive |-> FALSE]

QueueInit ==
  /\ putJob \in DOMAIN PutJobs
  /\ stage = "args"
  /\ argn = 0 /\ left = 0 /\ inqueue = <<>> /\ files = {}
  /\ elf_cache = [k \in {} |-> NoPath]
  /\ walk = NoWalk

BeginWalk(base, p, r) ==
  /\ walk' = [rname |-> base, rest |-> p, links |-> 0, recursive |-> r]
  /\ stage' = "walk"

\* The arguments are canonicalized in turn; a relative one begins at getcwd().
NextArg ==
  /\ stage = "args" /\ argn < Len(job.args)
  /\ argn' = argn + 1
  /\ LET a == job.args[argn + 1] IN BeginWalk(IF a.abs THEN <<>> ELSE job.cwd, a.path, TRUE)
  /\ UNCHANGED <<putJob, inqueue, left, files, elf_cache>>

ArgsDone ==
  /\ stage = "args" /\ argn = Len(job.args)
  /\ stage' = "queue"
  /\ left' = Len(inqueue)
  /\ UNCHANGED <<putJob, argn, inqueue, files, elf_cache, walk>>

\* err() and errx().
PutExit(code) == stage' = code /\ UNCHANGED queueVars

suffix_requires_dir_check(end) ==
  \E k \in DOMAIN end :
    /\ \A i \in 1..(k - 1) : end[i] = "."
    /\ end[k] \in {"", ".."} \/ (end[k] = "." /\ k = Len(end))

dir_check(p) == p \in DOMAIN Host /\ Host[p].type = "dir"

\* "." and "..", which the walk takes off the name it has built.
WalkDots ==
  /\ stage = "walk" /\ walk.rest # <<>> /\ Head(walk.rest) \in {".", ".."}
  /\ walk' = [walk EXCEPT !.rest = Tail(@), !.rname = Join(@, <<Head(walk.rest)>>)]
  /\ UNCHANGED <<putJob, stage, argn, inqueue, left, files, elf_cache>>

\* Mutant: the counter is one of the component, not of the name.
NumLinksAnew(n) == 1

num_links(n) == n + 1

\* A link is queued itself, and its target takes its place in the walk.
WalkName ==
  /\ stage = "walk" /\ walk.rest # <<>> /\ Head(walk.rest) \notin {".", "..", ""}
  /\ LET rname == Append(walk.rname, Head(walk.rest))
         end == Tail(walk.rest)
         isLink == rname \in DOMAIN Host /\ Host[rname].type = "lnk"
     IN IF isLink
        THEN IF num_links(walk.links) > MAXSYMLINKS THEN PutExit("fail")
             ELSE /\ inqueue' = enqueue_item(inqueue, rname)
                  /\ walk' = [walk EXCEPT !.links = num_links(@), !.rest = Host[rname].to \o end,
                                          !.rname = IF Host[rname].abs THEN <<>> ELSE @]
                  /\ UNCHANGED <<putJob, stage, argn, left, files, elf_cache>>
        ELSE IF (IF suffix_requires_dir_check(end) THEN dir_check(rname)
                                                   ELSE rname \in DOMAIN Host)
             THEN /\ walk' = [walk EXCEPT !.rest = end, !.rname = rname]
                  /\ UNCHANGED <<putJob, stage, argn, inqueue, left, files, elf_cache>>
             ELSE PutExit("fail")

\* The last component was read: the real name is queued.  The walk was called
\* for an argument, or by enqueue_path() for the queue's current entry.
WalkDone ==
  /\ stage = "walk" /\ walk.rest \in {<<>>, <<"">>}
  /\ LET q == SetRecursive(enqueue_item(inqueue, walk.rname), walk.rname, walk.recursive)
     IN IF left = 0 THEN inqueue' = q /\ left' = 0 /\ stage' = "args"
                    ELSE Dequeue(q) /\ stage' = "queue"
  /\ walk' = NoWalk
  /\ UNCHANGED <<putJob, argn, files, elf_cache>>

\* Without --force a file the destination has is not looked at any further.
DropItem ==
  /\ stage = "queue" /\ left > 0
  /\ ~job.force /\ InDestdir(Cur.src)
  /\ Dequeue(inqueue)
  /\ UNCHANGED <<putJob, stage, argn, files, elf_cache, walk>>

\* lstat() fails, and not because nothing is there.
LostItem ==
  /\ stage = "queue" /\ left > 0
  /\ ~job.force /\ Enotdir(job.dest, Dst(Cur.src))
  /\ PutExit("fail")

tree_add_file(p) == files' = files \cup {p}

\* tree_add_file() and enqueue_path() by the type of the file.
AddItem ==
  /\ stage = "queue" /\ left > 0
  /\ job.force \/ ~(InDestdir(Cur.src) \/ Enotdir(job.dest, Dst(Cur.src)))
  /\ LET p == Cur.src
         q == EnqueueAll(inqueue, Parent(p))
     IN IF ~Exists(Host, p) THEN PutExit("fail")
        ELSE LET node == LStat(Host, p)
             IN /\ tree_add_file(p)
                /\ CASE node.type = "lnk" -> /\ BeginWalk(<<>>, p, FALSE)
                                             /\ inqueue' = q
                                             /\ UNCHANGED <<left, elf_cache>>
                     [] node.type = "dir" -> /\ IF Cur.recursive
                                                THEN \E s \in Preorders(Below(p)) :
                                                       Dequeue(EnqueueAll(q, s))
                                                ELSE Dequeue(q)
                                             /\ UNCHANGED <<stage, elf_cache, walk>>
                     [] node.type = "reg" -> /\ Dequeue(EnqueueAll(q, RegularFile(p, node.text)))
                                             /\ elf_cache' = IF node.text.kind = "elf" /\ node.text.dynamic
                                                             THEN Remembered(node.text) ELSE elf_cache
                                             /\ UNCHANGED <<stage, walk>>
                     [] OTHER -> Dequeue(q) /\ UNCHANGED <<stage, elf_cache, walk>>
                /\ UNCHANGED <<putJob, argn>>

QueueDone ==
  /\ stage = "queue" /\ left = 0
  /\ stage' = IF job.dry THEN "log" ELSE "classify"
  /\ UNCHANGED queueVars

QueueNext == NextArg \/ ArgsDone \/ WalkDots \/ WalkName \/ WalkDone
             \/ DropItem \/ LostItem \/ AddItem \/ QueueDone

============================================================================
