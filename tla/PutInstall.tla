----------------------------- MODULE PutInstall -----------------------------
(***************************************************************************)
(* The second half of initrd-put: the tree PutQueue gathered is installed  *)
(* below the destination directory, in rounds of directories, of the other *)
(* files by worker threads, and of hard links, until a round installs      *)
(* nothing; then the permissions are applied.  Each system call of a       *)
(* worker is a step.  Where the code goes through a sorted array, the      *)
(* model takes the elements in any order that respects what the properties *)
(* tell apart: parents before children, and each element once a round.     *)
(***************************************************************************)
EXTENDS PutQueue

CONSTANTS
  Chunks,   \* a regular file is copied in this many pieces
  Hole      \* a piece of a destination file nobody has written

VARIABLES
  dest,       \* below destdir: path -> what is there
  data,       \* file of the destination -> its pieces
  target,     \* collector.hardlinks: path -> hardlink_target
  todo,       \* elements the current loop of the round has still to visit
  installed,  \* the files whose "installed" is set
  count,      \* the atomic counter "installed"
  prev,       \* prev_installed
  worker,     \* thread -> its place in install_file()
  fast,       \* use_copy_file_range, use_sendfile
  applied,    \* the files apply_permissions() is through with
  logged      \* the files print_file() wrote

installVars == <<dest, data, target, todo, installed, count, prev, worker, fast, applied, logged>>
putVars == <<stage, queueVars, installVars>>

ASSUME ChunksAssumption == Chunks \in Nat \ {0}

NWorkers == 1..job.jobs
Free == [step |-> "idle", file |-> NoPath, ino |-> NoPath, at |-> 0, how |-> "range"]
Quit == [Free EXCEPT !.step = "quit"]

Type(p) == LStat(Host, p).type
Dirs == {p \in files : Type(p) = "dir"}
Hardlinks == DOMAIN target
NonDirs == files \ (Dirs \cup Hardlinks)

Place(p) == Lookup(dest, Dst(p))
InPlace(p) == Place(p) \in DOMAIN dest
Barred(p) == Enotdir(dest, Dst(p))
HasParent(p) ==
  Len(Place(p)) > 1 => Front(Place(p)) \in DOMAIN dest /\ dest[Front(Place(p))].type = "dir"

\* The last component followed too, as access() and creat() do.
Spot(p) == IF InPlace(p) /\ dest[Place(p)].type = "lnk"
           THEN LinkTarget(Place(p), dest[Place(p)]) ELSE Place(p)

Put(q, node) == dest' = [r \in DOMAIN dest \cup {q} |-> IF r = q THEN node ELSE dest[r]]
Blocked(p) == InPlace(p) /\ \E q \in DOMAIN dest : IsStrictPrefix(Place(p), q)
Without(q) == [r \in DOMAIN dest \ {q} |-> dest[r]]

PutInit ==
  /\ QueueInit
  /\ dest = job.dest
  /\ data = [i \in {} |-> <<>>]
  /\ target = [p \in {} |-> NoPath]
  /\ todo = {} /\ installed = {} /\ applied = {} /\ logged = {}
  /\ count = 0 /\ prev = 0
  /\ worker = [w \in NWorkers |-> Quit]
  /\ fast = {"range", "send"}

----------------------------------------------------------------------------
(* The order of a round *)

\* classify_file(): of the names of one inode the tree's first is copied, the
\* others become links to it.
Classify ==
  /\ stage = "classify"
  /\ LET linked == {p \in files : Type(p) = "reg" /\ LStat(Host, p).nlink > 1}
         ino(p) == LStat(Host, p).ino
         originals == {o \in [{ino(p) : p \in linked} -> linked] : \A i \in DOMAIN o : ino(o[i]) = i}
     IN \E o \in originals :
          target' = [p \in {p \in linked : o[ino(p)] # p} |-> o[ino(p)]]
  /\ stage' = "dirs" /\ todo' = Dirs
  /\ UNCHANGED <<queueVars, dest, data, installed, count, prev, worker, fast, applied, logged>>

\* The "end:" of install_file(): the flag and the counter.
Installed(p) == installed' = installed \cup {p} /\ count' = count + 1
NotInstalled == UNCHANGED <<installed, count>>

\* compare_dir_order()
ParentsFirst(p) == \A q \in todo : ~IsStrictPrefix(Dst(q), Dst(p))

\* Step 1: mkdir() of the directories, parents first.  EEXIST is as good as done,
\* whatever is there; ENOENT leaves the directory to a later round.
MakeDir ==
  /\ stage = "dirs"
  /\ \E p \in todo :
       /\ ParentsFirst(p)
       /\ todo' = todo \ {p}
       /\ stage' = (IF p \notin installed /\ Barred(p) THEN "fail" ELSE stage)
       /\ IF p \in installed THEN NotInstalled /\ UNCHANGED dest
          ELSE IF Dst(p) = <<>> \/ InPlace(p) THEN Installed(p) /\ UNCHANGED dest
          ELSE IF HasParent(p) THEN Installed(p) /\ Put(Place(p), [type |-> "dir"])
          ELSE NotInstalled /\ UNCHANGED dest
  /\ UNCHANGED <<queueVars, data, target, prev, worker, fast, applied, logged>>

\* Step 2: the pool.  A thread that cannot be created ends the creation; main()
\* itself is always one of the workers.
StartPool ==
  /\ stage = "dirs" /\ todo = {}
  /\ \E n \in NWorkers : worker' = [w \in NWorkers |-> IF w <= n THEN Free ELSE Quit]
  /\ stage' = "pool" /\ todo' = NonDirs
  /\ UNCHANGED <<queueVars, dest, data, target, installed, count, prev, fast, applied, logged>>

JoinPool ==
  /\ stage = "pool" /\ \A w \in NWorkers : worker[w].step = "quit"
  /\ stage' = "links" /\ todo' = Hardlinks
  /\ worker' = [worker EXCEPT ![1] = Free]
  /\ UNCHANGED <<queueVars, dest, data, target, installed, count, prev, fast, applied, logged>>

\* Mutant: a single round.
EndRoundOnce ==
  /\ stage = "links" /\ todo = {} /\ worker[1].step = "idle"
  /\ stage' = (IF Cardinality(files) > count THEN "fail" ELSE "perms") /\ UNCHANGED <<todo, prev, logged>>
  /\ UNCHANGED <<queueVars, dest, data, target, installed, count, worker, fast, applied>>

\* The round is over: another one, or the verdict.
EndRound ==
  /\ stage = "links" /\ todo = {} /\ worker[1].step = "idle"
  /\ IF prev # count THEN stage' = "dirs" /\ todo' = Dirs /\ prev' = count /\ UNCHANGED logged
     ELSE IF Cardinality(files) > count
          THEN stage' = "fail" /\ logged' = files \ installed /\ UNCHANGED <<todo, prev>>
          ELSE stage' = "perms" /\ UNCHANGED <<todo, prev, logged>>
  /\ UNCHANGED <<queueVars, dest, data, target, installed, count, worker, fast, applied>>

----------------------------------------------------------------------------
(* install_file() for what is not a directory *)

AfterRemove(p) == IF Type(p) = "reg" THEN "check" ELSE "make"
Begin(p) == [Free EXCEPT !.step = IF job.force THEN "remove" ELSE AfterRemove(p), !.file = p]

\* install_worker() under the pool's mutex: the next file not yet installed.
TakeFile(w) ==
  /\ stage = "pool" /\ worker[w].step = "idle"
  /\ IF todo \subseteq installed
     THEN worker' = [worker EXCEPT ![w] = Quit] /\ UNCHANGED todo
     ELSE \E p \in todo \ installed :
            todo' = todo \ {p} /\ worker' = [worker EXCEPT ![w] = Begin(p)]
  /\ UNCHANGED <<queueVars, stage, dest, data, target, installed, count, prev, fast, applied, logged>>

\* A return of install_file(), with the file installed or not.
Return(w, p, done) ==
  /\ worker' = [worker EXCEPT ![w] = Free]
  /\ IF done THEN Installed(p) ELSE NotInstalled

\* --force: what is in the way is removed; a directory that is not empty cannot be.
RemoveOld(w) ==
  LET p == worker[w].file
  IN /\ worker[w].step = "remove"
     /\ IF Blocked(p) \/ Barred(p)
        THEN stage' = "fail" /\ UNCHANGED <<worker, dest>>
        ELSE /\ dest' = Without(Place(p))
             /\ worker' = [worker EXCEPT ![w].step = AfterRemove(p)]
             /\ UNCHANGED stage
     /\ UNCHANGED <<queueVars, data, target, todo, installed, count, prev, fast, applied, logged>>

\* symlink(), mknod(), mkfifo() and mksock(): EEXIST is as good as done, ENOENT
\* leaves the file to a later round.  A link into the prefix loses the prefix; a
\* device gets the number of the device the source lies on (st_dev).
Copied(p) ==
  LET n == LStat(Host, p)
  IN CASE n.type = "lnk" /\ n.abs -> [n EXCEPT !.to = Dst(@)]
       [] n.type = "device" -> [n EXCEPT !.rdev = n.dev]
       [] OTHER -> n
MakeNode(w) ==
  LET p == worker[w].file
  IN /\ worker[w].step = "make"
     /\ IF ~InPlace(p) /\ HasParent(p) THEN Put(Place(p), Copied(p)) ELSE UNCHANGED dest
     /\ Return(w, p, InPlace(p) \/ HasParent(p))
     /\ stage' = IF Barred(p) THEN "fail" ELSE stage
     /\ UNCHANGED <<queueVars, data, target, todo, prev, fast, applied, logged>>

\* access(): a regular file that is there is left as it is.
CheckAccess(w) ==
  LET p == worker[w].file
  IN /\ worker[w].step = "check"
     /\ IF Spot(p) \in DOMAIN dest THEN Return(w, p, TRUE)
        ELSE worker' = [worker EXCEPT ![w].step = "create"] /\ NotInstalled
     /\ UNCHANGED <<queueVars, stage, dest, data, target, todo, prev, fast, applied, logged>>

Method == IF "range" \in fast THEN "range" ELSE IF "send" \in fast THEN "send" ELSE "rw"

\* creat() empties a file that came into being since access().
Create(w) ==
  LET p == worker[w].file
      ino == IF Spot(p) \in DOMAIN dest THEN dest[Spot(p)].ino ELSE p
  IN /\ worker[w].step = "create"
     /\ IF HasParent(p)
        THEN /\ Put(Spot(p), [type |-> "reg", ino |-> ino])
             /\ data' = [i \in DOMAIN data \cup {ino} |->
                          IF i = ino THEN [c \in 1..Chunks |-> Hole] ELSE data[i]]
             /\ worker' = [worker EXCEPT ![w] = [Free EXCEPT !.step = "copy", !.file = p, !.ino = ino,
                                                            !.at = 1, !.how = Method]]
        ELSE worker' = [worker EXCEPT ![w] = Free] /\ UNCHANGED <<dest, data>>
     /\ stage' = IF Barred(p) THEN "fail" ELSE stage
     /\ UNCHANGED <<queueVars, target, todo, installed, count, prev, fast, applied, logged>>

\* The pieces the source still has: it may have become shorter than st_size.
Pieces(p) == IF LStat(Host, p).ino \in job.shrunk THEN Chunks - 1 ELSE Chunks

\* One piece, through the descriptor creat() returned.  A source that ends before
\* st_size (ret == 0) ends the copy, and the file counts as installed.
Copy(w) ==
  LET p == worker[w].file
  IN /\ worker[w].step = "copy"
     /\ IF worker[w].at > Pieces(p) THEN Return(w, p, TRUE) /\ UNCHANGED data
        ELSE /\ data' = [data EXCEPT ![worker[w].ino][worker[w].at] = LStat(Host, p).ino]
             /\ IF worker[w].at = Chunks THEN Return(w, p, TRUE)
                ELSE worker' = [worker EXCEPT ![w].at = @ + 1] /\ NotInstalled
     /\ UNCHANGED <<queueVars, stage, dest, target, todo, prev, fast, applied, logged>>

\* Any other error of a read or of a write.
CopyFails(w) ==
  /\ worker[w].step = "copy" /\ LStat(Host, worker[w].file).ino \in job.broken
  /\ stage' = "fail"
  /\ UNCHANGED <<queueVars, installVars>>

\* Mutant: the method that does not work ends the copy.
FallBackEnds(w) ==
  /\ worker[w].step = "copy" /\ worker[w].how \in job.unsupported
  /\ fast' = fast \ {worker[w].how}
  /\ Return(w, worker[w].file, TRUE)
  /\ UNCHANGED <<queueVars, stage, dest, data, target, todo, prev, applied, logged>>

\* copy_file_range() or sendfile() turns out not to work here: no thread tries
\* it again, and this one begins the file anew with the next method.
FallBack(w) ==
  /\ worker[w].step = "copy" /\ worker[w].how \in job.unsupported
  /\ fast' = fast \ {worker[w].how}
  /\ worker' = [worker EXCEPT ![w].at = 1,
                   ![w].how = IF worker[w].how = "range" /\ "send" \in fast THEN "send" ELSE "rw"]
  /\ UNCHANGED <<queueVars, stage, dest, data, target, todo, installed, count, prev, applied, logged>>

\* Step 3, install_hardlink(): without its target, or where links cannot be
\* made, the file is copied.  link() has no retry for a missing directory.
LinkFile ==
  /\ stage = "links" /\ worker[1].step = "idle"
  /\ \E p \in todo :
       LET t == target[p]
           ToCopy == worker' = [worker EXCEPT ![1] = Begin(p)] /\ NotInstalled /\ UNCHANGED stage
           Done == Installed(p) /\ UNCHANGED <<worker, stage>>
       IN /\ todo' = todo \ {p}
          /\ IF p \in installed THEN NotInstalled /\ UNCHANGED <<dest, worker, stage>>
             ELSE IF t \notin installed THEN ToCopy /\ UNCHANGED dest
             ELSE IF Dst(p) = Dst(t) \/ (InPlace(p) /\ ~job.force) THEN Done /\ UNCHANGED dest
             ELSE IF ~HasParent(p) \/ Blocked(p)
                  THEN stage' = "fail" /\ NotInstalled /\ UNCHANGED <<dest, worker>>
             ELSE IF job.nolink THEN ToCopy /\ dest' = Without(Place(p))
             ELSE Done /\ Put(Place(p), dest[Place(t)])
  /\ UNCHANGED <<queueVars, data, target, prev, fast, applied, logged>>

----------------------------------------------------------------------------
(* Step 4, apply_permissions(), and the log *)

\* lchown() and chmod() walk the path: for a user who is not root a directory
\* that got its final mode may already be closed.
Searchable(p) ==
  job.root \/ ~\E d \in applied \cap Dirs :
                 LStat(Host, d).closed /\ IsStrictPrefix(Place(d), Place(p))

Apply(S, then) ==
  /\ IF \A p \in S : Searchable(p) THEN applied' = applied \cup S /\ stage' = then
     ELSE stage' = "fail" /\ UNCHANGED applied
  /\ UNCHANGED <<queueVars, dest, data, target, installed, count, prev, worker, fast, logged>>

\* Of no directory yet, so no path is closed.
ApplyFiles == stage = "perms" /\ Apply(NonDirs \cup Hardlinks, "dirperms") /\ todo' = Dirs

\* Directories after what is below them.
ApplyDir ==
  /\ stage = "dirperms"
  /\ \E p \in todo :
       /\ \A q \in todo : ~IsStrictPrefix(Dst(p), Dst(q))
       /\ Apply({p}, stage) /\ todo' = todo \ {p}

WriteLog ==
  /\ stage = "log" \/ (stage = "dirperms" /\ todo = {})
  /\ logged' = IF job.dry \/ job.log THEN files ELSE {}
  /\ stage' = "ok"
  /\ UNCHANGED <<queueVars, dest, data, target, todo, installed, count, prev, worker, fast, applied>>

----------------------------------------------------------------------------
PutStep == \/ QueueNext /\ UNCHANGED installVars
           \/ Classify \/ MakeDir \/ StartPool \/ JoinPool \/ EndRound \/ LinkFile
           \/ /\ stage \in {"pool", "links"}   \* exit() ends the threads
              /\ \E w \in NWorkers : \/ TakeFile(w) \/ RemoveOld(w) \/ MakeNode(w) \/ CheckAccess(w)
                                    \/ Create(w) \/ Copy(w) \/ CopyFails(w) \/ FallBack(w)
           \/ ApplyFiles \/ ApplyDir \/ WriteLog

PutFinished == stage \in {"ok", "fail"}

----------------------------------------------------------------------------
(* Properties *)

\* The state of initrd-put; the queue is consumed from its head to its end.
PutTypeOK ==
  /\ stage \in {"args", "walk", "queue", "classify", "dirs", "pool", "links",
                "perms", "dirperms", "log", "ok", "fail"}
  /\ left \in 0..Len(inqueue)
  /\ installed \cup todo \cup applied \cup logged \subseteq files
  /\ count \in Nat /\ prev \in 0..count
  /\ \A i \in DOMAIN data :
       data[i] \in [1..Chunks -> {Hole} \cup {LStat(Host, p).ino : p \in {q \in files : Type(q) = "reg"}}]
  /\ \A w \in NWorkers : worker[w].at \in 0..Chunks

\* What a file of the tree needs beside it, by a definition that knows no queue
\* and no cache: its directory, the target of a link, the interpreter of a
\* script, what ldd says of a binary and what its dlopen notes name.
Needs(p) ==
  LET n == LStat(Host, p)
  IN ToSet(Parent(p)) \cup
     CASE n.type = "lnk" -> {Lookup(Host, LinkTarget(Lookup(Host, p), n))}
       [] n.type = "reg" ->
            ToSet(Shebang(n.text)) \cup
            (IF n.text.kind = "elf" /\ n.text.dynamic
             THEN {n.text.ldd[i].path : i \in DOMAIN n.text.ldd} \cup ToSet(DlopenNotes(p, n.text))
             ELSE {})
       [] OTHER -> {}

Provided(p) == p \in files \cup job.exclude \/ (~job.force /\ InDestdir(p))

\* Two binaries whose libraries elf_cache may hold get the same answer for a name.
\* A library that ldd found through the RUNPATH of another library breaks this.
OneAnswer ==
  LET cached == {n \in {LStat(Host, p) : p \in files} :
                   n.type = "reg" /\ n.text.kind = "elf" /\ n.text.dynamic /\ ~n.text.rpath}
      answers == UNION {{<<Key(n.text, l.soname), l.path>> : l \in ToSet(n.text.ldd)} : n \in cached}
  IN \A a, b \in answers : a[1] = b[1] => a = b

\* When the copying begins the tree is closed under dependencies and holds all
\* that is below a directory named on the command line, in whatever order the
\* LIFO queue met them, however fts listed the directories, and although most
\* binaries are looked up in elf_cache instead of being given to ldd: also where
\* another library of the same name lies on the RPATH of another binary.  The cache
\* knows one file for a name; where ldd gives two to binaries without a path of
\* their own, only IGNORE_PUT_ELF_CACHE makes the tree complete.
PutClosure ==
  stage \notin {"args", "walk", "queue", "fail"} /\ (job.nocache \/ OneAnswer) =>
    /\ \A p \in files : \A q \in Needs(p) : Provided(q)
    /\ \A i \in DOMAIN job.args :
         LET d == Join(<<>>, job.args[i].path)
         IN job.args[i].abs /\ dir_check(d) =>
              Provided(d) /\ (d \in files => \A p \in Below(d) : Provided(p))

\* What the destination had may stay: without --force all of it, with it what is
\* in the place of a directory (mkdir() found it there).
Kept(p) == Place(p) \in DOMAIN job.dest /\ (~job.force \/ Type(p) = "dir")

\* No other file of the tree goes to p's place.
Alone(p) ==
  \A q \in files : Place(q) = Place(p) =>
     Type(q) = Type(p) /\ (Type(p) = "reg" => LStat(Host, q).ino = LStat(Host, p).ino)

\* Where p belongs the destination has what it had before, or a file of p's type;
\* and if a thread wrote to it (also to a file of before, when the link that leads
\* there came into being between access() and creat()), every piece of p's content
\* that could be read.
Whole(p) ==
  Dst(p) # <<>> =>
    /\ InPlace(p)
    /\ Alone(p) =>
         /\ IF Kept(p) THEN dest[Place(p)] = job.dest[Place(p)] ELSE dest[Place(p)].type = Type(p)
         /\ Type(p) = "reg" /\ (Kept(p) => dest[Place(p)].ino \in DOMAIN data) =>
              data[dest[Place(p)].ino] =
                [c \in 1..Chunks |-> IF c <= Pieces(p) THEN LStat(Host, p).ino ELSE Hole]

\* Exit status 0 means that every file of the tree is in the destination, whole
\* and with its permissions, whatever the threads' schedule was and wherever a
\* thread fell back from copy_file_range() or sendfile() in the middle of a file;
\* and that what the destination had was left alone or replaced, never mixed.
PutComplete == stage = "ok" /\ ~job.dry => \A p \in files : Whole(p) /\ p \in applied

\* No two threads work on one file, and the counter main() compares with the size
\* of the tree counts the files whose flag is set, each once.
PutCounted ==
  /\ count = Cardinality(installed)
  /\ \A v, w \in NWorkers : v # w /\ worker[v].file = worker[w].file => worker[v].file = NoPath
  /\ \A w \in NWorkers : worker[w].file \notin installed \cup todo

\* Both: what is counted as installed is installed, once and whole.
PutInstalled == PutComplete /\ PutCounted

\* A hard link in a directory that a round's first step can only make once a link
\* above it is there: link() fails with ENOENT in the first round, and that is fatal.
LateLink(p) ==
  \E l, d \in files : /\ Type(l) = "lnk" /\ IsStrictPrefix(Dst(l), Dst(d))
                      /\ Type(d) = "dir" /\ IsStrictPrefix(Dst(d), Dst(p))

\* On a sound host (job.sound: every name resolves and can be read, nothing is
\* excluded, nothing the destination had is in the way) the program does not fail:
\* the rounds get every file installed, also the ones whose directory is reached
\* through a link of a later step, hard links there excepted, and no directory is
\* closed before the permissions below it are applied.
PutNoFalseFailure == job.sound /\ (\A p \in Hardlinks : ~LateLink(p)) => stage # "fail"

============================================================================
