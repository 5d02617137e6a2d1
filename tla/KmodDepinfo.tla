---------------------------- MODULE KmodDepinfo ----------------------------
(***************************************************************************)
(* depinfo (utils/depinfo): prints the modules a name stands for, what     *)
(* they depend on, and the firmware they want.  The mutually recursive     *)
(* functions of the code are a stack of frames: a frame holds the calls    *)
(* its loop has still to make and the value it will return.  What libkmod  *)
(* and the two modinfo files say is part of dep.                           *)
(***************************************************************************)
EXTENDS Naturals, Sequences, FiniteSets, SequencesExt

CONSTANT
  NoName  \* find_kernel_builtin() found nothing

VARIABLES
  dep,        \* options, names to look up, modules, aliases and firmware files
  depStage,   \* where main() is
  kbuiltin,   \* builtin module -> its aliases and firmware
  tracked,    \* tracked_modules, and the builtins with "tracked" set
  calls,      \* the stack, the innermost function last
  show_tree,  \* the depth of the next line
  lines       \* the output

depVars == <<dep, depStage, kbuiltin, tracked, calls, show_tree, lines>>

Shows(o) == o \in dep.opts
MapItems(s, F(_)) == [i \in DOMAIN s |-> F(s[i])]

\* The calls a loop makes.
Name(n, req) == [op |-> "name", arg |-> n, req |-> req]
Mod(n) == [op |-> "module", arg |-> n, req |-> TRUE]
List(s) == [op |-> "list", arg |-> s, req |-> TRUE]
Builtin(n) == [op |-> "builtin", arg |-> n, req |-> TRUE]
Firmware(f) == [op |-> "firmware", arg |-> f, req |-> TRUE]

Frame(work, ofModule) == [work |-> work, ofModule |-> ofModule, ok |-> TRUE]
Top == Last(calls)
Call == Head(Top.work)
\* The stack once the call is made: its result is the caller's business.
Made(ok) == Append(Front(calls), [Top EXCEPT !.work = Tail(@), !.ok = @ /\ ok])

ShowLine(kw, v) == lines' = Append(lines, [kw |-> kw, val |-> v, depth |-> show_tree])

NoBuiltins == [n \in {} |-> <<>>]   \* after free_kernel_builtin()

DepStart(jobs) ==
  /\ dep \in jobs
  /\ depStage = "kernel"
  /\ kbuiltin = NoBuiltins
  /\ tracked = {} /\ calls = <<>> /\ lines = <<>>
  /\ show_tree = IF Shows("tree") THEN 1 ELSE 0

\* append_kernel_builtin(): a module of both files has the entries of both.
Merge(old, new) ==
  [n \in DOMAIN old \cup DOMAIN new |->
     IF n \notin DOMAIN new THEN old[n]
     ELSE IF n \notin DOMAIN old THEN new[n]
     ELSE [aliases |-> old[n].aliases \cup new[n].aliases, firmware |-> old[n].firmware \o new[n].firmware]]

\* read_kernel_builtin() of kernel.builtin.modinfo and modules.builtin.modinfo.
\* An empty file cannot be mapped; a bad entry drops all that is known.
ReadBuiltin ==
  /\ depStage \in {"kernel", "modules"}
  /\ LET f == dep.modinfo[depStage]
         next == IF depStage = "kernel" THEN "modules" ELSE "names"
     IN CASE f.kind = "absent" -> depStage' = next /\ UNCHANGED kbuiltin
          [] f.kind = "empty" -> depStage' = "fail" /\ UNCHANGED kbuiltin
          [] f.kind = "bad" -> depStage' = next /\ kbuiltin' = NoBuiltins
          [] OTHER -> depStage' = next /\ kbuiltin' = Merge(kbuiltin, f.mods)
  /\ UNCHANGED <<dep, tracked, calls, show_tree, lines>>

\* By name first, then by alias.
find_kernel_builtin(n) ==
  IF n \in DOMAIN kbuiltin THEN n
  ELSE IF \E b \in DOMAIN kbuiltin : n \in kbuiltin[b].aliases
       THEN CHOOSE b \in DOMAIN kbuiltin : n \in kbuiltin[b].aliases
       ELSE NoName

\* process_name(): a file is given to libkmod as it is, past the blacklist.
ProcessName(n) == IF n.file THEN Mod(n.name) ELSE Name(n.name, TRUE)

\* read_names() and the arguments: every name, whatever became of the others; a
\* list of names that cannot be opened is an error that stops nothing.
BeginNames ==
  /\ depStage = "names"
  /\ calls' = <<[Frame(MapItems(dep.names, ProcessName), FALSE) EXCEPT !.ok = dep.input]>>
  /\ depStage' = "run"
  /\ UNCHANGED <<dep, kbuiltin, tracked, show_tree, lines>>

----------------------------------------------------------------------------
Calling(op) == depStage = "run" /\ calls # <<>> /\ Top.work # <<>> /\ Call.op = op

\* depinfo_alias(): a name nobody knows is an error if it is required.
DepinfoAlias ==
  /\ Calling("name")
  /\ LET n == Call.arg
         found == IF n \in DOMAIN dep.lookup THEN dep.lookup[n] ELSE <<>>
     IN calls' = IF find_kernel_builtin(n) # NoName THEN Append(Made(TRUE), Frame(<<Builtin(n)>>, FALSE))
                 ELSE IF found = <<>> THEN Made(~Call.req)
                 ELSE Append(Made(TRUE), Frame(<<List(found)>>, FALSE))
  /\ UNCHANGED <<dep, depStage, kbuiltin, tracked, show_tree, lines>>

\* process_module_list(): without the blacklisted, first the modules libkmod
\* calls builtin, then the others; of those, again, the builtin ones by modinfo.
ModuleList ==
  /\ Calling("list")
  /\ LET list == SelectSeq(Call.arg, LAMBDA n : ~(Shows("blacklist") /\ n \in dep.blacklist))
         built == SelectSeq(list, LAMBDA n : n \in dep.builtin)
         filtered == SelectSeq(list, LAMBDA n : n \notin dep.builtin)
     IN calls' = Append(Made(TRUE),
                   Frame(MapItems(built, Builtin)
                         \o MapItems(filtered, LAMBDA n : IF find_kernel_builtin(n) # NoName
                                                          THEN Builtin(n) ELSE Mod(n)), FALSE))
  /\ UNCHANGED <<dep, depStage, kbuiltin, tracked, show_tree, lines>>

\* process_builtin()
ProcessBuiltin ==
  /\ Calling("builtin")
  /\ LET b == find_kernel_builtin(Call.arg)
         n == IF b = NoName THEN Call.arg ELSE b
     IN IF b # NoName /\ <<"builtin", b>> \in tracked
        THEN calls' = Made(TRUE) /\ UNCHANGED <<tracked, show_tree, lines>>
        ELSE /\ tracked' = IF b = NoName THEN tracked ELSE tracked \cup {<<"builtin", b>>}
             /\ IF Shows("builtin") THEN ShowLine("builtin", n) ELSE UNCHANGED lines
             /\ show_tree' = IF Shows("builtin") /\ show_tree > 0 THEN show_tree + 1 ELSE show_tree
             /\ calls' = Append(Made(TRUE),
                  Frame(IF Shows("firmware") /\ b # NoName THEN MapItems(kbuiltin[b].firmware, Firmware)
                        ELSE <<>>, Shows("builtin")))
  /\ UNCHANGED <<dep, depStage, kbuiltin>>

\* What depinfo() does with an entry of the module's information.
Deps == Shows("deps") /\ Shows("modules")
OfEntry(e) ==
  CASE e.key = "depends" /\ Deps -> MapItems(e.val, LAMBDA n : Name(n, TRUE))
    [] e.key \in {"softdep", "weakdep"} /\ Deps -> MapItems(e.val, LAMBDA n : Name(n, FALSE))
    [] e.key = "firmware" /\ Shows("firmware") -> MapItems(e.val, Firmware)
    [] OTHER -> <<>>
Lists(ls) == MapItems(SelectSeq(ls, LAMBDA s : s # <<>>), List)

\* Mutant: only modules without dependencies are remembered.
TrackedLeaf(m) == <<"module", m>> \in tracked /\ dep.mods[m].info = <<>>

tracked_module(m) == <<"module", m>> \in tracked

\* depinfo(): tracked before anything of the module is read, so that a cycle of
\* dependencies ends here.
DepinfoModule ==
  /\ Calling("module")
  /\ LET m == Call.arg
     IN IF m \notin DOMAIN dep.mods THEN calls' = Made(FALSE) /\ UNCHANGED <<tracked, show_tree, lines>>
        ELSE IF tracked_module(m) THEN calls' = Made(TRUE) /\ UNCHANGED <<tracked, show_tree, lines>>
        ELSE /\ tracked' = tracked \cup {<<"module", m>>}
             /\ IF dep.mods[m].unreadable THEN calls' = Made(FALSE) /\ UNCHANGED <<show_tree, lines>>
                ELSE /\ IF Shows("modules") THEN ShowLine("module", m) ELSE UNCHANGED lines
                     /\ show_tree' = IF Shows("modules") /\ show_tree > 0 THEN show_tree + 1 ELSE show_tree
                     /\ calls' = Append(Made(TRUE),
                          Frame(FlattenSeq(MapItems(dep.mods[m].info, OfEntry))
                                \o (IF Deps THEN Lists(dep.mods[m].softdeps \o dep.mods[m].weakdeps) ELSE <<>>),
                                TRUE))
  /\ UNCHANGED <<dep, depStage, kbuiltin>>

\* process_firmware(): the kernel's own path and then the directories; in each,
\* by suffix, the version's subdirectory before the directory itself.
FwSuffixes == <<"", ".zst", ".xz", ".bz2", ".gz">>
Candidates(pattern) ==
  FlattenSeq(MapItems(dep.fwdirs, LAMBDA d :
    FlattenSeq(MapItems(FwSuffixes, LAMBDA s : <<<<d, "kversion", pattern, s>>, <<d, "", pattern, s>>>>))))
\* expand_pattern(): the file itself, or what the pattern matches.
Expand(c) == IF c \in DOMAIN dep.files THEN dep.files[c] ELSE <<>>
ProcessFirmware ==
  /\ Calling("firmware")
  /\ LET cs == Candidates(Call.arg)
         i == SelectInSeq(cs, LAMBDA c : Expand(c) # <<>>)
     IN IF i > 0 THEN lines' = lines \o MapItems(Expand(cs[i]), LAMBDA f :
                                 [kw |-> "firmware", val |-> f, depth |-> show_tree])
        ELSE IF Shows("missing") THEN ShowLine("missing-firmware", Call.arg) ELSE UNCHANGED lines
  /\ calls' = Made(TRUE)
  /\ UNCHANGED <<dep, depStage, kbuiltin, tracked, show_tree>>

\* A function returns: its failure is its caller's.
DepReturn ==
  /\ depStage = "run" /\ Len(calls) > 1 /\ Top.work = <<>>
  /\ LET caller == calls[Len(calls) - 1]
     IN calls' = Append(Front(Front(calls)), [caller EXCEPT !.ok = @ /\ Top.ok])
  /\ show_tree' = IF Top.ofModule /\ show_tree > 1 THEN show_tree - 1 ELSE show_tree
  /\ UNCHANGED <<dep, depStage, kbuiltin, tracked, lines>>

DepExit ==
  /\ depStage = "run" /\ Len(calls) = 1 /\ Top.work = <<>>
  /\ depStage' = IF Top.ok THEN "ok" ELSE "fail"
  /\ UNCHANGED <<dep, kbuiltin, tracked, calls, show_tree, lines>>

DepStep == ReadBuiltin \/ BeginNames \/ DepinfoAlias \/ ModuleList \/ ProcessBuiltin
           \/ DepinfoModule \/ ProcessFirmware \/ DepReturn \/ DepExit
DepFinished == depStage \in {"ok", "fail"}

----------------------------------------------------------------------------
(* What the command line asks for, in terms of names and not of calls.       *)

Entries(m, keys) == UNION {ToSet(e.val) : e \in {x \in ToSet(dep.mods[m].info) : x.key \in keys}}
OfList(ns) == {IF n \in dep.builtin THEN <<"builtin", IF find_kernel_builtin(n) = NoName THEN n ELSE find_kernel_builtin(n)>>
               ELSE IF find_kernel_builtin(n) # NoName THEN <<"builtin", find_kernel_builtin(n)>>
               ELSE <<"module", n>> : n \in {x \in ns : ~(Shows("blacklist") /\ x \in dep.blacklist)}}
OfName(n) == IF find_kernel_builtin(n) # NoName THEN {<<"builtin", find_kernel_builtin(n)>>}
             ELSE IF n \in DOMAIN dep.lookup THEN OfList(ToSet(dep.lookup[n])) ELSE {}
Unknown(n) == find_kernel_builtin(n) = NoName /\ (n \notin DOMAIN dep.lookup \/ dep.lookup[n] = <<>>)

Roots == UNION {IF n.file THEN {<<"module", n.name>>} ELSE OfName(n.name) : n \in ToSet(dep.names)}
Successors(m) ==
  IF ~Deps THEN {}
  ELSE UNION {OfName(n) : n \in Entries(m, {"depends", "softdep", "weakdep"})}
       \cup UNION {OfList(ToSet(s)) : s \in ToSet(dep.mods[m].softdeps \o dep.mods[m].weakdeps)}
CanRead(m) == m \in DOMAIN dep.mods /\ ~dep.mods[m].unreadable
Wants(l) == IF l.kw = "module" THEN Entries(l.val, {"firmware"})
            ELSE IF l.kw = "builtin" /\ l.val \in DOMAIN kbuiltin THEN ToSet(kbuiltin[l.val].firmware) ELSE {}

\* The lines firmware "pattern" has in the output.
FirmwareLines(pattern) ==
  LET hits == SelectSeq(Candidates(pattern), LAMBDA c : Expand(c) # <<>>)
  IN IF hits # <<>> THEN {<<"firmware", f>> : f \in ToSet(Expand(hits[1]))}
     ELSE IF Shows("missing") THEN {<<"missing-firmware", pattern>>} ELSE {}

Shown == {<<lines[i].kw, lines[i].val>> : i \in DOMAIN lines}
ModulesShown == {i \in DOMAIN lines : lines[i].kw = "module"}

\* The output is closed under what depinfo() follows: once the program ends, the
\* modules asked for and what the modules shown depend on are shown, if they can
\* be read, with the firmware of each; a cycle hides nothing.
DepComplete ==
  DepFinished /\ calls # <<>> /\ {"modules", "builtin"} \subseteq dep.opts =>
    \A d \in Roots \cup UNION {Successors(lines[i].val) : i \in ModulesShown} :
      d[1] = "builtin" \/ CanRead(d[2]) =>
        /\ d \in Shown
        /\ Shows("firmware") => \A f \in Wants([kw |-> d[1], val |-> d[2]]) : FirmwareLines(f) \subseteq Shown

\* Nothing else is in the output: a module was asked for, or a module shown before
\* it depends on it; and neither a module nor a known builtin is shown twice, by
\* whatever names and paths of dependencies it was reached.
DepJustified ==
  \A i \in DOMAIN lines :
    LET l == <<lines[i].kw, lines[i].val>>
        before == {j \in ModulesShown : j < i}
    IN l[1] \in {"module", "builtin"} =>
         /\ l \in Roots \/ \E j \in before : l \in Successors(lines[j].val)
         /\ l[1] = "module" \/ l[2] \in DOMAIN kbuiltin =>
              \A j \in 1 .. i - 1 : <<lines[j].kw, lines[j].val>> # l

\* The exit status: success exactly when every name asked for and every name a
\* shown module depends on was known, and every module behind them was read.  A
\* soft or weak dependency may be unknown.
DepStatus ==
  DepFinished /\ calls # <<>> /\ Shows("modules") =>
    LET ms == {lines[i].val : i \in ModulesShown}
        wanted == Roots \cup UNION {Successors(m) : m \in ms}
    IN (depStage = "ok") <=>
         /\ dep.input
         /\ \A n \in ToSet(dep.names) : n.file \/ ~Unknown(n.name)
         /\ \A m \in ms : Deps => \A n \in Entries(m, {"depends"}) : ~Unknown(n)
         /\ \A d \in wanted : d[1] = "module" => CanRead(d[2])

\* The tree is the tree of the dependencies: a line is indented below the last
\* line one level up, and that module depends on it or wants that firmware.
DepTree ==
  {"tree", "modules", "builtin"} \subseteq dep.opts =>
    \A i \in DOMAIN lines :
      LET l == <<lines[i].kw, lines[i].val>>
          up == {j \in 1 .. i - 1 : lines[j].depth = lines[i].depth - 1}
      IN IF lines[i].depth = 1 THEN l \in Roots
         ELSE /\ up # {}
              /\ LET p == lines[CHOOSE j \in up : \A k \in up : k <= j]
                 IN \/ p.kw = "module" /\ l \in Successors(p.val)
                    \/ \E f \in Wants(p) : l \in FirmwareLines(f)

\* The output is the dependency tree of the names, complete, without anything else,
\* and the exit status says whether something of it could not be had.
DepOutput == DepComplete /\ DepJustified /\ DepStatus /\ DepTree

\* The state of depinfo; the depth of the tree is never negative.
DepTypeOK ==
  /\ depStage \in {"kernel", "modules", "names", "run", "ok", "fail"}
  /\ tracked \subseteq {"module", "builtin"} \X (DOMAIN dep.mods \cup DOMAIN kbuiltin)
  /\ \A i \in DOMAIN calls : calls[i].ok \in BOOLEAN
  /\ show_tree \in Nat

============================================================================
