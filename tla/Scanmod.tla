------------------------------ MODULE Scanmod ------------------------------
(***************************************************************************)
(* initrd-scanmod (utils/initrd-scanmod): the rules files are parsed, the  *)
(* kernel's directory is walked, and worker threads match every module     *)
(* against the rulesets in turn and print the ones that match.  A pattern  *)
(* is the set of the strings it matches; a module is what libkmod says of  *)
(* it.                                                                     *)
(***************************************************************************)
EXTENDS Naturals, Sequences, FiniteSets, Functions

CONSTANTS
  ScanJobs,  \* name -> rules files, command line and the kernel's directory
  Threads    \* worker threads

VARIABLES
  scanJob,       \* the name of this run's command line
  scanStage,     \* where main() is
  filter_rules,  \* the parsed rulesets
  nfile,         \* rules files already looked at
  paths,         \* module_queue.paths
  current,       \* module_queue.current
  thread,        \* thread -> its place in worker_func()
  printed        \* index of a path -> times it was printed

scanVars == <<scanJob, scanStage, filter_rules, nfile, paths, current, thread, printed>>

scan == ScanJobs[scanJob]
InfoKeywords == {"alias", "author", "depends", "description", "firmware", "license", "name"}
Keywords == InfoKeywords \cup {"filename", "symbol"}

\* A thread: the index of its path, the ruleset it is at and the states of its
\* struct module_data (0 not read, 1 read, 2 could not be read).
Asleep == [pc |-> "none", at |-> 0, set |-> 0, info |-> 0, symbols |-> 0]

ScanInit ==
  /\ scanJob \in DOMAIN ScanJobs
  /\ scanStage = "rules"
  /\ filter_rules = <<>> /\ nfile = 0
  /\ paths = <<>> /\ current = 0
  /\ thread = [t \in Threads |-> Asleep]
  /\ printed = <<>>

ScanExit(code) == scanStage' = code /\ UNCHANGED <<filter_rules, nfile, paths, current, thread, printed>>

----------------------------------------------------------------------------
(* initrd-scanmod-rules.c: a line is a rule, "not-" inverts it *)

Of(rules, kws) == SelectSeq(rules, LAMBDA r : r.keyword \in kws)
parse_ruleset(f) ==
  LET rules == SelectSeq(f.lines, LAMBDA l : l.kind # "comment")
  IN [filename |-> f.name, info |-> Of(rules, InfoKeywords),
      symbols |-> Of(rules, {"symbol"}), paths |-> Of(rules, {"filename"})]
BadLine(l) == l.kind = "bad" \/ (l.kind = "rule" /\ l.keyword \notin Keywords)
open_map(f) == f.readable
filename_in_ruleset(name) == \E i \in DOMAIN filter_rules : filter_rules[i].filename = name

\* parse_rules(): a file named twice is read once; an unreadable one ends the
\* program, and so does a line that is not a rule.
ParseFile ==
  /\ scanStage = "rules" /\ nfile < Len(scan.files)
  /\ LET f == scan.files[nfile + 1]
     IN IF filename_in_ruleset(f.name) THEN UNCHANGED <<filter_rules, scanStage>>
        ELSE IF ~open_map(f) \/ \E i \in DOMAIN f.lines : BadLine(f.lines[i])
             THEN scanStage' = "fail" /\ UNCHANGED filter_rules
             ELSE filter_rules' = Append(filter_rules, parse_ruleset(f)) /\ UNCHANGED scanStage
  /\ nfile' = nfile + 1
  /\ UNCHANGED <<scanJob, paths, current, thread, printed>>

----------------------------------------------------------------------------
(* find_modules() *)

is_kernel_modname(e) == e.ext \in {"ko", "ko.zst", "ko.xz", "ko.gz", "ko.bz2"}
Listed(e) == e.fts \in {"F", "SL"} /\ is_kernel_modname(e)

\* fts lists in any order; what it cannot read ends the program, directories and
\* dangling links are passed over.
WalkKernelDir ==
  /\ scanStage = "rules" /\ nfile = Len(scan.files)
  /\ IF \E m \in DOMAIN scan.dir : scan.dir[m].fts \in {"DNR", "ERR", "NS"}
     THEN scanStage' = "fail" /\ UNCHANGED <<paths, printed>>
     ELSE LET modules == {m \in DOMAIN scan.dir : Listed(scan.dir[m])}
          IN \E s \in Bijection(1 .. Cardinality(modules), modules) :
               /\ paths' = s
               /\ printed' = [i \in DOMAIN s |-> 0]
               /\ scanStage' = IF s = <<>> THEN "ok" ELSE "spawn"
  /\ UNCHANGED <<scanJob, filter_rules, nfile, current, thread>>

n_workers == IF Cardinality(Threads) > Len(paths) THEN Len(paths) ELSE Cardinality(Threads)

\* Threads are created until one cannot be; a single worker is main() itself,
\* which needs no creation.
SpawnThreads ==
  /\ scanStage = "spawn"
  /\ \E S \in SUBSET Threads :
       /\ IF n_workers = 1 THEN Cardinality(S) = 1 ELSE Cardinality(S) <= n_workers
       /\ thread' = [t \in Threads |-> IF t \in S THEN [Asleep EXCEPT !.pc = "start"] ELSE Asleep]
  /\ scanStage' = "join"
  /\ UNCHANGED <<scanJob, filter_rules, nfile, paths, current, printed>>

JoinThreads ==
  /\ scanStage = "join" /\ \A t \in Threads : thread[t].pc = "none"
  /\ ScanExit("ok") /\ UNCHANGED scanJob

----------------------------------------------------------------------------
(* worker_func(), queue_pop() and process_module() *)

\* Without a libkmod context the thread ends the whole program.
OpenContext(t) ==
  /\ thread[t].pc = "start"
  /\ IF scan.kmod THEN thread' = [thread EXCEPT ![t].pc = "pop"] /\ UNCHANGED scanStage
     ELSE scanStage' = "fail" /\ UNCHANGED thread
  /\ UNCHANGED <<scanJob, filter_rules, nfile, paths, current, printed>>

QueuePop(t) ==
  /\ thread[t].pc = "pop"
  /\ IF current < Len(paths)
     THEN /\ current' = current + 1
          /\ thread' = [thread EXCEPT ![t] = [Asleep EXCEPT !.pc = "match", !.at = current + 1, !.set = 1]]
     ELSE thread' = [thread EXCEPT ![t] = Asleep] /\ UNCHANGED current
  /\ UNCHANGED <<scanJob, scanStage, filter_rules, nfile, paths, printed>>

Module(t) == scan.dir[paths[thread[t].at]]

\* match_filename(), match(), match_symbols(): every rule of the list holds.
Holds(rules, hits) == \A i \in DOMAIN rules : (i \in hits) # rules[i].not
match_filename(m, rules) == Holds(rules, {i \in DOMAIN rules : m.path \in rules[i].pat})
match(m, rules) == Holds(rules, {i \in DOMAIN rules : \E v \in rules[i].pat : <<rules[i].keyword, v>> \in m.info})
match_symbols(m, rules) == Holds(rules, {i \in DOMAIN rules : rules[i].pat \cap (m.provided \cup m.required) # {}})

\* The states of mdata after a ruleset: 1 read, -1 (here 2) could not be read.
InfoState(m, old, set) ==
  IF old # 0 \/ set.info = <<>> \/ ~match_filename(m, set.paths) \/ ~m.opens THEN old
  ELSE IF m.infofails THEN 2 ELSE 1
SymbolsState(m, old, set) ==
  IF \/ old # 0 \/ set.symbols = <<>> \/ ~match_filename(m, set.paths) \/ ~m.opens
     \/ (set.info # <<>> /\ (m.infofails \/ ~match(m, set.info)))
  THEN old ELSE IF m.symbolsfail THEN 2 ELSE 1

\* Mutant: the rules for symbols only count when there are none for information.
process_module_ruleset_or(m, s, set) ==
  /\ set.paths # <<>> \/ set.info # <<>> \/ set.symbols # <<>>
  /\ match_filename(m, set.paths)
  /\ IF set.info # <<>> THEN m.opens /\ s.info # 2 /\ match(m, set.info)
     ELSE set.symbols # <<>> => m.opens /\ s.symbols # 2 /\ match_symbols(m, set.symbols)

process_module_ruleset(m, s, set) ==
  /\ set.paths # <<>> \/ set.info # <<>> \/ set.symbols # <<>>
  /\ match_filename(m, set.paths)
  /\ set.info # <<>> => m.opens /\ s.info # 2 /\ match(m, set.info)
  /\ set.symbols # <<>> => m.opens /\ s.symbols # 2 /\ match_symbols(m, set.symbols)

\* Mutant: a module printed goes on to the next ruleset.
MatchRulesetOn(t) ==
  /\ thread[t].pc = "match" /\ thread[t].set <= Len(filter_rules)
  /\ LET m == Module(t)
         set == filter_rules[thread[t].set]
     IN /\ printed' = IF process_module_ruleset(m, thread[t], set)
                      THEN [printed EXCEPT ![thread[t].at] = @ + 1] ELSE printed
        /\ thread' = [thread EXCEPT ![t].set = @ + 1]
  /\ UNCHANGED <<scanJob, scanStage, filter_rules, nfile, paths, current>>

\* One ruleset of process_module(); the first that matches ends the module.
MatchRuleset(t) ==
  /\ thread[t].pc = "match" /\ thread[t].set <= Len(filter_rules)
  /\ LET m == Module(t)
         set == filter_rules[thread[t].set]
         s == [thread[t] EXCEPT !.info = InfoState(m, @, set), !.symbols = SymbolsState(m, @, set)]
     IN IF process_module_ruleset(m, s, set)
        THEN /\ printed' = [printed EXCEPT ![thread[t].at] = @ + 1]
             /\ thread' = [thread EXCEPT ![t] = [Asleep EXCEPT !.pc = "pop"]]
        ELSE thread' = [thread EXCEPT ![t] = [s EXCEPT !.set = @ + 1]] /\ UNCHANGED printed
  /\ UNCHANGED <<scanJob, scanStage, filter_rules, nfile, paths, current>>

ModuleDone(t) ==
  /\ thread[t].pc = "match" /\ thread[t].set > Len(filter_rules)
  /\ thread' = [thread EXCEPT ![t] = [Asleep EXCEPT !.pc = "pop"]]
  /\ UNCHANGED <<scanJob, scanStage, filter_rules, nfile, paths, current, printed>>

ThreadStep(t) == /\ scanStage = "join"   \* err() in a thread ends them all
                 /\ OpenContext(t) \/ QueuePop(t) \/ MatchRuleset(t) \/ ModuleDone(t)

ScanStep == ParseFile \/ WalkKernelDir \/ SpawnThreads \/ JoinThreads \/ \E t \in Threads : ThreadStep(t)
ScanFinished == scanStage \in {"ok", "fail"}

----------------------------------------------------------------------------
(* Properties *)

\* The state of initrd-scanmod; queue_pop() never runs past the list of paths.
ScanTypeOK ==
  /\ scanStage \in {"rules", "spawn", "join", "ok", "fail"}
  /\ nfile \in 0..Len(scan.files)
  /\ current \in 0..Len(paths)
  /\ DOMAIN printed = DOMAIN paths
  /\ \A t \in Threads : thread[t].at \in 0..Len(paths) /\ thread[t].pc \in {"none", "start", "pop", "match"}

\* The manual's "Each matching module is printed at most once": no interleaving
\* of the threads hands one path to two of them, and a module that several
\* rulesets want is printed for the first.
ScanOnce == \A i \in DOMAIN printed : printed[i] <= 1

\* What the manual promises of a module, without flags, early exits or cached
\* states: all rules of one file hold (AND), for any of the files (OR).
Satisfies(m, f) ==
  /\ \E i \in DOMAIN f.lines : f.lines[i].kind = "rule"
  /\ \A i \in DOMAIN f.lines : f.lines[i].kind = "rule" =>
       LET r == f.lines[i]
           hit == CASE r.keyword = "filename" -> m.path \in r.pat
                    [] r.keyword = "symbol" -> r.pat \cap (m.provided \cup m.required) # {}
                    [] OTHER -> \E v \in r.pat : <<r.keyword, v>> \in m.info
       IN hit # r.not
Readable(m) == m.opens /\ ~m.infofails /\ ~m.symbolsfail

\* A successful run prints exactly the modules that satisfy a rules file, if a
\* worker could be started at all: no module is skipped by a thread that quits
\* early, and what one ruleset learned of a module serves the next.
ScanExact ==
  scanStage = "ok" /\ (paths # <<>> => current > 0) =>
    \A m \in DOMAIN scan.dir :
      Readable(scan.dir[m]) =>
        ((\E i \in DOMAIN paths : paths[i] = m /\ printed[i] = 1) <=>
           (Listed(scan.dir[m]) /\ \E i \in DOMAIN scan.files : Satisfies(scan.dir[m], scan.files[i])))

============================================================================
