---------------------------- MODULE ToolProofs -----------------------------
(***************************************************************************)
(* Proofs about four programs: scanmod and initrd-extract of the build,    *)
(* nfsmount and rootdelayd of the image.                                   *)
(***************************************************************************)
EXTENDS Scanmod, InitrdExtract, Nfsmount, Rootdelay, TLAPS

\* Zenon with thirty seconds for a leaf, unless the leaf names another prover.
USE ZenonT(30)

----------------------------------------------------------------------------
(* initrd-scanmod *)

Workers == [pc : {"none", "start", "pop", "match"}, at : Nat, set : Nat, info : 0..2, symbols : 0..2]

\* The path of a thread that matches lies before "current", has not been printed
\* and is no other thread's; what was printed lies before "current" too.
ScanInv ==
  /\ current \in Nat
  /\ thread \in [Threads -> Workers]
  /\ scanStage \in {"rules", "spawn"} => current = 0 /\ \A t \in Threads : thread[t].pc # "match"
  /\ \A i \in DOMAIN printed : printed[i] \in {0, 1} /\ (printed[i] = 1 => i \in 1 .. current)
  /\ \A t \in Threads : thread[t].pc = "match" =>
       /\ thread[t].at \in 1 .. current
       /\ thread[t].at \in DOMAIN printed => printed[thread[t].at] = 0
       /\ \A u \in Threads \ {t} : thread[u].pc = "match" => thread[u].at # thread[t].at

\* The state of a thread that has no path.
LEMMA AsleepWorker == \A p \in {"none", "start", "pop"} :
                        [Asleep EXCEPT !.pc = p] \in Workers /\ [Asleep EXCEPT !.pc = p].pc = p
BY SMTT(30) DEF Asleep, Workers

\* Before main() has read its files nothing is printed.
LEMMA ScanInitial == ScanInit => ScanInv
<1> SUFFICES ASSUME ScanInit PROVE ScanInv
  OBVIOUS
<1>1. Asleep \in Workers /\ Asleep.pc = "none"
  BY SMTT(30) DEF Asleep, Workers
<1>2. thread \in [Threads -> Workers] /\ \A t \in Threads : thread[t].pc = "none"
  BY <1>1 DEF ScanInit
<1>3. current = 0 /\ DOMAIN printed = {}
  BY SMTT(30) DEF ScanInit
<1> QED BY <1>2, <1>3 DEF ScanInv

\* What main() does before there are threads and after the last one.
LEMMA MainKeeps ==
  ASSUME ScanInv, ParseFile \/ WalkKernelDir \/ SpawnThreads \/ JoinThreads \/ UNCHANGED scanVars
  PROVE  ScanInv'
<1>1. CASE ParseFile
  BY <1>1 DEF ParseFile, ScanInv
<1>2. CASE WalkKernelDir
  <2>1. UNCHANGED <<current, thread>> /\ scanStage = "rules"
    BY <1>2 DEF WalkKernelDir
  <2>2. UNCHANGED printed \/ \A i \in DOMAIN printed' : printed'[i] = 0
    BY <1>2 DEF WalkKernelDir
  <2> QED BY <2>1, <2>2, SMTT(30) DEF ScanInv
<1>3. CASE SpawnThreads
  <2>1. UNCHANGED <<current, printed>> /\ scanStage = "spawn" /\ scanStage' = "join"
    BY <1>3 DEF SpawnThreads
  <2>2. Asleep \in Workers /\ Asleep.pc = "none"
    BY SMTT(30) DEF Asleep, Workers
  <2>3. PICK S \in SUBSET Threads :
          thread' = [t \in Threads |-> IF t \in S THEN [Asleep EXCEPT !.pc = "start"] ELSE Asleep]
    BY <1>3 DEF SpawnThreads
  <2>4. thread' \in [Threads -> Workers] /\ \A t \in Threads : thread'[t].pc # "match"
    BY <2>2, <2>3, AsleepWorker
  <2> QED BY <2>1, <2>4 DEF ScanInv
<1>4. CASE JoinThreads
  BY <1>4 DEF JoinThreads, ScanExit, ScanInv
<1>5. CASE UNCHANGED scanVars
  BY <1>5 DEF scanVars, ScanInv
<1> QED BY <1>1, <1>2, <1>3, <1>4, <1>5

\* A thread that leaves its module, or never had one, disturbs no other.
LEMMA ThreadLeaves ==
  ASSUME ScanInv, NEW t \in Threads, NEW w \in Workers, w.pc # "match",
         thread' = [thread EXCEPT ![t] = w], UNCHANGED <<current, printed>>,
         scanStage = "join", scanStage' \in {"join", "fail"}
  PROVE  ScanInv'
<1>1. thread' \in [Threads -> Workers] /\ thread'[t] = w /\ \A u \in Threads \ {t} : thread'[u] = thread[u]
  BY DEF ScanInv
<1> QED BY <1>1 DEF ScanInv

\* A thread starts; without a context for kmod the scan has failed.
LEMMA OpenContextKeeps ==
  ASSUME ScanInv, NEW t \in Threads, scanStage = "join", OpenContext(t)
  PROVE  ScanInv'
<1>1. CASE scan.kmod
  <2>1. thread[t] \in Workers
    BY DEF ScanInv
  <2>2. [thread[t] EXCEPT !.pc = "pop"] \in Workers /\ [thread[t] EXCEPT !.pc = "pop"].pc # "match"
    BY <2>1 DEF Workers
  <2>3. thread' = [thread EXCEPT ![t] = [thread[t] EXCEPT !.pc = "pop"]] /\ UNCHANGED <<current, printed, scanStage>>
    BY <1>1 DEF OpenContext
  <2> QED BY <2>2, <2>3, ThreadLeaves
<1>2. CASE ~scan.kmod
  BY <1>2 DEF OpenContext, ScanInv
<1> QED BY <1>1, <1>2

\* The state of a thread that has taken path n.
LEMMA TakesPath ==
  ASSUME NEW f \in Workers, NEW n \in Nat
  PROVE  [f EXCEPT !.pc = "match", !.at = n, !.set = 1] \in Workers
         /\ [f EXCEPT !.pc = "match", !.at = n, !.set = 1].at = n
BY DEF Workers

\* queue_pop() under its lock: the path handed out is new to all threads.
LEMMA QueuePopKeeps ==
  ASSUME ScanInv, NEW t \in Threads, scanStage = "join", QueuePop(t)
  PROVE  ScanInv'
<1> DEFINE w == [Asleep EXCEPT !.pc = "match", !.at = current + 1, !.set = 1]
<1>1. CASE current < Len(paths)
  <2>1. current \in Nat
    BY DEF ScanInv
  <2>2. w \in Workers /\ w.at = current + 1
    <3>1. current + 1 \in Nat
      BY <2>1, SMTT(30)
    <3>2. Asleep \in Workers
      BY SMTT(30) DEF Asleep, Workers
    <3> QED BY <3>1, <3>2, TakesPath
  <2>3. current' = current + 1 /\ thread' = [thread EXCEPT ![t] = w] /\ UNCHANGED <<printed, scanStage>>
    BY <1>1 DEF QueuePop
  <2> HIDE DEF w
  <2>4. thread' \in [Threads -> Workers] /\ thread'[t] = w /\ \A u \in Threads \ {t} : thread'[u] = thread[u]
    BY <2>2, <2>3 DEF ScanInv
  <2>5. \A i \in DOMAIN printed : printed[i] \in {0, 1} /\ (printed[i] = 1 => i \in 1 .. current /\ i # current + 1)
    BY <2>1, SMTT(30) DEF ScanInv
  <2>6. \A u \in Threads \ {t} : thread[u].pc = "match" => thread[u].at \in 1 .. current /\ thread[u].at # current + 1
    BY <2>1, SMTT(30) DEF ScanInv
  <2>7. \A i \in 1 .. current : i \in 1 .. current'
    BY <2>1, <2>3, SMTT(30)
  <2>8. current' \in Nat /\ current + 1 \in 1 .. current'
    BY <2>1, <2>3, SMTT(30)
  <2> QED BY <2>2, <2>3, <2>4, <2>5, <2>6, <2>7, <2>8, SMTT(30) DEF ScanInv
<1>2. CASE ~(current < Len(paths))
  <2>1. Asleep \in Workers /\ Asleep.pc # "match"
    BY SMTT(30) DEF Asleep, Workers
  <2> QED BY <1>2, <2>1, ThreadLeaves DEF QueuePop
<1> QED BY <1>1, <1>2

\* What is cached of a module's info and symbols has three states.
LEMMA StatesStay ==
  ASSUME NEW m, NEW set, NEW old \in 0..2
  PROVE  InfoState(m, old, set) \in 0..2 /\ SymbolsState(m, old, set) \in 0..2
<1>1. InfoState(m, old, set) \in {old, 1, 2}
  BY DEF InfoState
<1>2. SymbolsState(m, old, set) \in {old, 1, 2}
  BY DEF SymbolsState
<1> QED BY <1>1, <1>2, SMTT(30)

\* The first ruleset that matches prints the module and ends it.
LEMMA MatchRulesetKeeps ==
  ASSUME ScanInv, NEW t \in Threads, scanStage = "join", MatchRuleset(t)
  PROVE  ScanInv'
<1> DEFINE m == Module(t)
           set == filter_rules[thread[t].set]
           s == [thread[t] EXCEPT !.info = InfoState(m, @, set), !.symbols = SymbolsState(m, @, set)]
           at == thread[t].at
<1>1. thread[t] \in Workers /\ thread[t].pc = "match"
  BY DEF ScanInv, MatchRuleset
<1>2. InfoState(m, thread[t].info, set) \in 0..2 /\ SymbolsState(m, thread[t].symbols, set) \in 0..2
  BY <1>1, StatesStay DEF Workers
<1>3. s \in Workers /\ s.at = at /\ s.set \in Nat
  BY <1>1, <1>2 DEF Workers
<1>4. UNCHANGED <<current, scanStage>>
  BY DEF MatchRuleset
<1>5. CASE process_module_ruleset(m, s, set)
  <2>1. printed' = [printed EXCEPT ![at] = @ + 1] /\ thread' = [thread EXCEPT ![t] = [Asleep EXCEPT !.pc = "pop"]]
    BY <1>5 DEF MatchRuleset
  <2>2. [Asleep EXCEPT !.pc = "pop"] \in Workers /\ [Asleep EXCEPT !.pc = "pop"].pc = "pop"
    BY AsleepWorker
  <2>3. /\ thread' \in [Threads -> Workers] /\ thread'[t].pc = "pop"
        /\ \A u \in Threads \ {t} : thread'[u] = thread[u]
    BY <2>1, <2>2 DEF ScanInv
  <2>4. /\ at \in 1 .. current /\ (at \in DOMAIN printed => printed[at] = 0)
        /\ \A u \in Threads \ {t} : thread[u].pc = "match" => thread[u].at # at
    BY <1>1 DEF ScanInv
  <2>5. /\ DOMAIN printed' = DOMAIN printed
        /\ at \in DOMAIN printed => printed'[at] = 1
        /\ \A i \in DOMAIN printed : i # at => printed'[i] = printed[i]
    BY <2>1, <2>4, SMTT(30)
  <2> HIDE DEF at
  <2>6. \A i \in DOMAIN printed' : printed'[i] \in {0, 1} /\ (printed'[i] = 1 => i \in 1 .. current')
    BY <2>4, <2>5, <1>4 DEF ScanInv
  <2>7. \A u \in Threads : thread'[u].pc = "match" =>
          /\ thread'[u].at \in 1 .. current'
          /\ thread'[u].at \in DOMAIN printed' => printed'[thread'[u].at] = 0
          /\ \A v \in Threads \ {u} : thread'[v].pc = "match" => thread'[v].at # thread'[u].at
    BY <2>3, <2>4, <2>5, <1>4, SMTT(30) DEF ScanInv
  <2> QED BY <2>3, <2>6, <2>7, <1>4 DEF ScanInv
<1>6. CASE ~process_module_ruleset(m, s, set)
  <2>1. thread' = [thread EXCEPT ![t] = [s EXCEPT !.set = @ + 1]] /\ UNCHANGED printed
    BY <1>6 DEF MatchRuleset
  <2> HIDE DEF s
  <2>2. [s EXCEPT !.set = @ + 1] \in Workers /\ [s EXCEPT !.set = @ + 1].at = at
    BY <1>3, SMTT(30) DEF Workers
  <2>3. /\ thread' \in [Threads -> Workers] /\ thread'[t].at = at
        /\ \A u \in Threads \ {t} : thread'[u] = thread[u]
    BY <2>1, <2>2 DEF ScanInv
  <2> QED BY <2>1, <2>3, <1>1, <1>4, SMTT(30) DEF ScanInv
<1> QED BY <1>5, <1>6

\* After the last ruleset the thread goes for the next path.
LEMMA ModuleDoneKeeps ==
  ASSUME ScanInv, NEW t \in Threads, scanStage = "join", ModuleDone(t)
  PROVE  ScanInv'
<1>1. [Asleep EXCEPT !.pc = "pop"] \in Workers /\ [Asleep EXCEPT !.pc = "pop"].pc # "match"
  BY AsleepWorker
<1> QED BY <1>1, ThreadLeaves DEF ModuleDone

\* Every step of main() and of the threads.
LEMMA ScanStepKeeps ==
  ASSUME ScanInv, [ScanStep]_scanVars
  PROVE  ScanInv'
BY MainKeeps, OpenContextKeeps, QueuePopKeeps, MatchRulesetKeeps, ModuleDoneKeeps DEF ScanStep, ThreadStep

\* "Each matching module is printed at most once" (initrd-scanmod(1)) whatever the
\* number of threads, by the lock of queue_pop() and the return of
\* process_module() alone.
THEOREM ScanPrintsOnce == ScanInit /\ [][ScanStep]_scanVars => []ScanOnce
<1>1. ScanInv => ScanOnce
  BY SMTT(30) DEF ScanInv, ScanOnce
<1> QED BY <1>1, ScanInitial, ScanStepKeeps, PTL

----------------------------------------------------------------------------
(* initrd-extract *)

\* push_pad(): the next multiple of four.
LEMMA PadFour ==
  ASSUME NEW n \in Nat
  PROVE  /\ push_pad(n) \in Nat /\ push_pad(n) % 4 = 0
         /\ n <= push_pad(n) /\ push_pad(n) < n + 4
         /\ n % 4 = 0 => push_pad(n) = n
BY SMTT(30) DEF push_pad, Align

\* read_cpio() pads a name by its own length (N_ALIGN), write_cpio() by the offset
\* it has reached: behind a header at a multiple of four the two agree.
LEMMA NamePad ==
  ASSUME NEW o \in Nat, o % 4 = 0, NEW n \in Nat
  PROVE  o + CPIO_HEADER_SIZE + N_ALIGN(n) = push_pad(o + CPIO_HEADER_SIZE + n)
BY SMTT(30) DEF push_pad, Align, N_ALIGN, CPIO_HEADER_SIZE

\* push_rest() pads by the length of header and name alone, to the same offset.
LEMMA RestPad ==
  ASSUME NEW o \in Nat, o % 4 = 0, NEW e, Lengths(e)
  PROVE  push_rest(e, push_hdr(o)) = push_pad(push_string(e, push_hdr(o)))
BY SMTT(30) DEF push_rest, push_hdr, push_pad, push_string, Align, CPIO_HEADER_SIZE, Lengths

\* write_cpio() leaves the output at a multiple of four, past the entry's header.
LEMMA WriteAligned ==
  ASSUME NEW o \in Nat, o % 4 = 0, NEW e, Lengths(e)
  PROVE  /\ write_cpio(e, o) \in Nat
         /\ write_cpio(e, o) % 4 = 0
         /\ o < write_cpio(e, o)
<1> DEFINE body == push_pad(push_string(e, push_hdr(o)))
<1>1. push_string(e, push_hdr(o)) \in Nat /\ o < push_string(e, push_hdr(o))
  BY SMTT(30) DEF push_string, push_hdr, CPIO_HEADER_SIZE, Lengths
<1>2. body \in Nat /\ body % 4 = 0 /\ o < body
  BY <1>1, PadFour, SMTT(30)
<1>3. body + e.body_len \in Nat /\ o < body + e.body_len
  BY <1>2, SMTT(30) DEF Lengths
<1>4. /\ push_pad(body + e.body_len) \in Nat
      /\ push_pad(body + e.body_len) % 4 = 0
      /\ o < push_pad(body + e.body_len)
  BY <1>3, PadFour, SMTT(30)
<1>5. write_cpio(e, o) \in {body, push_pad(body + e.body_len)}
  BY RestPad DEF write_cpio
<1> QED BY <1>2, <1>4, <1>5

\* The round trip of one entry: where write_cpio() stops, read_cpio() looks for
\* the next header, if the entry is one an archiver writes.
LEMMA RoundTrip ==
  ASSUME NEW o \in Nat, o % 4 = 0, NEW e, Lengths(e), Regular(e)
  PROVE  Align(EntryEnd(e, o), 4) = write_cpio(e, o)
<1> DEFINE body == push_pad(push_string(e, push_hdr(o)))
<1>1. push_string(e, push_hdr(o)) = o + CPIO_HEADER_SIZE + e.name_len
  BY DEF push_string, push_hdr, Regular
<1>2. EntryEnd(e, o) = body + e.body_len
  BY <1>1, NamePad DEF EntryEnd, Lengths
<1>3. body \in Nat /\ body % 4 = 0
  BY <1>1, PadFour, SMTT(30) DEF CPIO_HEADER_SIZE, Lengths
<1>4. push_pad(body + 0) = body
  BY <1>3, PadFour, SMTT(30)
<1>5. CASE e.body_len = 0
  BY <1>2, <1>3, <1>4, <1>5, RestPad DEF write_cpio, push_pad
<1>6. CASE e.body_len # 0
  BY <1>2, <1>6 DEF write_cpio, push_pad, Regular
<1> QED BY <1>5, <1>6

----------------------------------------------------------------------------
(* What read_stream() keeps *)

EntriesIn(i) == {a \in UNION {{i.streams[s].at[o] : o \in DOMAIN i.streams[s].at} : s \in DOMAIN i.streams} :
                   a.kind = "entry" /\ a.type # "trailer"}
Found == EntriesIn(img)
Frames == [of : DOMAIN img.streams, size : Int, offset : Int, raw : [reads : BOOLEAN, from : Int]]
Cpios == [type : {"archive", "bootconfig"}, headers : Seq(Found)]

ReadInv ==
  /\ ImageOK(img)
  /\ stack \in Seq(Frames)
  /\ cpios \in Seq(Cpios)
  /\ nth \in Nat \ {0}
  /\ hdr \in Nat \ {0}

\* What the writer keeps: headers lie at multiples of four, below the end of the
\* output, and the trailer comes last.
WriteInv ==
  /\ outSize \in Nat /\ outSize % 4 = 0
  /\ \A o \in DOMAIN out : o \in Nat /\ o % 4 = 0 /\ o < outSize /\ Lengths(out[o])
  /\ xpc # "ok" => \A o \in DOMAIN out : out[o].type # "trailer"

ExtractInv == ReadInv /\ WriteInv /\ ExtractReadable

\* Every item of a stream is one of its offsets' or no entry at all.
LEMMA ItemKinds ==
  ASSUME ImageOK(img), NEW s \in DOMAIN img.streams, NEW o
  PROVE  /\ Item(s, o).kind = "entry" /\ Item(s, o).type # "trailer" => Item(s, o) \in Found
         /\ Item(s, o).kind = "bootconfig" => Item(s, o).size \in Nat
         /\ Item(s, o).kind = "compressed" => Item(s, o).stream \in DOMAIN img.streams /\ Item(s, o).readed \in Nat
         /\ Item(s, o).kind = "entry" => Lengths(Item(s, o))
<1>1. CASE o \in DOMAIN img.streams[s].at
  <2> DEFINE a == img.streams[s].at[o]
  <2>1. Item(s, o) = a
    BY <1>1 DEF Item
  <2>2. a.kind = "entry" /\ a.type # "trailer" => a \in Found
    <3>1. a \in UNION {{img.streams[r].at[q] : q \in DOMAIN img.streams[r].at} : r \in DOMAIN img.streams}
      BY <1>1, SMTT(30)
    <3> QED BY <3>1 DEF Found, EntriesIn
  <2>3. /\ a.kind = "entry" => Lengths(a)
        /\ a.kind = "bootconfig" => a.size \in Nat
        /\ a.kind = "compressed" => a.stream \in DOMAIN img.streams /\ a.readed \in Nat
    BY <1>1 DEF ImageOK
  <2> QED BY <2>1, <2>2, <2>3
<1>2. CASE o \notin DOMAIN img.streams[s].at
  BY <1>2 DEF Item
<1> QED BY <1>1, <1>2

\* The entries read_cpio() keeps have lengths, and are no trailers.
LEMMA FoundLengths ==
  ASSUME ImageOK(img), NEW a \in Found
  PROVE  Lengths(a) /\ a.type # "trailer"
BY SMTT(30) DEF Found, EntriesIn, ImageOK

\* The image is never written to, so levels and archives stay what they are.
LEMMA ReadKept ==
  ASSUME ReadInv, img' = img, stack' \in Seq(Frames), cpios' \in Seq(Cpios),
         nth' \in Nat \ {0}, hdr' \in Nat \ {0}
  PROVE  ReadInv'
<1>1. Frames' = Frames
  BY DEF Frames
<1>2. Cpios' = Cpios
  BY DEF Cpios, Found
<1>3. ImageOK(img)'
  BY DEF ReadInv
<1> QED BY <1>1, <1>2, <1>3 DEF ReadInv

\* read_bootconfig() shortens the image and leaves the archives alone.
LEMMA BootConfigReads ==
  ASSUME ReadInv, BootConfig
  PROVE  ReadInv'
<1> USE DEF ReadInv
<1>1. UNCHANGED <<img, cpios, nth, hdr>>
  BY DEF BootConfig, ExtractFail
<1>2. Full \in Nat
  BY DEF Full, ImageOK
<1>3. \A i \in 0..3 : Magic(i).kind = "bootconfig" => Magic(i).size \in Nat
  BY ItemKinds DEF ImageOK, Magic
<1>4. \A n \in Int : <<Stream("image", n)>> \in Seq(Frames)
  BY SMTT(30) DEF Stream, Frames, NoCpio, ImageOK
<1>5. \A i \in 0..3 : Magic(i).kind = "bootconfig" =>
        Full - BOOTCONFIG_MAGIC_LEN - i - 8 - Magic(i).size \in Int
  BY <1>2, <1>3, SMTT(30) DEF BOOTCONFIG_MAGIC_LEN
<1>6. \/ stack' = <<Stream("image", Full)>>
      \/ stack' = stack
      \/ \E i \in 0..3 : /\ Magic(i).kind = "bootconfig"
                         /\ stack' = <<Stream("image", Full - BOOTCONFIG_MAGIC_LEN - i - 8 - Magic(i).size)>>
  BY DEF BootConfig, ExtractFail
<1>7. \E n \in Int : stack' \in {stack, <<Stream("image", n)>>}
  BY <1>2, <1>5, <1>6, SMTT(30)
<1>8. PICK n \in Int : stack' \in {stack, <<Stream("image", n)>>}
  BY <1>7
<1>9. stack' \in Seq(Frames)
  BY <1>4, <1>8
<1> QED BY <1>1, <1>9, ReadKept

\* A stream that is read further, inside or outside of an archive.
LEMMA FrameFields ==
  ASSUME NEW f \in Frames
  PROVE  f.offset \in Int /\ f.raw.from \in Int /\ [f EXCEPT !.raw = NoCpio] \in Frames
<1>1. NoCpio \in [reads : BOOLEAN, from : Int]
  BY SMTT(30) DEF NoCpio
<1> QED BY <1>1 DEF Frames

\* A level of nesting stays one when its offset or its archive changes.
LEMMA FrameMoves ==
  ASSUME NEW f \in Frames, NEW o \in Int
  PROVE  /\ [f EXCEPT !.offset = o] \in Frames
         /\ [f EXCEPT !.raw = ReadFrom(o)] \in Frames
         /\ [f EXCEPT !.offset = o, !.raw = NoCpio] \in Frames
<1>1. NoCpio \in [reads : BOOLEAN, from : Int] /\ ReadFrom(o) \in [reads : BOOLEAN, from : Int]
  BY SMTT(30) DEF NoCpio, ReadFrom
<1> QED BY <1>1 DEF Frames

\* The innermost stream and its replacement.
LEMMA InnerFrame ==
  ASSUME ReadInv, Parsing
  PROVE  /\ Inner \in Frames
         /\ Len(stack) \in 1 .. Len(stack)
         /\ \A f \in Frames : [stack EXCEPT ![Len(stack)] = f] \in Seq(Frames)
         /\ SubSeq(stack, 1, Len(stack) - 1) \in Seq(Frames)
<1>1. stack \in Seq(Frames) /\ stack # <<>>
  BY DEF ReadInv, Parsing
<1>2. Len(stack) \in 1 .. Len(stack)
  BY <1>1, SMTT(30)
<1>3. Inner \in Frames
  BY <1>1, <1>2, SMTT(30) DEF Inner
<1>4. \A f \in Frames : [stack EXCEPT ![Len(stack)] = f] \in Seq(Frames)
  BY <1>1, SMTT(30)
<1>5. SubSeq(stack, 1, Len(stack) - 1) \in Seq(Frames)
  BY <1>1, <1>2, SMTT(30)
<1> QED BY <1>2, <1>3, <1>4, <1>5

\* What stands at the place that is read.
LEMMA HereKinds ==
  ASSUME ReadInv, Parsing
  PROVE  /\ Here.kind = "entry" /\ Here.type # "trailer" => Here \in Found
         /\ Here.kind = "compressed" => Here.stream \in DOMAIN img.streams /\ Here.readed \in Nat
         /\ Here.kind = "entry" => Lengths(Here)
<1>1. Inner.of \in DOMAIN img.streams
  BY InnerFrame DEF Frames
<1> QED BY <1>1, ItemKinds DEF Here, ReadInv

\* A compressed stream puts a level on the stack.
LEMMA DecompressReads ==
  ASSUME ReadInv, Decompress
  PROVE  ReadInv'
<1>1. UNCHANGED <<img, cpios, nth, hdr>>
  BY DEF Decompress
<1>2. Here.stream \in DOMAIN img.streams /\ Here.readed \in Nat
  BY HereKinds DEF Decompress, decompress_method
<1> DEFINE outer == [Inner EXCEPT !.offset = @ + Here.readed]
           inner == Stream(Here.stream, img.streams[Here.stream].size)
<1>3. outer \in Frames
  <2>1. Inner \in Frames
    BY InnerFrame DEF Decompress
  <2>2. Inner.offset \in Int
    BY <2>1, FrameFields
  <2>3. Inner.offset + Here.readed \in Int
    BY <2>2, <1>2, SMTT(30)
  <2> QED BY <2>1, <2>3, FrameMoves
<1>4. img.streams[Here.stream].size \in Int
  BY <1>2, SMTT(30) DEF ReadInv, ImageOK
<1>5. inner \in Frames
  BY <1>2, <1>4, SMTT(30) DEF Stream, Frames, NoCpio
<1>6. [stack EXCEPT ![Len(stack)] = outer] \in Seq(Frames)
  BY <1>3, InnerFrame DEF Decompress
<1>7. stack' = stack \/ stack' = Append([stack EXCEPT ![Len(stack)] = outer], inner)
  BY DEF Decompress, Inner
<1>8. stack' \in Seq(Frames)
  <2> HIDE DEF outer, inner
  <2> QED BY <1>5, <1>6, <1>7, SMTT(30) DEF ReadInv
<1> QED BY <1>1, <1>8, ReadKept DEF ReadInv

\* A magic number starts an archive, with no entries yet.
LEMMA OpenCpioReads ==
  ASSUME ReadInv, OpenCpio
  PROVE  ReadInv'
<1>1. UNCHANGED <<img, nth, hdr>>
  BY DEF OpenCpio
<1>2. [Inner EXCEPT !.raw = ReadFrom(Inner.offset)] \in Frames
  <2>1. Inner \in Frames
    BY InnerFrame DEF OpenCpio
  <2> QED BY <2>1, FrameFields, FrameMoves
<1>3. stack' \in Seq(Frames)
  BY <1>2, InnerFrame DEF OpenCpio, Replace
<1>4. [type |-> "archive", headers |-> <<>>] \in Cpios
  BY SMTT(30) DEF Cpios
<1>5. cpios' \in Seq(Cpios)
  BY <1>4, SMTT(30) DEF OpenCpio, list_append, ReadInv
<1> QED BY <1>1, <1>3, <1>5, ReadKept DEF ReadInv

\* The end of an archive leaves its entries as they are.
LEMMA CloseCpioReads ==
  ASSUME ReadInv, CloseCpio
  PROVE  ReadInv'
<1>1. UNCHANGED <<img, cpios, nth, hdr>>
  BY DEF CloseCpio
<1>2. [Inner EXCEPT !.raw = NoCpio] \in Frames
  BY InnerFrame, FrameFields DEF CloseCpio
<1>3. stack' \in Seq(Frames)
  BY <1>2, InnerFrame DEF CloseCpio, Replace
<1> QED BY <1>1, <1>3, ReadKept DEF ReadInv

\* The end of a stream takes a level off the stack.
LEMMA EndStreamReads ==
  ASSUME ReadInv, EndStream
  PROVE  ReadInv'
<1>1. UNCHANGED <<img, nth, hdr>>
  BY DEF EndStream
<1>2. stack' \in Seq(Frames)
  BY InnerFrame DEF EndStream
<1>3. [type |-> "bootconfig", headers |-> <<>>] \in Cpios
  BY SMTT(30) DEF Cpios
<1>4. cpios' = cpios \/ cpios' = Append(cpios, [type |-> "bootconfig", headers |-> <<>>])
  BY DEF EndStream, list_append
<1>5. cpios' \in Seq(Cpios)
  BY <1>3, <1>4, SMTT(30) DEF ReadInv
<1> QED BY <1>1, <1>2, <1>5, ReadKept DEF ReadInv

\* list_shift() undoes list_append(): the trailer leaves the headers as they were.
LEMMA ShiftAppend ==
  ASSUME NEW S, NEW q \in Seq(S), NEW e
  PROVE  list_shift(list_append(q, e)) = q
<1>1. Append(q, e) \in Seq(S \cup {e}) /\ Len(Append(q, e)) = Len(q) + 1
  BY SMTT(30)
<1>2. /\ Len(SubSeq(Append(q, e), 1, Len(q))) = Len(q)
      /\ \A i \in 1 .. Len(q) : SubSeq(Append(q, e), 1, Len(q))[i] = q[i]
      /\ SubSeq(Append(q, e), 1, Len(q)) \in Seq(S \cup {e})
  BY <1>1, SMTT(30)
<1>3. Len(Append(q, e)) - 1 = Len(q)
  BY <1>1, SMTT(30)
<1>4. SubSeq(Append(q, e), 1, Len(q)) = q
  BY <1>2, SMTT(30)
<1> QED BY <1>3, <1>4 DEF list_shift, list_append

\* A new last element, and new headers for the last archive.
LEMMA LastElement ==
  ASSUME NEW R, NEW q \in Seq(R)
  PROVE  /\ Len(q) # 0 => q[Len(q)] \in R
         /\ \A r : Len(q) = 0 => [q EXCEPT ![Len(q)] = r] = q
         /\ \A r \in R : [q EXCEPT ![Len(q)] = r] \in Seq(R)
<1>1. Len(q) # 0 => q[Len(q)] \in R
  BY SMTT(30)
<1>2. ASSUME NEW r, Len(q) = 0
      PROVE  [q EXCEPT ![Len(q)] = r] = q
  <2>1. Len(q) \notin DOMAIN q
    BY <1>2, SMTT(30)
  <2>2. q = [x \in DOMAIN q |-> q[x]]
    BY SMTT(30)
  <2> QED BY <2>1, <2>2
<1>3. ASSUME NEW r \in R, Len(q) # 0
      PROVE  [q EXCEPT ![Len(q)] = r] \in Seq(R)
  BY <1>3, SMTT(30)
<1> QED BY <1>1, <1>2, <1>3

\* The entries of the last archive may be replaced by other entries.
LEMMA LastHeaders ==
  ASSUME NEW hs, cpios \in Seq(Cpios), Len(cpios) # 0 => hs \in Seq(Found)
  PROVE  [cpios EXCEPT ![Len(cpios)].headers = hs] \in Seq(Cpios)
<1> DEFINE r == [cpios[Len(cpios)] EXCEPT !.headers = hs]
<1>1. CASE Len(cpios) = 0
  <2>1. [cpios EXCEPT ![Len(cpios)] = r] = cpios
    <3> HIDE DEF r
    <3> QED BY <1>1, LastElement
  <2> QED BY <2>1
<1>2. CASE Len(cpios) # 0
  <2>1. cpios[Len(cpios)] \in Cpios
    BY <1>2, LastElement
  <2>2. r \in Cpios
    BY <2>1, <1>2 DEF Cpios
  <2>3. [cpios EXCEPT ![Len(cpios)] = r] \in Seq(Cpios)
    <3> HIDE DEF r
    <3> QED BY <2>2, LastElement
  <2> QED BY <2>3
<1> QED BY <1>1, <1>2

\* read_cpio() appends the entry it has read, a trailer aside.
LEMMA ReadEntryReads ==
  ASSUME ReadInv, ReadEntry
  PROVE  ReadInv'
<1> DEFINE raw == Inner.raw.from
           next == Align(EntryEnd(Here, Inner.offset - raw), 4)
           old == cpios[Len(cpios)].headers
<1>1. UNCHANGED <<img, nth, hdr>>
  BY DEF ReadEntry
<1>2. CASE ExtractFail
  BY <1>1, <1>2, ReadKept DEF ExtractFail, ReadInv
<1>3. CASE ~ExtractFail
  <2>1. /\ Here.kind = "entry" /\ Inner.offset < Inner.size
        /\ IF Here.type = "trailer"
           THEN /\ Replace([Inner EXCEPT !.offset = raw + Align(next, 512), !.raw = NoCpio])
                /\ cpios' = [cpios EXCEPT ![Len(cpios)].headers = list_shift(list_append(old, Here))]
           ELSE /\ Replace([Inner EXCEPT !.offset = raw + next])
                /\ cpios' = [cpios EXCEPT ![Len(cpios)].headers = list_append(old, Here)]
    BY <1>3 DEF ReadEntry
  <2>2. Inner \in Frames
    BY InnerFrame DEF ReadEntry
  <2>3. raw \in Int /\ Inner.offset \in Int
    BY <2>2, FrameFields
  <2>4. Lengths(Here)
    BY <2>1, HereKinds DEF ReadEntry
  <2>5. next \in Int
    BY <2>3, <2>4, SMTT(30) DEF Lengths, EntryEnd, Align, N_ALIGN, CPIO_HEADER_SIZE
  <2>6. raw + next \in Int /\ raw + Align(next, 512) \in Int
    BY <2>3, <2>5, SMTT(30) DEF Align
  <2>7. /\ [Inner EXCEPT !.offset = raw + next] \in Frames
        /\ [Inner EXCEPT !.offset = raw + Align(next, 512), !.raw = NoCpio] \in Frames
    <3> HIDE DEF raw, next
    <3>1. [Inner EXCEPT !.offset = raw + next] \in Frames
      BY <2>2, <2>6, FrameMoves
    <3> DEFINE end == raw + Align(next, 512)
    <3>2. end \in Int
      BY <2>6
    <3> HIDE DEF end
    <3>3. [Inner EXCEPT !.offset = end, !.raw = NoCpio] \in Frames
      BY <2>2, <3>2, FrameMoves
    <3> QED BY <3>1, <3>3 DEF end
  <2>8. stack' \in Seq(Frames)
    <3>1. stack \in Seq(Frames) /\ Len(stack) # 0
      BY InnerFrame, SMTT(30) DEF ReadInv, ReadEntry, Parsing
    <3> HIDE DEF raw, next
    <3> DEFINE closed == [Inner EXCEPT !.offset = raw + Align(next, 512), !.raw = NoCpio]
               moved == [Inner EXCEPT !.offset = raw + next]
    <3>2. closed \in Frames /\ moved \in Frames
      BY <2>7
    <3>3. Replace(closed) \/ Replace(moved)
      BY <2>1
    <3> HIDE DEF closed, moved
    <3> QED BY <3>1, <3>2, <3>3, SMTT(30) DEF Replace
  <2>9. Len(cpios) # 0 => old \in Seq(Found)
    <3>1. Len(cpios) # 0 => cpios[Len(cpios)] \in Cpios
      BY LastElement DEF ReadInv
    <3> QED BY <3>1 DEF Cpios
  <2>10. cpios' \in Seq(Cpios)
    <3>1. CASE Here.type = "trailer"
      <4>1. Len(cpios) # 0 => list_shift(list_append(old, Here)) \in Seq(Found)
        BY <2>9, ShiftAppend
      <4> QED BY <3>1, <4>1, <2>1, LastHeaders DEF ReadInv
    <3>2. CASE Here.type # "trailer"
      <4>1. Here \in Found
        BY <3>2, <2>1, HereKinds DEF ReadEntry
      <4>2. Len(cpios) # 0 => list_append(old, Here) \in Seq(Found)
        BY <4>1, <2>9, SMTT(30) DEF list_append
      <4> QED BY <3>2, <4>2, <2>1, LastHeaders DEF ReadInv
    <3> QED BY <3>1, <3>2
  <2> QED BY <1>1, <2>8, <2>10, ReadKept DEF ReadInv
<1> QED BY <1>2, <1>3

\* Every step of initrd-extract keeps what the reader built.
LEMMA ReadStep ==
  ASSUME ReadInv, [ExtractStep]_extractVars
  PROVE  ReadInv'
<1>1. CASE NextCpio \/ WriteEntry \/ WriteTrailer \/ ReadNothing \/ UNCHANGED extractVars
  <2>1. img' = img /\ stack' = stack /\ cpios' = cpios
    BY <1>1 DEF NextCpio, WriteEntry, WriteTrailer, ReadNothing, extractVars
  <2>2. nth' \in Nat \ {0} /\ hdr' \in Nat \ {0}
    <3>1. nth' \in {nth, nth + 1} /\ hdr' \in {1, hdr, hdr + 1}
      BY <1>1 DEF NextCpio, WriteEntry, WriteTrailer, ReadNothing, extractVars
    <3> QED BY <3>1, SMTT(30) DEF ReadInv
  <2> QED BY <2>1, <2>2, ReadKept DEF ReadInv
<1> QED BY <1>1, BootConfigReads, DecompressReads, OpenCpioReads, ReadEntryReads,
           CloseCpioReads, EndStreamReads DEF ExtractStep

----------------------------------------------------------------------------
(* What the writer keeps *)

\* While the image is read nothing is written.
LEMMA ReaderSteps ==
  ASSUME xpc # "ok" => xpc' # "ok", UNCHANGED <<out, outSize>>, xpc = "ok" => UNCHANGED xpc,
         WriteInv, ExtractReadable
  PROVE  WriteInv' /\ ExtractReadable'
<1>1. xpc = "ok" <=> xpc' = "ok"
  OBVIOUS
<1>2. WriteInv'
  BY <1>1 DEF WriteInv, Lengths
<1>3. ExtractReadable'
  BY <1>1 DEF ExtractReadable
<1> QED BY <1>2, <1>3

\* write_cpio() puts an entry where the one before it ends, and can read both.
LEMMA WriteEntryKeeps ==
  ASSUME ReadInv, WriteInv, ExtractReadable, WriteEntry
  PROVE  WriteInv' /\ ExtractReadable'
<1> DEFINE e == cpios[nth].headers[hdr]
<1>1. e \in Found
  <2>1. nth \in 1 .. Len(cpios)
    BY SMTT(30) DEF WriteEntry, ReadInv
  <2>2. cpios[nth] \in Cpios
    BY <2>1, SMTT(30) DEF ReadInv
  <2>3. cpios[nth].headers \in Seq(Found)
    BY <2>2 DEF Cpios
  <2>4. hdr \in 1 .. Len(cpios[nth].headers)
    BY <2>3, SMTT(30) DEF WriteEntry, ReadInv
  <2> QED BY <2>3, <2>4, SMTT(30)
<1>2. Lengths(e) /\ e.type # "trailer"
  BY <1>1, FoundLengths DEF ReadInv
<1>3. /\ out' = [o \in DOMAIN out \cup {outSize} |-> IF o = outSize THEN e ELSE out[o]]
      /\ outSize' = write_cpio(e, outSize)
      /\ xpc' = xpc /\ xpc # "ok"
  BY DEF WriteEntry, Write
<1> HIDE DEF e
<1>4. outSize \in Nat /\ outSize % 4 = 0
  BY DEF WriteInv
<1>5. outSize' \in Nat /\ outSize' % 4 = 0 /\ outSize < outSize'
  BY <1>2, <1>3, <1>4, WriteAligned
<1>6. /\ DOMAIN out' = DOMAIN out \cup {outSize}
      /\ out'[outSize] = e
      /\ \A o \in DOMAIN out : out'[o] = out[o]
  BY <1>3, SMTT(30) DEF WriteInv
<1>7. WriteInv'
  BY <1>2, <1>3, <1>4, <1>5, <1>6, SMTT(30) DEF WriteInv, Lengths
<1>8. 0 \in DOMAIN out' \cup {outSize'}
  BY <1>6 DEF ExtractReadable
<1>9. ASSUME NEW o \in DOMAIN out', Regular(out'[o])
      PROVE  Align(EntryEnd(out'[o], o), 4) \in DOMAIN out' \cup {outSize'}
  <2>1. CASE o = outSize
    BY <2>1, <1>2, <1>3, <1>4, <1>6, <1>9, RoundTrip
  <2>2. CASE o # outSize
    <3>1. o \in DOMAIN out /\ out'[o] = out[o] /\ out[o].type # "trailer"
      BY <2>2, <1>3, <1>6 DEF WriteInv
    <3>2. Align(EntryEnd(out[o], o), 4) \in DOMAIN out \cup {outSize}
      BY <3>1, <1>3, <1>9 DEF ExtractReadable
    <3> QED BY <3>1, <3>2, <1>6
  <2> QED BY <2>1, <2>2
<1>10. \A o \in DOMAIN out' : out'[o].type # "trailer"
  BY <1>2, <1>3, <1>6 DEF WriteInv
<1>11. ExtractReadable'
  BY <1>3, <1>8, <1>9, <1>10 DEF ExtractReadable
<1> QED BY <1>7, <1>11

\* The trailer is an entry like others, and its padding keeps multiples of four.
LEMMA TrailerEnd ==
  ASSUME NEW o \in Nat, o % 4 = 0
  PROVE  LET end == Align(push_rest(Trailer, push_hdr(o)), 512)
         IN /\ Align(Align(EntryEnd(Trailer, o), 4), 512) = end
            /\ end \in Nat /\ end % 4 = 0 /\ o < end
            /\ Lengths(Trailer)
<1>1. Lengths(Trailer)
  BY DEF Lengths, Trailer
<1>2. push_rest(Trailer, push_hdr(o)) = o + 124 /\ Align(EntryEnd(Trailer, o), 4) = o + 124
  BY SMTT(30) DEF Trailer, push_rest, push_hdr, EntryEnd, Align, N_ALIGN, CPIO_HEADER_SIZE
<1>3. Align(o + 124, 512) \in Nat /\ Align(o + 124, 512) % 4 = 0 /\ o < Align(o + 124, 512)
  BY SMTT(30) DEF Align
<1> QED BY <1>1, <1>2, <1>3, SMTT(30)

\* The trailer of the output follows its last entry.
LEMMA WriteTrailerKeeps ==
  ASSUME WriteInv, ExtractReadable, WriteTrailer
  PROVE  WriteInv' /\ ExtractReadable'
<1> DEFINE end == Align(push_rest(Trailer, push_hdr(outSize)), 512)
<1>1. /\ out' = [o \in DOMAIN out \cup {outSize} |-> IF o = outSize THEN Trailer ELSE out[o]]
      /\ outSize' = end
      /\ xpc' = "ok" /\ xpc # "ok"
  BY DEF WriteTrailer, Write
<1>2. outSize \in Nat /\ outSize % 4 = 0
  BY DEF WriteInv
<1>3. /\ Align(Align(EntryEnd(Trailer, outSize), 4), 512) = end
      /\ end \in Nat /\ end % 4 = 0 /\ outSize < end
      /\ Lengths(Trailer)
  BY <1>2, TrailerEnd
<1> HIDE DEF end
<1>4. /\ DOMAIN out' = DOMAIN out \cup {outSize}
      /\ out'[outSize] = Trailer
      /\ \A o \in DOMAIN out : out'[o] = out[o]
  BY <1>1, SMTT(30) DEF WriteInv
<1>5. WriteInv'
  BY <1>1, <1>2, <1>3, <1>4, SMTT(30) DEF WriteInv, Lengths
<1>6. 0 \in DOMAIN out' \cup {outSize'}
  BY <1>4 DEF ExtractReadable
<1>7. ASSUME NEW o \in DOMAIN out', Regular(out'[o])
      PROVE  IF out'[o].type = "trailer" THEN Align(Align(EntryEnd(out'[o], o), 4), 512) = outSize'
             ELSE Align(EntryEnd(out'[o], o), 4) \in DOMAIN out'
  <2>1. CASE o = outSize
    BY <2>1, <1>1, <1>3, <1>4 DEF Trailer
  <2>2. CASE o # outSize
    <3>1. o \in DOMAIN out /\ out'[o] = out[o] /\ out[o].type # "trailer"
      BY <2>2, <1>1, <1>4 DEF WriteInv
    <3>2. Align(EntryEnd(out[o], o), 4) \in DOMAIN out \cup {outSize}
      BY <3>1, <1>1, <1>7 DEF ExtractReadable
    <3> QED BY <3>1, <3>2, <1>4
  <2> QED BY <2>1, <2>2
<1>8. ExtractReadable'
  BY <1>1, <1>6, <1>7 DEF ExtractReadable
<1> QED BY <1>5, <1>8

\* Of the steps of initrd-extract only those of write_cpio() touch the output.
LEMMA WriteStep ==
  ASSUME ExtractInv, [ExtractStep]_extractVars
  PROVE  WriteInv' /\ ExtractReadable'
<1> USE DEF ExtractInv
<1>1. CASE WriteEntry
  BY <1>1, WriteEntryKeeps
<1>2. CASE WriteTrailer
  BY <1>2, WriteTrailerKeeps
<1>3. CASE BootConfig \/ ReadNothing \/ OpenCpio \/ ReadEntry \/ CloseCpio \/ EndStream \/ NextCpio \/ UNCHANGED extractVars
  <2>1. UNCHANGED <<out, outSize>> /\ (xpc' = xpc \/ (xpc # "ok" /\ xpc' # "ok"))
    BY <1>3 DEF BootConfig, ReadNothing, OpenCpio, ReadEntry, CloseCpio, EndStream, NextCpio, ExtractFail, Parsing, extractVars
  <2> QED BY <2>1, ReaderSteps
<1>4. CASE Decompress
  <2>1. decompress(Here, Rest) \in {"ok", "fail", "hang"}
    BY DEF decompress, gunzip, unlzma, bunzip2, unzstd
  <2>2. UNCHANGED <<out, outSize>> /\ xpc # "ok" /\ xpc' # "ok"
    BY <1>4, <2>1 DEF Decompress, Parsing
  <2> QED BY <2>2, ReaderSteps
<1> QED BY <1>1, <1>2, <1>3, <1>4 DEF ExtractStep

\* For every image whose lengths are numbers, however many archives it has and
\* however long names and bodies are: what initrd-extract has written can be read
\* by read_cpio(), entry by entry up to the trailer.
THEOREM ExtractRoundTrip ==
  ASSUME NEW jobs, \A j \in jobs : ImageOK(j)
  PROVE  ExtractStart(jobs) /\ [][ExtractStep]_extractVars => []ExtractReadable
<1>1. ExtractStart(jobs) => ExtractInv
  BY SMTT(30) DEF ExtractStart, ExtractInv, ReadInv, WriteInv, ExtractReadable
<1>2. ExtractInv /\ [ExtractStep]_extractVars => ExtractInv'
  BY ReadStep, WriteStep DEF ExtractInv
<1>3. ExtractInv => ExtractReadable
  BY DEF ExtractInv
<1> QED BY <1>1, <1>2, <1>3, PTL

----------------------------------------------------------------------------
(* nfsmount *)

Procs == {"none", "nfsport", "mntport", "mnt", "umnt"}
Outside == {"opts", "socket", "lockd", "result", "done", "failed", "ok", "fail"}

Calls == [proc : Procs, phase : {"none", "send", "wait", "done", "fail"}, i : Nat, len : Nat]

\* The call at work is the one nfs_mount() waits for.
CallInv ==
  /\ rpc \in Calls
  /\ npc \in Outside \cup {"nfsport", "mntport", "mnt", "bail"}
  /\ npc \in Outside => rpc.phase = "none"
  /\ rpc.phase # "none" => rpc.proc = IF npc = "bail" THEN "umnt" ELSE npc

\* The handle: while nothing comes that is long enough for a status and too short
\* for a handle, neither is the room for the good reply.
Fits(len) == len = WHOLE \/ len < STATUS
HandleInv ==
  /\ npc \in {"socket", "lockd", "result"} => root # "stale" /\ (Intact => root = "handle")
  /\ "PROG_MISMATCH" \notin nfs.rejects => \A r \in reps : r.state # "PROG_MISMATCH"
  /\ npc = "mnt" /\ rpc.phase \in {"send", "wait"} => tcp = nfs.tcp
  /\ npc = "mnt" /\ rpc.phase \in {"send", "wait", "done"} /\ Intact /\ ~nfs.refuses => Fits(rpc.len)

\* What nfs_mount() knows of UMNT: only what the server did.
KnowInv ==
  /\ \A r \in reps : r.proc = "umnt" /\ r.state = "ok" => undone
  /\ rpc.proc = "umnt" /\ rpc.phase = "done" => undone
  /\ acked => undone
  /\ npc = "opts" => spoof = "none"
  /\ npc \in {"ok", "fail"} => spoof # "runs"

\* Over TCP, with a server that is up, a call is either on its way, or answered:
\* the server has noted the client only while nfs_mount() knows or will hear it.
Silent == reqs = {} /\ reps = {}
Asked(p) == reqs = {[proc |-> p]} /\ reps = {}
Answered(p) == reqs = {} /\ reps = {[proc |-> p, state |-> "ok"]}
ServerInv ==
  /\ npc \in {"opts", "nfsport", "mntport"} =>
       /\ ~rmtab /\ \A m \in reqs \cup reps : m.proc \in {"nfsport", "mntport"}
       /\ npc = "opts" => Silent
  /\ npc \in {"socket", "lockd", "result", "done", "ok"} => Silent /\ mounted
  /\ npc \in {"failed", "fail"} => Silent /\ ~rmtab
  /\ npc \in {"mnt", "bail"} /\ rpc.phase # "none" => tcp /\ rpc.phase # "fail"
  /\ npc = "mnt" /\ rpc.phase # "none" => rpc.len >= STATUS
  /\ npc = "mnt" =>
       /\ rpc.phase \in {"none", "send"} => Silent /\ ~rmtab
       /\ rpc.phase = "wait" => (Asked("mnt") /\ ~rmtab) \/ (Answered("mnt") /\ (rmtab => ~nfs.refuses))
       /\ rpc.phase = "done" => Silent /\ (rmtab => ~nfs.refuses)
  /\ npc = "bail" =>
       /\ rpc.phase \in {"none", "send"} => Silent /\ (rmtab => mounted)
       /\ rpc.phase = "wait" => Asked("umnt") \/ (Answered("umnt") /\ ~rmtab)
       /\ rpc.phase = "done" => Silent /\ ~rmtab

NfsInv == CallInv /\ HandleInv /\ KnowInv /\ (Reliable => ServerInv)

\* nfsmount as it starts.
LEMMA NfsInitial == NfsInit => NfsInv
<1> SUFFICES ASSUME NfsInit PROVE NfsInv
  OBVIOUS
<1>1. rpc = NoCall /\ npc = "opts" /\ reqs = {} /\ reps = {} /\ spoof = "none"
  BY DEF NfsInit
<1>2. acked = FALSE /\ rmtab = FALSE
  BY DEF NfsInit
<1>3. CallInv
  BY <1>1 DEF CallInv, Calls, NoCall, Procs, Outside
<1>4. KnowInv
  BY <1>1, <1>2 DEF KnowInv, NoCall
<1>5. ServerInv
  BY <1>1, <1>2 DEF ServerInv, Silent
<1>6. HandleInv
  BY <1>1 DEF HandleInv
<1> QED BY <1>3, <1>4, <1>5, <1>6 DEF NfsInv

\* The states of a call.
LEMMA CallStates ==
  ASSUME rpc \in Calls
  PROVE  /\ NoCall \in Calls /\ NoCall.phase = "none"
         /\ Failed \in Calls /\ Failed.phase = "fail" /\ Failed.proc = rpc.proc /\ Failed.len = rpc.len
         /\ \A p \in {"send", "wait", "done", "fail"} :
              /\ [rpc EXCEPT !.phase = p] \in Calls /\ [rpc EXCEPT !.phase = p].phase = p
              /\ [rpc EXCEPT !.phase = p].proc = rpc.proc /\ [rpc EXCEPT !.phase = p].len = rpc.len
         /\ \A p \in {"send", "wait"} :
              /\ Again(p) \in Calls /\ Again(p).phase \in {p, "fail"}
              /\ Again(p).proc = rpc.proc /\ Again(p).len = rpc.len
<1>1. NoCall \in Calls /\ NoCall.phase = "none"
  BY DEF Calls, NoCall, Procs
<1>2. \A p \in {"send", "wait", "done", "fail"} :
        /\ [rpc EXCEPT !.phase = p] \in Calls /\ [rpc EXCEPT !.phase = p].phase = p
        /\ [rpc EXCEPT !.phase = p].proc = rpc.proc /\ [rpc EXCEPT !.phase = p].len = rpc.len
  BY DEF Calls
<1>3. Failed \in Calls /\ Failed.phase = "fail" /\ Failed.proc = rpc.proc /\ Failed.len = rpc.len
  BY <1>2 DEF Failed
<1>4. ASSUME NEW p \in {"send", "wait"}
      PROVE  /\ Again(p) \in Calls /\ Again(p).phase \in {p, "fail"}
             /\ Again(p).proc = rpc.proc /\ Again(p).len = rpc.len
  <2> DEFINE c == [rpc EXCEPT !.i = @ + 1, !.phase = p]
  <2>1. c \in Calls /\ c.phase = p /\ c.proc = rpc.proc /\ c.len = rpc.len
    <3>1. rpc.i + 1 \in Nat
      BY SMTT(30) DEF Calls
    <3>2. c \in Calls
      BY <3>1 DEF Calls
    <3>3. c.phase = p /\ c.proc = rpc.proc /\ c.len = rpc.len
      BY <3>1 DEF Calls
    <3> QED BY <3>2, <3>3
  <2> HIDE DEF c
  <2>2. Again(p) = c \/ Again(p) = Failed
    BY DEF Again, c
  <2> QED BY <1>3, <2>1, <2>2
<1> QED BY <1>1, <1>2, <1>3, <1>4

LEMMA Connected ==
  ASSUME NEW p \in Procs, NEW overTcp, Connect(p, overTcp)
  PROVE  rpc' \in Calls /\ rpc'.proc = p /\ rpc'.phase = "send"
<1>1. reply_len(p) \in Nat
  BY SMTT(30) DEF reply_len, WHOLE, STATUS
<1> QED BY <1>1, SMTT(30) DEF Connect, Calls, Procs

\* What rpc_do_reply() does with the n words it reads of a reply.
Room(n) == IF n < HEADER \/ rpc.len < n THEN rpc.len ELSE n
RpcRead(r, n) ==
  /\ n \in Reads(r) /\ ToMountd(r.proc) = ToMountd(rpc.proc)
  /\ reps' \in {(reps \ {r}) \cup Left(r, n)} \cup IF tcp THEN {} ELSE {reps}
  /\ rpc' = IF n >= HEADER /\ Matches(r) /\ r.state = "ok" THEN [rpc EXCEPT !.len = Room(n), !.phase = "done"]
            ELSE IF tcp THEN Failed
            ELSE [Again("wait") EXCEPT !.len = Room(n)]
LEMMA ReadLengths ==
  ASSUME NEW r, NEW n, n \in Reads(r)
  PROVE  n \in Nat /\ Words(r) \in Nat /\ (nfs.whole \/ ~tcp => n = Words(r))
<1>1. Words(r) \in {HEADER - 1, HEADER, STATUS + 1, STATUS, WHOLE}
  BY DEF Words
<1>2. Words(r) \in Nat
  BY <1>1, SMTT(30) DEF HEADER, STATUS, WHOLE
<1>3. n \in Nat
  BY <1>2, SMTT(30) DEF Reads, HEADER
<1> QED BY <1>2, <1>3 DEF Reads
LEMMA RpcReads == RpcReply => \E r \in reps, n \in Nat : RpcRead(r, n)
<1> SUFFICES ASSUME RpcReply PROVE \E r \in reps, n \in Nat : RpcRead(r, n)
  OBVIOUS
<1>1. PICK r \in reps : \E n \in Reads(r) : RpcRead(r, n)
  BY DEF RpcReply, RpcRead, Room
<1>2. PICK n \in Reads(r) : RpcRead(r, n)
  BY <1>1
<1> QED BY <1>2, ReadLengths
LEMMA LeftBehind ==
  ASSUME NEW r, NEW n, RpcRead(r, n), NEW m \in reps'
  PROVE  m \in reps \/ (m.proc = r.proc /\ m.state = "rest")
<1>1. reps' \subseteq reps \cup Left(r, n)
  BY DEF RpcRead
<1>2. \A x \in Left(r, n) : x.proc = r.proc /\ x.state = "rest"
  BY SMTT(30) DEF Left
<1> QED BY <1>1, <1>2

\* rpc_call(), as far as the client can see.
LEMMA RpcKeepsCall ==
  ASSUME CallInv, RpcSend \/ RpcTimeout \/ RpcReply
  PROVE  CallInv' /\ rpc'.proc = rpc.proc /\ rpc.phase \in {"send", "wait"} /\ rpc'.phase # "none"
<1>1. rpc \in Calls /\ UNCHANGED npc
  BY DEF CallInv, RpcSend, RpcTimeout, RpcReply
<1>2. rpc.phase \in {"send", "wait"}
  BY DEF RpcSend, RpcTimeout, RpcReply
<1>3. rpc' \in Calls /\ rpc'.proc = rpc.proc /\ rpc'.phase # "none"
  <2>1. CASE RpcSend
    BY <1>1, <2>1, CallStates DEF RpcSend
  <2>2. CASE RpcTimeout
    <3>1. rpc' = Failed \/ rpc' = Again("send") \/ rpc' = Again("wait")
      BY <2>2 DEF RpcTimeout
    <3> QED BY <1>1, <3>1, CallStates
  <2>3. CASE RpcReply
    <3>1. PICK r \in reps, n \in Nat : RpcRead(r, n)
      BY <2>3, RpcReads
    <3> DEFINE len == Room(n)
    <3>2. len \in Nat
      BY <1>1, <3>1 DEF Room, Calls
    <3>0. \/ rpc' = [rpc EXCEPT !.len = len, !.phase = "done"]
          \/ rpc' = Failed \/ rpc' = [Again("wait") EXCEPT !.len = len]
      BY <3>1 DEF RpcRead
    <3> HIDE DEF len
    <3>3. CASE rpc' = [rpc EXCEPT !.len = len, !.phase = "done"]
      BY <1>1, <3>2, <3>3 DEF Calls
    <3>4. CASE rpc' = Failed
      BY <1>1, <3>4, CallStates
    <3>5. CASE rpc' = [Again("wait") EXCEPT !.len = len]
      <4> DEFINE a == Again("wait")
      <4>1. a \in Calls /\ a.phase # "none" /\ a.proc = rpc.proc
        BY <1>1, CallStates
      <4> HIDE DEF a
      <4>2. rpc' = [a EXCEPT !.len = len]
        BY <3>5 DEF a
      <4> QED BY <3>2, <4>1, <4>2 DEF Calls
    <3> QED BY <3>0, <3>3, <3>4, <3>5
  <2> QED BY <2>1, <2>2, <2>3
<1>4. npc \notin Outside
  BY <1>2 DEF CallInv
<1> QED BY <1>1, <1>2, <1>3, <1>4 DEF CallInv, Calls

\* A call begins where it is waited for, and is over when nfs_mount() goes on.
LEMMA ClientKeepsCall ==
  ASSUME CallInv, NfsStep, ~(RpcSend \/ RpcTimeout \/ RpcReply)
  PROVE  CallInv'
<1> USE DEF CallInv, Calls
<1>1. CASE Serve \/ DummyPortmap
  BY <1>1 DEF Serve, DummyPortmap
<1>2. CASE ParseOptions \/ TearDown
  BY <1>2 DEF ParseOptions, StartSpoof, TearDown, Outside
<1>3. ASSUME NEW p \in {"nfsport", "mntport"}, CallPortmap(p) PROVE CallInv'
  <2>1. npc = p /\ rpc.phase = "none" /\ p \in Procs
    BY <1>3 DEF CallPortmap, Asking, Procs
  <2>2. CASE npc' = "mntport" /\ UNCHANGED rpc
    BY <2>1, <2>2 DEF Outside
  <2>3. CASE Connect(p, nfs.pmaptcp) /\ UNCHANGED npc
    BY <1>3, <2>1, <2>3, Connected DEF Outside
  <2> QED BY <1>3, <2>2, <2>3 DEF CallPortmap
<1>4. CASE PortmapDone
  BY <1>4 DEF PortmapDone, NoCall, Procs, Outside
<1>5. CASE CallMount
  <2>1. npc = "mnt" /\ npc' \in {"mnt", "failed"}
    BY <1>5 DEF CallMount, Asking
  <2>2. CASE rpc' = [Failed EXCEPT !.proc = "mnt"] /\ UNCHANGED npc
    <3>1. Failed \in Calls /\ Failed.phase = "fail"
      BY CallStates
    <3> HIDE DEF Failed
    <3>2. rpc' \in Calls /\ rpc'.proc = "mnt"
      BY <2>2, <3>1 DEF Calls, Procs
    <3> QED BY <2>1, <2>2, <3>2 DEF Calls, Outside
  <2>3. CASE UNCHANGED <<rpc, npc>> \/ (npc' = "failed" /\ UNCHANGED rpc)
    BY <1>5, <2>1, <2>3 DEF CallMount, Asking, Outside
  <2>4. CASE Connect("mnt", nfs.tcp) /\ UNCHANGED npc
    BY <2>1, <2>4, Connected DEF Procs, Outside
  <2> QED BY <1>5, <2>2, <2>3, <2>4 DEF CallMount
<1>6. CASE MountDone \/ BailDone
  BY <1>6, SMTT(30) DEF MountDone, BailDone, NoCall, Procs, Outside
<1>7. CASE MountSyscall \/ MountReturns
  BY <1>7 DEF MountSyscall, MountReturns, Outside
<1>8. CASE Bail
  <2>1. npc = "bail" /\ rpc.phase = "none"
    BY <1>8 DEF Bail, Asking
  <2>2. CASE Connect("umnt", nfs.tcp) /\ UNCHANGED npc
    BY <2>1, <2>2, Connected DEF Procs, Outside
  <2>3. CASE npc' = "failed" /\ UNCHANGED rpc
    BY <2>1, <2>3 DEF Outside
  <2> QED BY <1>8, <2>2, <2>3 DEF Bail
<1> QED BY <1>1, <1>2, <1>3, <1>4, <1>5, <1>6, <1>7, <1>8 DEF NfsStep, Client

\* What the server does with a request.
Reply(q, state) ==
  /\ reps' \in {reps \cup {[proc |-> q.proc, state |-> state]}, reps}
  /\ undone' = (undone \/ (q.proc = "umnt" /\ state \in {"ok", "frag"}))
LEMMA Replies == Serve => \E q \in reqs : \E state \in {"ok"} \cup nfs.rejects \cup {"frag"} : Reply(q, state)
BY DEF Serve, Reply

\* A bad reply ends no call with success.
LEMMA BadReply ==
  ASSUME rpc \in Calls, NEW r, NEW n, RpcRead(r, n),
         ~(n >= HEADER /\ Matches(r) /\ r.state = "ok")
  PROVE  /\ rpc'.phase \in {"wait", "fail"} /\ (tcp => rpc'.phase = "fail")
         /\ rpc'.phase = "wait" => rpc'.len = Room(n)
<1> DEFINE a == Again("wait")
<1>1. a \in Calls /\ a.phase \in {"wait", "fail"} /\ Failed.phase = "fail"
  BY CallStates
<1>2. rpc' = IF tcp THEN Failed ELSE [a EXCEPT !.len = Room(n)]
  BY DEF RpcRead
<1> HIDE DEF a
<1>3. [a EXCEPT !.len = Room(n)].phase = a.phase /\ [a EXCEPT !.len = Room(n)].len = Room(n)
  BY <1>1 DEF Calls
<1> QED BY <1>1, <1>2, <1>3

\* UMNT and the dummy portmapper.
LEMMA KnowKeeps ==
  ASSUME CallInv, KnowInv, NfsStep
  PROVE  KnowInv'
<1>1. CASE ParseOptions
  BY <1>1 DEF ParseOptions, StartSpoof, KnowInv, netVars, cliVars
<1>2. CASE TearDown
  BY <1>2 DEF TearDown, KnowInv, netVars, cliVars
<1>3. CASE RpcSend
  <2>1. rpc'.phase # "done" /\ UNCHANGED <<npc, reps, undone, cliVars, spoof>>
    BY <1>3, CallStates DEF RpcSend, CallInv, pmVars
  <2> QED BY <2>1 DEF KnowInv, cliVars
<1>4. CASE RpcTimeout
  <2>1. rpc'.phase # "done" /\ UNCHANGED <<npc, netVars, cliVars, spoof>>
    BY <1>4, CallStates DEF RpcTimeout, CallInv, pmVars
  <2> QED BY <2>1 DEF KnowInv, netVars, cliVars
<1>5. CASE RpcReply
  <2>1. UNCHANGED <<npc, undone, root, acked, spoof>> /\ rpc'.proc = rpc.proc
    BY <1>5, RpcKeepsCall DEF RpcReply, cliVars, pmVars
  <2>2. PICK r \in reps, n \in Nat : RpcRead(r, n)
    BY <1>5, RpcReads
  <2>3. rpc.proc = "umnt" /\ rpc'.phase = "done" => undone
    <3>1. CASE Matches(r) /\ r.state = "ok"
      BY <3>1 DEF KnowInv, Matches
    <3>2. CASE ~(Matches(r) /\ r.state = "ok")
      BY <2>2, <3>2, BadReply DEF CallInv
    <3> QED BY <3>1, <3>2
  <2>4. \A m \in reps' : m.proc = "umnt" /\ m.state = "ok" => undone
    <3>1. "rest" # "ok"
      BY SMTT(30)
    <3> QED BY <2>2, <3>1, LeftBehind DEF KnowInv
  <2> QED BY <2>1, <2>3, <2>4 DEF KnowInv
<1>6. ASSUME NEW p \in {"nfsport", "mntport"}, CallPortmap(p) PROVE KnowInv'
  BY <1>6, SMTT(30) DEF CallPortmap, Asking, Connect, KnowInv, netVars, cliVars, pmVars
<1>7. CASE PortmapDone
  BY <1>7 DEF PortmapDone, Dropped, NoCall, KnowInv, pmVars
<1>8. CASE CallMount
  <2>1. UNCHANGED <<netVars, cliVars, pmVars>> /\ npc' \in {"mnt", "failed"} /\ npc = "mnt"
    BY <1>8 DEF CallMount, Asking
  <2>2. rpc'.phase = "done" /\ rpc'.proc = "umnt" => rpc' = rpc
    <3>1. Failed \in Calls
      BY CallStates DEF CallInv
    <3> HIDE DEF Failed
    <3>2. [Failed EXCEPT !.proc = "mnt"].proc = "mnt"
      BY <3>1 DEF Calls
    <3>3. CASE rpc' = [Failed EXCEPT !.proc = "mnt"]
      BY <3>2, <3>3
    <3>4. CASE Connect("mnt", nfs.tcp)
      BY <3>4 DEF Connect
    <3> QED BY <1>8, <3>3, <3>4 DEF CallMount
  <2> QED BY <2>1, <2>2 DEF KnowInv, netVars, cliVars, pmVars
<1>9. CASE MountDone
  BY <1>9 DEF MountDone, NoCall, KnowInv, netVars, pmVars
<1>10. CASE MountSyscall \/ MountReturns
  <2>1. npc' \in {"bail", "lockd", "result", "done"} /\ UNCHANGED <<rpc, netVars, cliVars, pmVars>>
    BY <1>10 DEF MountSyscall, MountReturns
  <2> QED BY <2>1 DEF KnowInv, netVars, cliVars, pmVars
<1>11. CASE Bail
  BY <1>11, SMTT(30) DEF Bail, Asking, Connect, KnowInv, netVars, cliVars, pmVars
<1>12. CASE BailDone
  <2>1. rpc.proc = "umnt"
    BY <1>12 DEF BailDone, CallInv
  <2> QED BY <1>12, <2>1 DEF BailDone, NoCall, KnowInv, netVars, pmVars
<1>13. CASE Serve
  <2>1. UNCHANGED <<npc, rpc, root, acked, spoof>>
    BY <1>13 DEF Serve, cliVars, pmVars
  <2>2. PICK q \in reqs : \E state \in {"ok"} \cup nfs.rejects \cup {"frag"} : Reply(q, state)
    BY <1>13, Replies
  <2>3. PICK state \in {"ok"} \cup nfs.rejects \cup {"frag"} : Reply(q, state)
    BY <2>2
  <2>4. (undone => undone') /\ (q.proc = "umnt" /\ state = "ok" => undone')
    BY <2>3 DEF Reply
  <2>5. \A r \in reps' : r.proc = "umnt" /\ r.state = "ok" => undone'
    <3> SUFFICES ASSUME NEW r \in reps', r.proc = "umnt", r.state = "ok" PROVE undone'
      OBVIOUS
    <3>1. r \in reps \/ (r.proc = q.proc /\ r.state = state)
      BY <2>3, SMTT(30) DEF Reply
    <3> QED BY <2>4, <3>1 DEF KnowInv
  <2> QED BY <2>1, <2>4, <2>5 DEF KnowInv
<1>14. CASE DummyPortmap
  BY <1>14 DEF DummyPortmap, KnowInv, netVars, cliVars
<1> QED BY <1>1, <1>2, <1>3, <1>4, <1>5, <1>6, <1>7, <1>8, <1>9, <1>10, <1>11, <1>12, <1>13, <1>14 DEF NfsStep, Client

\* The handle: of all steps only replies and what waits for them matter.
LEMMA HandleKeeps ==
  ASSUME CallInv, HandleInv, NfsStep
  PROVE  HandleInv'
<1>r. nfs' = nfs /\ Intact' = Intact
  BY DEF nfs, Intact, NfsStep, Client, ParseOptions, TearDown, RpcSend, RpcTimeout, RpcReply, CallPortmap,
         PortmapDone, CallMount, MountDone, MountSyscall, MountReturns, Bail, BailDone, Serve, DummyPortmap
<1>1. CASE ParseOptions \/ TearDown \/ CallPortmap("nfsport") \/ CallPortmap("mntport") \/ Bail \/ BailDone
  <2>1. UNCHANGED reps /\ npc' \in {"fail", "ok", "nfsport", "mntport", "bail", "failed"}
    BY <1>1 DEF ParseOptions, StartSpoof, TearDown, CallPortmap, Asking, Bail, BailDone, netVars
  <2> QED BY <1>r, <2>1 DEF HandleInv
<1>2. CASE PortmapDone
  <2>1. reps' \subseteq reps /\ npc' \in {"failed", "mntport", "mnt"} /\ rpc'.phase = "none"
    BY <1>2 DEF PortmapDone, Dropped, NoCall
  <2> QED BY <1>r, <2>1 DEF HandleInv
<1>3. CASE RpcSend
  <2>1. UNCHANGED <<npc, tcp, reps, root>> /\ rpc.phase = "send" /\ rpc'.len = rpc.len /\ rpc'.phase \in {"wait", "fail"}
    BY <1>3, CallStates DEF RpcSend, CallInv, cliVars
  <2> QED BY <1>r, <2>1 DEF HandleInv
<1>4. CASE RpcTimeout
  <2>1. UNCHANGED <<npc, tcp, reps, root>> /\ rpc.phase = "wait"
    BY <1>4 DEF RpcTimeout, netVars, cliVars
  <2>2. rpc'.len = rpc.len /\ rpc'.phase \in {"send", "wait", "fail"}
    <3>1. rpc' = Failed \/ rpc' = Again("send") \/ rpc' = Again("wait")
      BY <1>4 DEF RpcTimeout
    <3> QED BY <3>1, CallStates DEF CallInv
  <2> QED BY <1>r, <2>1, <2>2 DEF HandleInv
<1>5. CASE RpcReply
  <2>1. UNCHANGED <<npc, tcp, root>> /\ rpc.phase = "wait" /\ npc \notin {"socket", "lockd", "result"}
    BY <1>5 DEF RpcReply, cliVars, CallInv, Outside
  <2>2. PICK r \in reps, n \in Nat : RpcRead(r, n)
    BY <1>5, RpcReads
  <2>3. "PROG_MISMATCH" \notin nfs.rejects => \A m \in reps' : m.state # "PROG_MISMATCH"
    <3>1. "rest" # "PROG_MISMATCH"
      BY SMTT(30)
    <3> QED BY <2>2, <3>1, LeftBehind DEF HandleInv
  <2>4. ASSUME npc = "mnt", rpc'.phase \in {"send", "wait", "done"}, Intact, ~nfs.refuses
        PROVE  Fits(rpc'.len)
    <3>1. rpc.proc = "mnt" /\ tcp = nfs.tcp /\ Fits(rpc.len) /\ rpc.len \in Nat /\ n \in Nat
      BY <2>1, <2>2, <2>4 DEF CallInv, HandleInv, Calls
    <3>2. r.proc \in {"mnt", "umnt"} /\ n = Words(r)
      <4>1. ToMountd(rpc.proc) /\ (nfs.whole \/ ~tcp)
        BY <2>4, <3>1 DEF ToMountd, Intact
      <4> QED BY <2>2, <4>1, ReadLengths DEF RpcRead, ToMountd
    <3>3. CASE r.state = "PROG_MISMATCH"
      <4>1. tcp
        BY <2>4, <3>1, <3>3 DEF HandleInv, Intact
      <4>2. r.state # "ok"
        BY <3>3, SMTT(30)
      <4> QED BY <2>2, <2>4, <4>1, <4>2, BadReply DEF CallInv
    <3>4. CASE r.state # "PROG_MISMATCH"
      <4>1. n \in {HEADER - 1, HEADER, WHOLE}
        BY <2>4, <3>2, <3>4, SMTT(30) DEF Words
      <4>2. Fits(Room(n))
        BY <3>1, <4>1, SMTT(30) DEF Fits, Room, HEADER, STATUS, WHOLE
      <4>3. CASE n >= HEADER /\ Matches(r) /\ r.state = "ok"
        <5>1. rpc' = [rpc EXCEPT !.len = Room(n), !.phase = "done"]
          BY <2>2, <4>3 DEF RpcRead
        <5>2. rpc'.len = Room(n)
          BY <5>1 DEF CallInv, Calls
        <5> QED BY <4>2, <5>2
      <4>4. CASE ~(n >= HEADER /\ Matches(r) /\ r.state = "ok")
        BY <2>2, <2>4, <4>2, <4>4, BadReply DEF CallInv
      <4> QED BY <4>3, <4>4
    <3> QED BY <3>3, <3>4
  <2> QED BY <1>r, <2>1, <2>3, <2>4 DEF HandleInv
<1>6. CASE CallMount
  <2>1. UNCHANGED <<reps, root>> /\ npc = "mnt" /\ npc' \in {"mnt", "failed"} /\ rpc.phase = "none"
    BY <1>6 DEF CallMount, Asking, netVars, cliVars
  <2>2. CASE Connect("mnt", nfs.tcp) /\ UNCHANGED npc
    <3>1. rpc'.phase = "send" /\ rpc'.len = WHOLE /\ tcp' = nfs.tcp
      BY <2>2 DEF Connect, reply_len, ToMountd
    <3> QED BY <1>r, <2>1, <2>2, <3>1 DEF HandleInv, Fits
  <2>3. CASE rpc' = [Failed EXCEPT !.proc = "mnt"] \/ UNCHANGED rpc
    <3>1. Failed \in Calls /\ Failed.phase = "fail"
      BY CallStates DEF CallInv
    <3> HIDE DEF Failed
    <3>2. [Failed EXCEPT !.proc = "mnt"].phase = "fail"
      BY <3>1 DEF Calls
    <3>3. rpc'.phase \in {"fail", "none"}
      BY <2>1, <2>3, <3>2
    <3> QED BY <1>r, <2>1, <3>3 DEF HandleInv
  <2> QED BY <1>6, <2>2, <2>3 DEF CallMount
<1>7. CASE MountDone
  <2>1. UNCHANGED reps /\ npc = "mnt" /\ npc' \in {"socket", "bail"} /\ rpc'.phase = "none"
    BY <1>7 DEF MountDone, netVars, NoCall
  <2>2. ASSUME npc' = "socket" PROVE root' # "stale" /\ (Intact => root' = "handle")
    <3>1. /\ rpc.phase = "done" /\ rpc.len >= STATUS /\ ~nfs.refuses
          /\ root' = IF rpc.len = WHOLE THEN "handle" ELSE IF rpc.len >= STATUS THEN "garbage" ELSE "stale"
      BY <1>7, <2>2 DEF MountDone, Complete
    <3>2. root' \in {"handle", "garbage"} /\ (rpc.len = WHOLE => root' = "handle")
      BY <3>1
    <3>3. Intact => rpc.len = WHOLE
      <4>1. Intact => Fits(rpc.len)
        BY <2>1, <3>1 DEF HandleInv
      <4>2. rpc.len \in Nat
        BY DEF CallInv, Calls
      <4> QED BY <3>1, <4>1, <4>2, SMTT(30) DEF Fits, STATUS
    <3> QED BY <3>2, <3>3
  <2> QED BY <1>r, <2>1, <2>2 DEF HandleInv
<1>8. CASE MountSyscall \/ MountReturns
  <2>1. UNCHANGED <<reps, root>> /\ npc \in {"socket", "lockd", "result"}
    BY <1>8 DEF MountSyscall, MountReturns, netVars, cliVars
  <2>2. npc' \in {"bail", "lockd", "result", "done"}
    BY <1>8 DEF MountSyscall, MountReturns
  <2> QED BY <1>r, <2>1, <2>2 DEF HandleInv
<1>9. CASE Serve
  <2>1. UNCHANGED <<npc, rpc, tcp, root>>
    BY <1>9 DEF Serve, cliVars
  <2>2. PICK q \in reqs : \E state \in {"ok"} \cup nfs.rejects \cup {"frag"} : Reply(q, state)
    BY <1>9, Replies
  <2>3. PICK state \in {"ok"} \cup nfs.rejects \cup {"frag"} : Reply(q, state)
    BY <2>2
  <2>4. "PROG_MISMATCH" \notin nfs.rejects => \A r \in reps' : r.state # "PROG_MISMATCH"
    <3>1. \A r \in reps' : r \in reps \/ r.state = state
      BY <2>3, SMTT(30) DEF Reply
    <3>2. "ok" # "PROG_MISMATCH" /\ "frag" # "PROG_MISMATCH"
      BY SMTT(30)
    <3> QED BY <3>1, <3>2 DEF HandleInv
  <2> QED BY <1>r, <2>1, <2>4 DEF HandleInv
<1>10. CASE DummyPortmap
  BY <1>r, <1>10 DEF DummyPortmap, HandleInv, netVars, cliVars
<1> QED BY <1>1, <1>2, <1>3, <1>4, <1>5, <1>6, <1>7, <1>8, <1>9, <1>10 DEF NfsStep, Client

\* The server's side, over TCP and with a server that is up.
LEMMA ServerKeeps ==
  ASSUME CallInv, Reliable, ServerInv, NfsStep
  PROVE  ServerInv'
<1>r. nfs.tcp /\ nfs.whole /\ ~nfs.breaks /\ nfs.rejects = {} /\ nfs' = nfs
  BY DEF Reliable, nfs, NfsStep, Client, ParseOptions, TearDown, RpcSend, RpcTimeout, RpcReply, CallPortmap,
         PortmapDone, CallMount, MountDone, MountSyscall, MountReturns, Bail, BailDone, Serve, DummyPortmap
<1>1. CASE ParseOptions
  BY <1>1 DEF ParseOptions, StartSpoof, ServerInv, Silent, netVars, cliVars
<1>2. CASE TearDown
  BY <1>2 DEF TearDown, ServerInv, Silent, netVars, cliVars
<1>3. CASE RpcSend
  <2>1. rpc'.len = rpc.len /\ rpc.phase = "send" /\ UNCHANGED <<npc, tcp, reps, rmtab, mounted>>
    BY <1>3, CallStates DEF RpcSend, CallInv, cliVars
  <2>2. reqs' = reqs \cup {[proc |-> rpc.proc]} \/ reqs' = reqs
    BY <1>3 DEF RpcSend
  <2>3. CASE npc \in {"nfsport", "mntport"}
    <3>1. rpc.proc = npc
      BY <2>1, <2>3 DEF CallInv
    <3>2. \A m \in reqs' : m.proc \in {"nfsport", "mntport"}
      BY <2>2, <2>3, <3>1, SMTT(30) DEF ServerInv
    <3> QED BY <2>1, <2>3, <3>2 DEF ServerInv
  <2>4. CASE npc \in {"mnt", "bail"}
    <3>1. tcp /\ Silent /\ rpc.proc = IF npc = "bail" THEN "umnt" ELSE "mnt"
      BY <2>1, <2>4 DEF ServerInv, CallInv
    <3>2. reqs' = reqs \cup {[proc |-> rpc.proc]} /\ rpc' = [rpc EXCEPT !.phase = "wait"]
      BY <1>3, <1>r, <3>1 DEF RpcSend
    <3>3. rpc'.phase = "wait"
      BY <3>2, CallStates DEF CallInv
    <3>4. npc = "mnt" => ~rmtab /\ rpc.len >= STATUS
      BY <2>1 DEF ServerInv
    <3>5. Asked(IF npc = "bail" THEN "umnt" ELSE "mnt")'
      BY <2>1, <3>1, <3>2 DEF Asked, Silent
    <3> QED BY <2>1, <2>4, <3>1, <3>3, <3>4, <3>5 DEF ServerInv
  <2> QED BY <2>1, <2>3, <2>4 DEF CallInv, Outside
<1>4. CASE RpcTimeout
  <2>1. npc \in {"nfsport", "mntport"}
    BY <1>4, <1>r DEF RpcTimeout, CallInv, ServerInv, Outside
  <2> QED BY <1>4, <2>1 DEF RpcTimeout, ServerInv, netVars
<1>5. CASE RpcReply
  <2>1. UNCHANGED <<npc, tcp, reqs, rmtab, mounted>> /\ rpc.phase = "wait"
    BY <1>5 DEF RpcReply, cliVars
  <2>2. CASE npc \in {"nfsport", "mntport"}
    <3>1. PICK r \in reps, n \in Nat : RpcRead(r, n)
      BY <1>5, RpcReads
    <3>2. \A m \in reps' : m.proc \in {"nfsport", "mntport"}
      BY <2>2, <3>1, LeftBehind DEF ServerInv
    <3> QED BY <2>1, <2>2, <3>2 DEF ServerInv
  <2>3. CASE npc \in {"mnt", "bail"}
    <3> DEFINE p == IF npc = "bail" THEN "umnt" ELSE "mnt"
    <3>1. tcp /\ rpc.proc = p /\ (npc = "mnt" => rpc.len >= STATUS)
      BY <2>1, <2>3 DEF CallInv, ServerInv
    <3>2. PICK r \in reps, n \in Nat : RpcRead(r, n)
      BY <1>5, RpcReads
    <3>3. Answered(p)
      BY <2>1, <2>3, <3>2 DEF ServerInv, Asked, Answered
    <3>4. r = [proc |-> p, state |-> "ok"] /\ reqs = {}
      BY <3>2, <3>3 DEF Answered
    <3>5. r.proc = p /\ r.state = "ok"
      BY <3>4
    <3>6. n = Words(r)
      BY <1>r, <3>2, ReadLengths DEF RpcRead
    <3>7. n \in Nat /\ n >= HEADER /\ (npc = "mnt" => n >= STATUS)
      <4>1. n \in IF npc = "bail" THEN {HEADER} ELSE {STATUS, WHOLE}
        BY <3>5, <3>6, SMTT(30) DEF Words
      <4> QED BY <4>1, SMTT(30) DEF HEADER, STATUS, WHOLE
    <3>8. reps' = {}
      <4>1. Left(r, n) = {}
        BY <3>6, <3>7, SMTT(30) DEF Left
      <4> QED BY <3>1, <3>2, <3>3, <4>1 DEF RpcRead, Answered
    <3>9. rpc' = [rpc EXCEPT !.len = Room(n), !.phase = "done"]
      BY <3>1, <3>2, <3>5, <3>7 DEF RpcRead, Matches
    <3>10. rpc'.len = Room(n) /\ rpc'.phase = "done"
      BY <3>9 DEF CallInv, Calls
    <3>11. npc = "mnt" => rpc'.len >= STATUS
      BY <3>1, <3>7, <3>10, SMTT(30) DEF Room, CallInv, Calls
    <3>12. IF npc = "mnt" THEN rmtab => ~nfs.refuses ELSE ~rmtab
      BY <2>1, <2>3, <3>2 DEF ServerInv, Asked
    <3> QED BY <1>r, <2>1, <2>3, <3>1, <3>4, <3>8, <3>10, <3>11, <3>12 DEF ServerInv, Silent
  <2> QED BY <2>1, <2>2, <2>3 DEF CallInv, Outside
<1>6. ASSUME NEW p \in {"nfsport", "mntport"}, CallPortmap(p) PROVE ServerInv'
  BY <1>6 DEF CallPortmap, Asking, ServerInv, netVars
<1>7. CASE PortmapDone
  <2>1. reqs' = {} /\ reps' = {} /\ UNCHANGED <<rmtab, mounted>> /\ ~rmtab
    BY <1>7 DEF PortmapDone, Dropped, ToMountd, ServerInv
  <2>2. npc' \in {"failed", "mntport", "mnt"} /\ rpc'.phase = "none"
    BY <1>7 DEF PortmapDone, NoCall
  <2> QED BY <2>1, <2>2 DEF ServerInv, Silent
<1>8. CASE CallMount
  <2>1. UNCHANGED <<netVars, mounted>> /\ npc = "mnt" /\ Silent /\ ~rmtab
    BY <1>8 DEF CallMount, Asking, ServerInv, cliVars
  <2>2. CASE Connect("mnt", nfs.tcp) /\ UNCHANGED npc
    <3>1. rpc'.phase = "send" /\ rpc'.len = WHOLE /\ WHOLE >= STATUS /\ tcp'
      BY <1>r, <2>2, SMTT(30) DEF Connect, reply_len, ToMountd, WHOLE, STATUS
    <3> QED BY <2>1, <2>2, <3>1 DEF ServerInv, Silent, netVars
  <2>3. CASE npc' = "failed" /\ UNCHANGED rpc
    BY <2>1, <2>3 DEF ServerInv, Silent, netVars
  <2> QED BY <1>8, <1>r, <2>2, <2>3 DEF CallMount
<1>9. CASE MountDone
  <2>1. rpc.phase = "done" /\ rpc.len >= STATUS /\ Silent /\ (rmtab => ~nfs.refuses)
    BY <1>9 DEF MountDone, ServerInv
  <2>2. UNCHANGED netVars /\ rpc'.phase = "none"
    BY <1>9 DEF MountDone, NoCall
  <2>3. CASE ~nfs.refuses
    <3>1. npc' = "socket" /\ mounted'
      BY <1>9, <2>1, <2>3 DEF MountDone, Complete
    <3> QED BY <2>1, <2>2, <3>1 DEF ServerInv, Silent, netVars
  <2>4. CASE nfs.refuses
    <3>1. npc' = "bail"
      BY <1>9, <2>1, <2>4 DEF MountDone
    <3> QED BY <2>1, <2>2, <2>4, <3>1 DEF ServerInv, Silent, netVars
  <2> QED BY <2>3, <2>4
<1>10. CASE MountSyscall \/ MountReturns
  <2>1. UNCHANGED <<netVars, mounted, rpc, tcp>> /\ Silent /\ mounted /\ rpc.phase = "none"
    BY <1>10 DEF MountSyscall, MountReturns, ServerInv, CallInv, Outside, cliVars
  <2>2. npc' \in {"bail", "lockd", "result", "done"}
    BY <1>10 DEF MountSyscall, MountReturns
  <2> QED BY <2>1, <2>2 DEF ServerInv, Silent, netVars
<1>11. CASE Bail
  <2>1. UNCHANGED <<netVars, mounted>> /\ npc = "bail" /\ Silent /\ (rmtab => mounted)
    BY <1>11 DEF Bail, Asking, ServerInv, cliVars
  <2>2. CASE mounted
    <3>0. npc' = npc /\ Connect("umnt", nfs.tcp)
      BY <1>11, <2>2 DEF Bail
    <3>1. npc' = npc /\ tcp' /\ rpc'.phase = "send"
      BY <1>r, <3>0, SMTT(30) DEF Connect
    <3> QED BY <2>1, <2>2, <3>1 DEF ServerInv, Silent, netVars
  <2>3. CASE ~mounted
    <3>1. npc' = "failed"
      BY <1>11, <2>3 DEF Bail
    <3> QED BY <2>1, <2>3, <3>1 DEF ServerInv, Silent, netVars
  <2> QED BY <2>2, <2>3
<1>12. CASE BailDone
  <2>1. Silent /\ ~rmtab
    BY <1>12 DEF BailDone, ServerInv
  <2> QED BY <1>12, <2>1 DEF BailDone, ServerInv, Silent, netVars
<1>13. CASE Serve
  <2>1. UNCHANGED <<npc, rpc, tcp, mounted>>
    BY <1>13 DEF Serve, cliVars
  <2>2. PICK q \in reqs :
          LET r == [proc |-> q.proc, state |-> "ok"]
          IN /\ reqs' \subseteq reqs /\ (tcp => reqs' = reqs \ {q})
             /\ reps' \in {reps \cup {r}, reps} /\ (tcp => reps' = reps \cup {r})
             /\ rmtab' = CASE q.proc = "mnt" -> rmtab \/ ~nfs.refuses [] q.proc = "umnt" -> FALSE [] OTHER -> rmtab
    BY <1>13, <1>r DEF Serve
  <2>3. CASE npc \in {"nfsport", "mntport"}
    <3>1. q.proc \in {"nfsport", "mntport"} /\ ~rmtab
      BY <2>3 DEF ServerInv
    <3>2. ~rmtab' /\ \A m \in reqs' \cup reps' : m.proc \in {"nfsport", "mntport"}
      BY <2>2, <2>3, <3>1, SMTT(30) DEF ServerInv
    <3> QED BY <2>1, <2>3, <3>2 DEF ServerInv
  <2>4. CASE npc \in {"mnt", "bail"}
    <3> DEFINE p == IF npc = "bail" THEN "umnt" ELSE "mnt"
    <3>1. rpc.phase = "wait" /\ Asked(p) /\ tcp
      <4>1. rpc.phase \in {"none", "send", "wait", "done", "fail"} /\ reqs # {}
        BY <2>2 DEF CallInv, Calls
      <4> QED BY <2>4, <4>1 DEF ServerInv, Silent, Answered
    <3>2. q = [proc |-> p] /\ reqs' = {} /\ reps' = {[proc |-> p, state |-> "ok"]}
      BY <2>2, <3>1, SMTT(30) DEF Asked
    <3>3. CASE npc = "mnt"
      <4>1. ~rmtab /\ q.proc = "mnt"
        BY <3>1, <3>2, <3>3 DEF ServerInv, Answered
      <4>2. rmtab' => ~nfs.refuses
        BY <2>2, <4>1
      <4> QED BY <1>r, <2>1, <3>1, <3>2, <3>3, <4>2 DEF ServerInv, Answered
    <3>4. CASE npc = "bail"
      <4>1. q.proc = "umnt"
        BY <3>2, <3>4
      <4>2. ~rmtab'
        BY <2>2, <4>1
      <4> QED BY <2>1, <3>1, <3>2, <3>4, <4>2 DEF ServerInv, Answered
    <3> QED BY <2>4, <3>3, <3>4
  <2>5. CASE npc \notin {"nfsport", "mntport", "mnt", "bail"}
    BY <2>2, <2>5 DEF ServerInv, Silent, CallInv, Outside
  <2> QED BY <2>3, <2>4, <2>5
<1>14. CASE DummyPortmap
  BY <1>14 DEF DummyPortmap, ServerInv, Silent, netVars, cliVars
<1> QED BY <1>1, <1>2, <1>3, <1>4, <1>5, <1>6, <1>7, <1>8, <1>9, <1>10, <1>11, <1>12, <1>13, <1>14 DEF NfsStep, Client

\* Every step of nfsmount, of the server and of the dummy portmapper.
LEMMA NfsStepKeeps == NfsInv /\ [NfsStep]_nfsVars => NfsInv'
<1> SUFFICES ASSUME NfsInv, [NfsStep]_nfsVars PROVE NfsInv'
  OBVIOUS
<1>1. CASE NfsStep
  <2>1. CallInv' /\ HandleInv' /\ KnowInv'
    BY <1>1, RpcKeepsCall, ClientKeepsCall, HandleKeeps, KnowKeeps DEF NfsInv
  <2>2. UNCHANGED nfsJob
    BY <1>1 DEF NfsStep, Client, ParseOptions, TearDown, RpcSend, RpcTimeout, RpcReply, CallPortmap, PortmapDone,
                CallMount, MountDone, MountSyscall, MountReturns, Bail, BailDone, Serve, DummyPortmap
  <2>3. Reliable' => Reliable
    BY <2>2 DEF Reliable, nfs
  <2> QED BY <1>1, <2>1, <2>3, ServerKeeps DEF NfsInv
<1>2. CASE UNCHANGED nfsVars
  <2>2. nfs' = nfs
    BY <1>2 DEF nfsVars, nfs
  <2>1. CallInv' /\ HandleInv' /\ KnowInv'
    BY <1>2, <2>2 DEF nfsVars, NfsInv, CallInv, HandleInv, KnowInv, Intact
  <2>3. Reliable' => ServerInv'
    BY <1>2, <2>2 DEF nfsVars, NfsInv, Reliable, ServerInv, Silent, Asked, Answered
  <2> QED BY <2>1, <2>3 DEF NfsInv
<1> QED BY <1>1, <1>2

\* For any number of tries and whatever UDP loses, delays, doubles or reorders:
\* mount() is never called on the status of an earlier reply, and the file handle
\* it is given came whole from the server, unless a PROG_MISMATCH came before (over
\* UDP) or the reply came in pieces (over TCP).
THEOREM HandleComplete == NfsInit /\ [][NfsStep]_nfsVars => []NfsHandle
<1>1. NfsInv => NfsHandle
  BY DEF NfsInv, HandleInv, NfsHandle
<1> QED BY <1>1, NfsInitial, NfsStepKeeps, PTL

\* Nothing of a run stays behind, for all options, servers and numbers of tries:
\* over TCP with a server that is up and replies that come in one piece no entry
\* for the client after a failure; whatever the network does, no
\* UMNT taken for answered that the server has not handled, no dummy portmapper.
THEOREM NothingLeftBehind == NfsInit /\ [][NfsStep]_nfsVars => []NfsCleanedUp
<1>1. NfsInv => NfsCleanedUp
  <2> SUFFICES ASSUME NfsInv PROVE NfsCleanedUp
    OBVIOUS
  <2>1. NfsTakenBack
    BY DEF NfsInv, Reliable, ServerInv, NfsTakenBack
  <2>2. NfsUmountDone /\ NfsTornDown
    BY DEF NfsInv, KnowInv, NfsUmountDone, NfsTornDown, NfsFinished
  <2> QED BY <2>1, <2>2 DEF NfsCleanedUp
<1> QED BY <1>1, NfsInitial, NfsStepKeeps, PTL

----------------------------------------------------------------------------
(* rootdelayd: while nobody asks for a new period, pauses never shorten the
   time that it waits, for any number of pausing processes, any ROOTDELAY and
   any crashes of the pausing processes *)

USE RootdelayAssumption

\* _rootdelay_finalize_pause, in a pauser or in the daemon.
LEMMA FinalizeStep ==
    ASSUME GrantInv, NEW x \in Finalizer, Finalize(x)
    PROVE  GrantInv'
  <1> USE DEF GrantInv, Finalizer, Proc, None, At, Goto,
              fileVars, lockVars, localVars, clockVars, grantVars
  <1>1. CASE FinTry(x)
    <2> USE <1>1 DEF FinTry, Free, Returned
    <2>1. TypeOK' BY SMTT(30) DEF TypeOK, Short, Lasting
    <2>2. LockInv' BY DEF TypeOK, LockInv, FinLocked
    <2>3. QuietInv' BY DEF TypeOK, QuietInv
    <2>4. PauseInv' BY DEF TypeOK, PauseInv
    <2>5. CountInv' BY SMTT(30) DEF TypeOK, CountInv
    <2>6. DecideInv' BY DEF TypeOK, DecideInv
    <2>7. NotShortened' BY DEF NotShortened, Effective
    <2>8. CapInv' BY DEF TypeOK, CapInv
    <2>9. NotProlonged' BY DEF TypeOK, NotProlonged, Effective
    <2>10. NoEarlyExpiry' BY DEF TypeOK, NoEarlyExpiry
    <2> QED BY <2>1, <2>2, <2>3, <2>4, <2>5, <2>6, <2>7, <2>8, <2>9, <2>10
  <1>2. CASE FinRead(x)
    <2> USE <1>2 DEF FinRead
    <2>1. TypeOK' BY SMTT(30) DEF TypeOK, Short
    <2>2. LockInv' BY DEF TypeOK, LockInv, FinLocked
    <2>3. QuietInv' BY DEF TypeOK, QuietInv
    <2>4. PauseInv' BY DEF TypeOK, PauseInv
    <2>5. CountInv' BY SMTT(30) DEF TypeOK, CountInv
    <2>6. DecideInv' BY DEF TypeOK, DecideInv
    <2>7. NotShortened' BY DEF NotShortened, Effective
    <2>8. CapInv' BY DEF TypeOK, CapInv
    <2>9. NotProlonged' BY DEF TypeOK, NotProlonged, Effective
    <2>10. NoEarlyExpiry' BY DEF TypeOK, NoEarlyExpiry
    <2> QED BY <2>1, <2>2, <2>3, <2>4, <2>5, <2>6, <2>7, <2>8, <2>9, <2>10
  <1>3. CASE FinReset(x)
    <2> USE <1>3 DEF FinReset
    <2>1. TypeOK' BY SMTT(30) DEF TypeOK, Short
    <2>2. LockInv' BY DEF TypeOK, LockInv, FinLocked
    <2>3. QuietInv' BY DEF QuietInv
    <2>4. PauseInv' BY DEF TypeOK, PauseInv
    <2>5. CountInv' BY DEF QuietInv, CountInv
    <2>6. DecideInv' BY DEF TypeOK, DecideInv
    <2>7. NotShortened' BY DEF NotShortened, Effective
    <2>8. CapInv' BY DEF TypeOK, CapInv
    <2>9. NotProlonged' BY DEF TypeOK, NotProlonged, Effective
    <2>10. NoEarlyExpiry' BY DEF TypeOK, NoEarlyExpiry
    <2> QED BY <2>1, <2>2, <2>3, <2>4, <2>5, <2>6, <2>7, <2>8, <2>9, <2>10
  <1>4. CASE FinCount(x)
    <2> USE <1>4 DEF FinCount, Extended
    <2>1. TypeOK' BY SMTT(30) DEF TypeOK, Short
    <2>2. LockInv' BY DEF TypeOK, LockInv, FinLocked
    <2>3. QuietInv' BY DEF TypeOK, QuietInv
    <2>4. PauseInv' BY DEF TypeOK, PauseInv
    <2>5. CountInv' BY SMTT(30) DEF TypeOK, CountInv, NotShortened, Effective
    <2>6. DecideInv' BY DEF TypeOK, DecideInv
    <2>7. NotShortened' BY DEF NotShortened, Effective
    <2>8. CapInv' BY SMTT(30) DEF TypeOK, CapInv, NotProlonged, Effective
    <2>9. NotProlonged' BY DEF TypeOK, NotProlonged, Effective
    <2>10. NoEarlyExpiry' BY DEF TypeOK, NoEarlyExpiry
    <2> QED BY <2>1, <2>2, <2>3, <2>4, <2>5, <2>6, <2>7, <2>8, <2>9, <2>10
  <1>5. CASE FinSet(x)
    <2> USE <1>5 DEF FinSet
    <2>1. TypeOK' BY DEF TypeOK, Short
    <2>2. LockInv' BY DEF TypeOK, LockInv, FinLocked
    <2>3. QuietInv' BY DEF TypeOK, QuietInv
    <2>4. PauseInv' BY DEF TypeOK, PauseInv
    <2>5. CountInv'
      BY SMTT(30) DEF TypeOK, LockInv, FinLocked, CountInv, NotShortened, Effective
    <2>6. DecideInv' BY DEF TypeOK, DecideInv
    <2>7. NotShortened' BY SMTT(30) DEF TypeOK, CountInv, NotShortened, Effective
    <2>8. CapInv'
      BY SMTT(30) DEF LockInv, FinLocked, CountInv, CapInv, NotProlonged, Effective
    <2>9. NotProlonged' BY DEF TypeOK, NotProlonged
    <2>10. NoEarlyExpiry' BY DEF TypeOK, NoEarlyExpiry
    <2> QED BY <2>1, <2>2, <2>3, <2>4, <2>5, <2>6, <2>7, <2>8, <2>9, <2>10
  <1>6. CASE FinEnd(x)
    <2> USE <1>6 DEF FinEnd
    <2>1. TypeOK' BY DEF TypeOK, Short
    <2>2. LockInv' BY DEF TypeOK, LockInv, FinLocked
    <2>3. QuietInv' BY DEF TypeOK, QuietInv
    <2>4. PauseInv' BY DEF TypeOK, LockInv, FinLocked, PauseInv
    <2>5. CountInv' BY DEF TypeOK, LockInv, FinLocked, CountInv
    <2>6. DecideInv' BY DEF TypeOK, DecideInv
    <2>7. NotShortened' BY DEF CountInv, NotShortened, Effective
    <2>8. CapInv' BY DEF CapInv
    <2>9. NotProlonged' BY DEF CapInv, NotProlonged, Effective
    <2>10. NoEarlyExpiry' BY DEF TypeOK, NoEarlyExpiry
    <2> QED BY <2>1, <2>2, <2>3, <2>4, <2>5, <2>6, <2>7, <2>8, <2>9, <2>10
  <1>7. CASE FinClose(x)
    <2> USE <1>7 DEF FinClose, Returned, Forget
    <2>1. TypeOK' BY SMTT(30) DEF TypeOK, Short
    <2>2. LockInv' BY DEF TypeOK, LockInv, FinLocked
    <2>3. QuietInv' BY DEF TypeOK, QuietInv
    <2>4. PauseInv' BY DEF TypeOK, PauseInv
    <2>5. CountInv' BY DEF TypeOK, CountInv
    <2>6. DecideInv' BY DEF TypeOK, DecideInv
    <2>7. NotShortened' BY DEF NotShortened, Effective
    <2>8. CapInv' BY DEF TypeOK, CapInv
    <2>9. NotProlonged' BY DEF TypeOK, NotProlonged, Effective
    <2>10. NoEarlyExpiry' BY DEF TypeOK, NoEarlyExpiry
    <2> QED BY <2>1, <2>2, <2>3, <2>4, <2>5, <2>6, <2>7, <2>8, <2>9, <2>10
  <1> QED
    BY <1>1, <1>2, <1>3, <1>4, <1>5, <1>6, <1>7 DEF Finalize

\* run_rootdelay_paused, up to the end of the command, and a kill.
LEMMA PausingStep ==
    ASSUME GrantInv, NEW p \in Pauser, Pausing(p) \/ Crash(p)
    PROVE  GrantInv'
  <1> USE DEF GrantInv, Finalizer, Proc, None, At, Goto,
              fileVars, lockVars, localVars, clockVars, grantVars
  <1>1. CASE PauseBegin(p)
    <2> USE <1>1 DEF PauseBegin
    <2>1. TypeOK' BY DEF TypeOK, Short
    <2>2. LockInv' BY DEF TypeOK, LockInv, FinLocked
    <2>3. QuietInv' BY DEF TypeOK, QuietInv
    <2>4. PauseInv' BY DEF TypeOK, PauseInv
    <2>5. CountInv' BY DEF TypeOK, CountInv
    <2>6. DecideInv' BY DEF TypeOK, DecideInv
    <2>7. NotShortened' BY DEF NotShortened, Effective
    <2>8. CapInv' BY DEF TypeOK, CapInv
    <2>9. NotProlonged' BY DEF TypeOK, NotProlonged, Effective
    <2>10. NoEarlyExpiry' BY DEF TypeOK, NoEarlyExpiry
    <2> QED BY <2>1, <2>2, <2>3, <2>4, <2>5, <2>6, <2>7, <2>8, <2>9, <2>10
  <1>2. CASE PauseLock(p)
    <2> USE <1>2 DEF PauseLock
    <2>1. TypeOK' BY DEF TypeOK, Short
    <2>2. LockInv' BY DEF TypeOK, LockInv, FinLocked
    <2>3. QuietInv' BY DEF TypeOK, QuietInv
    <2>4. PauseInv' BY DEF TypeOK, PauseInv
    <2>5. CountInv' BY DEF TypeOK, CountInv
    <2>6. DecideInv' BY DEF TypeOK, DecideInv
    <2>7. NotShortened' BY DEF NotShortened, Effective
    <2>8. CapInv' BY DEF TypeOK, CapInv
    <2>9. NotProlonged' BY DEF TypeOK, NotProlonged, Effective
    <2>10. NoEarlyExpiry' BY DEF TypeOK, NoEarlyExpiry
    <2> QED BY <2>1, <2>2, <2>3, <2>4, <2>5, <2>6, <2>7, <2>8, <2>9, <2>10
  <1>3. CASE PauseStamp(p)
    <2> USE <1>3 DEF PauseStamp
    <2>1. TypeOK' BY SMTT(30) DEF TypeOK, Short, Lasting
    <2>2. LockInv' BY DEF TypeOK, LockInv, FinLocked
    <2>3. QuietInv' BY DEF TypeOK, QuietInv
    <2>4. PauseInv' BY DEF TypeOK, PauseInv
    <2>5. CountInv' BY SMTT(30) DEF TypeOK, CountInv
    <2>6. DecideInv' BY SMTT(30) DEF TypeOK, DecideInv
    <2>7. NotShortened' BY DEF NotShortened, Effective
    <2>8. CapInv' BY DEF TypeOK, CapInv
    <2>9. NotProlonged' BY DEF TypeOK, NotProlonged, Effective
    <2>10. NoEarlyExpiry' BY DEF TypeOK, NoEarlyExpiry
    <2> QED BY <2>1, <2>2, <2>3, <2>4, <2>5, <2>6, <2>7, <2>8, <2>9, <2>10
  <1>4. CASE PauseWrite(p)
    <2> USE <1>4 DEF PauseWrite
    <2>1. TypeOK' BY SMTT(30) DEF TypeOK, Lasting
    <2>2. LockInv' BY DEF TypeOK, LockInv, FinLocked
    <2>3. QuietInv' BY DEF TypeOK, QuietInv
    <2>4. PauseInv' BY SMTT(30) DEF TypeOK, PauseInv
    <2>5. CountInv' BY DEF TypeOK, LockInv, FinLocked, CountInv
    <2>6. DecideInv' BY DEF TypeOK, PauseInv, DecideInv
    <2>7. NotShortened' BY SMTT(30) DEF TypeOK, PauseInv, NotShortened, Effective
    <2>8. CapInv' BY DEF TypeOK, CapInv
    <2>9. NotProlonged' BY SMTT(30) DEF TypeOK, PauseInv, NotProlonged, Effective
    <2>10. NoEarlyExpiry' BY DEF TypeOK, NoEarlyExpiry
    <2> QED BY <2>1, <2>2, <2>3, <2>4, <2>5, <2>6, <2>7, <2>8, <2>9, <2>10
  <1>5. CASE PauseEnd(p)
    <2> USE <1>5 DEF PauseEnd
    <2>1. TypeOK' BY SMTT(30) DEF TypeOK, Short
    <2>2. LockInv' BY DEF TypeOK, LockInv, FinLocked
    <2>3. QuietInv' BY DEF TypeOK, QuietInv
    <2>4. PauseInv' BY DEF TypeOK, PauseInv
    <2>5. CountInv' BY DEF TypeOK, CountInv
    <2>6. DecideInv' BY DEF TypeOK, DecideInv
    <2>7. NotShortened' BY DEF NotShortened, Effective
    <2>8. CapInv' BY DEF TypeOK, CapInv
    <2>9. NotProlonged' BY DEF TypeOK, NotProlonged, Effective
    <2>10. NoEarlyExpiry' BY DEF TypeOK, NoEarlyExpiry
    <2> QED BY <2>1, <2>2, <2>3, <2>4, <2>5, <2>6, <2>7, <2>8, <2>9, <2>10
  <1>6. CASE PauserGone(p)
    <2> USE <1>6 DEF PauserGone
    <2>1. TypeOK' BY SMTT(30) DEF TypeOK, Lasting
    <2>2. LockInv' BY DEF TypeOK, LockInv, FinLocked
    <2>3. QuietInv' BY DEF TypeOK, QuietInv
    <2>4. PauseInv' BY DEF TypeOK, PauseInv
    <2>5. CountInv' BY DEF TypeOK, CountInv
    <2>6. DecideInv' BY DEF TypeOK, DecideInv
    <2>7. NotShortened' BY DEF NotShortened, Effective
    <2>8. CapInv' BY DEF TypeOK, CapInv
    <2>9. NotProlonged' BY DEF TypeOK, NotProlonged, Effective
    <2>10. NoEarlyExpiry' BY DEF TypeOK, NoEarlyExpiry
    <2> QED BY <2>1, <2>2, <2>3, <2>4, <2>5, <2>6, <2>7, <2>8, <2>9, <2>10
  <1>7. CASE Crash(p)
    <2> USE <1>7 DEF Crash, Forget
    <2>1. TypeOK' BY SMTT(30) DEF TypeOK, Lasting
    <2>2. LockInv' BY DEF TypeOK, LockInv, FinLocked
    <2>3. QuietInv' BY DEF TypeOK, QuietInv
    <2>4. PauseInv' BY DEF TypeOK, PauseInv
    <2>5. CountInv' BY DEF TypeOK, CountInv
    <2>6. DecideInv' BY DEF TypeOK, DecideInv
    <2>7. NotShortened' BY DEF NotShortened, Effective
    <2>8. CapInv' BY SMTT(30) DEF TypeOK, CapInv
    <2>9. NotProlonged' BY SMTT(30) DEF TypeOK, NotProlonged
    <2>10. NoEarlyExpiry' BY DEF TypeOK, NoEarlyExpiry
    <2> QED BY <2>1, <2>2, <2>3, <2>4, <2>5, <2>6, <2>7, <2>8, <2>9, <2>10
  <1> QED
    BY <1>1, <1>2, <1>3, <1>4, <1>5, <1>6, <1>7 DEF Pausing

\* The daemon looks at the locks of the pausers, or wakes up to do so.
LEMMA LoopStep ==
    ASSUME GrantInv, Loop \/ Unlock \/ Wake
    PROVE  GrantInv'
  <1> USE DEF GrantInv, Finalizer, Proc, None, At, Goto,
              fileVars, lockVars, localVars, clockVars, grantVars
  <1>1. CASE Loop
    <2> USE <1>1 DEF Loop, Free, SleepUntil
    <2>1. TypeOK' BY SMTT(30) DEF TypeOK, Short, Lasting
    <2>2. LockInv' BY DEF TypeOK, LockInv, FinLocked
    <2>3. QuietInv' BY DEF TypeOK, QuietInv
    <2>4. PauseInv' BY DEF TypeOK, PauseInv
    <2>5. CountInv' BY SMTT(30) DEF TypeOK, CountInv
    <2>6. DecideInv' BY DEF TypeOK, DecideInv
    <2>7. NotShortened' BY DEF NotShortened, Effective
    <2>8. CapInv' BY DEF TypeOK, CapInv
    <2>9. NotProlonged' BY DEF TypeOK, NotProlonged, Effective
    <2>10. NoEarlyExpiry' BY DEF TypeOK, NoEarlyExpiry
    <2> QED BY <2>1, <2>2, <2>3, <2>4, <2>5, <2>6, <2>7, <2>8, <2>9, <2>10
  <1>2. CASE Unlock
    <2> USE <1>2 DEF Unlock
    <2>1. TypeOK' BY SMTT(30) DEF TypeOK, Short
    <2>2. LockInv' BY DEF TypeOK, LockInv, FinLocked
    <2>3. QuietInv' BY DEF TypeOK, QuietInv
    <2>4. PauseInv' BY DEF TypeOK, PauseInv
    <2>5. CountInv' BY DEF TypeOK, CountInv
    <2>6. DecideInv' BY DEF TypeOK, DecideInv
    <2>7. NotShortened' BY DEF NotShortened, Effective
    <2>8. CapInv' BY DEF TypeOK, CapInv
    <2>9. NotProlonged' BY DEF TypeOK, NotProlonged, Effective
    <2>10. NoEarlyExpiry' BY DEF TypeOK, NoEarlyExpiry
    <2> QED BY <2>1, <2>2, <2>3, <2>4, <2>5, <2>6, <2>7, <2>8, <2>9, <2>10
  <1>3. CASE Wake
    <2> USE <1>3 DEF Wake
    <2>1. TypeOK' BY SMTT(30) DEF TypeOK, Short
    <2>2. LockInv' BY DEF TypeOK, LockInv, FinLocked
    <2>3. QuietInv' BY DEF TypeOK, QuietInv
    <2>4. PauseInv' BY DEF TypeOK, PauseInv
    <2>5. CountInv' BY DEF TypeOK, CountInv
    <2>6. DecideInv' BY DEF TypeOK, DecideInv
    <2>7. NotShortened' BY DEF NotShortened, Effective
    <2>8. CapInv' BY DEF TypeOK, CapInv
    <2>9. NotProlonged' BY DEF TypeOK, NotProlonged, Effective
    <2>10. NoEarlyExpiry' BY DEF TypeOK, NoEarlyExpiry
    <2> QED BY <2>1, <2>2, <2>3, <2>4, <2>5, <2>6, <2>7, <2>8, <2>9, <2>10
  <1> QED
    BY <1>1, <1>2, <1>3

\* The daemon waits for the console, uses it or gives it back.
LEMMA ConsoleStep ==
    ASSUME GrantInv, Emergency \/ EmergencyShell \/ ShowMessage \/ Expire \/ ShellExit
    PROVE  GrantInv'
  <1> USE DEF GrantInv, Finalizer, Proc, None, At, Goto,
              fileVars, lockVars, localVars, clockVars, grantVars
  <1>1. CASE Emergency
    <2> USE <1>1 DEF Emergency
    <2>1. TypeOK' BY DEF TypeOK, Lasting
    <2>2. LockInv' BY DEF TypeOK, LockInv, FinLocked
    <2>3. QuietInv' BY DEF TypeOK, QuietInv
    <2>4. PauseInv' BY DEF TypeOK, PauseInv
    <2>5. CountInv' BY DEF TypeOK, CountInv
    <2>6. DecideInv' BY DEF TypeOK, DecideInv
    <2>7. NotShortened' BY DEF NotShortened, Effective
    <2>8. CapInv' BY DEF TypeOK, CapInv
    <2>9. NotProlonged' BY DEF TypeOK, NotProlonged, Effective
    <2>10. NoEarlyExpiry' BY DEF TypeOK, NoEarlyExpiry
    <2> QED BY <2>1, <2>2, <2>3, <2>4, <2>5, <2>6, <2>7, <2>8, <2>9, <2>10
  <1>2. CASE EmergencyShell
    <2> USE <1>2 DEF EmergencyShell
    <2>1. TypeOK' BY DEF TypeOK, Lasting
    <2>2. LockInv' BY DEF TypeOK, LockInv, FinLocked
    <2>3. QuietInv' BY DEF TypeOK, QuietInv
    <2>4. PauseInv' BY DEF TypeOK, PauseInv
    <2>5. CountInv' BY DEF TypeOK, CountInv
    <2>6. DecideInv' BY DEF TypeOK, DecideInv
    <2>7. NotShortened' BY DEF NotShortened, Effective
    <2>8. CapInv' BY DEF TypeOK, CapInv
    <2>9. NotProlonged' BY DEF TypeOK, NotProlonged, Effective
    <2>10. NoEarlyExpiry' BY DEF TypeOK, NoEarlyExpiry
    <2> QED BY <2>1, <2>2, <2>3, <2>4, <2>5, <2>6, <2>7, <2>8, <2>9, <2>10
  <1>3. CASE ShowMessage
    <2> USE <1>3 DEF ShowMessage, SleepUntil
    <2>1. TypeOK' BY SMTT(30) DEF TypeOK, Lasting
    <2>2. LockInv' BY DEF TypeOK, LockInv, FinLocked
    <2>3. QuietInv' BY DEF TypeOK, QuietInv
    <2>4. PauseInv' BY DEF TypeOK, PauseInv
    <2>5. CountInv' BY DEF TypeOK, CountInv
    <2>6. DecideInv' BY DEF TypeOK, DecideInv
    <2>7. NotShortened' BY DEF NotShortened, Effective
    <2>8. CapInv' BY DEF TypeOK, CapInv
    <2>9. NotProlonged' BY DEF TypeOK, NotProlonged, Effective
    <2>10. NoEarlyExpiry' BY DEF TypeOK, NoEarlyExpiry
    <2> QED BY <2>1, <2>2, <2>3, <2>4, <2>5, <2>6, <2>7, <2>8, <2>9, <2>10
  <1>4. CASE Expire
    <2> USE <1>4 DEF Expire
    <2>1. TypeOK' BY DEF TypeOK, Lasting
    <2>2. LockInv' BY DEF TypeOK, LockInv, FinLocked
    <2>3. QuietInv' BY DEF TypeOK, QuietInv
    <2>4. PauseInv' BY DEF TypeOK, PauseInv
    <2>5. CountInv' BY DEF TypeOK, CountInv
    <2>6. DecideInv' BY DEF TypeOK, DecideInv
    <2>7. NotShortened' BY DEF NotShortened, Effective
    <2>8. CapInv' BY DEF TypeOK, CapInv
    <2>9. NotProlonged' BY DEF TypeOK, NotProlonged, Effective
    <2>10. NoEarlyExpiry' BY DEF NoEarlyExpiry
    <2> QED BY <2>1, <2>2, <2>3, <2>4, <2>5, <2>6, <2>7, <2>8, <2>9, <2>10
  <1>5. CASE ShellExit
    <2> USE <1>5 DEF ShellExit
    <2>1. TypeOK' BY SMTT(30) DEF TypeOK, Short, Lasting
    <2>2. LockInv' BY DEF TypeOK, LockInv, FinLocked
    <2>3. QuietInv' BY DEF TypeOK, QuietInv
    <2>4. PauseInv' BY DEF TypeOK, PauseInv
    <2>5. CountInv' BY DEF TypeOK, CountInv
    <2>6. DecideInv' BY DEF TypeOK, DecideInv
    <2>7. NotShortened' BY DEF NotShortened, Effective
    <2>8. CapInv' BY DEF TypeOK, CapInv
    <2>9. NotProlonged' BY DEF TypeOK, NotProlonged, Effective
    <2>10. NoEarlyExpiry' BY DEF TypeOK, NoEarlyExpiry
    <2> QED BY <2>1, <2>2, <2>3, <2>4, <2>5, <2>6, <2>7, <2>8, <2>9, <2>10
  <1> QED
    BY <1>1, <1>2, <1>3, <1>4, <1>5

\* The daemon finds no pause and reads the clock, reads the deadline or sets the
\* first one, and compares it with the clock.
LEMMA DecideStep ==
    ASSUME GrantInv, Check \/ Timer \/ Decide
    PROVE  GrantInv'
  <1> USE DEF GrantInv, Finalizer, Proc, None, At, Goto,
              fileVars, lockVars, localVars, clockVars, grantVars
  <1>1. CASE Check
    <2> USE <1>1 DEF Check
    <2>1. TypeOK' BY SMTT(30) DEF TypeOK, Short, Lasting
    <2>2. LockInv' BY DEF TypeOK, LockInv, FinLocked
    <2>3. QuietInv' BY DEF TypeOK, QuietInv
    <2>4. PauseInv' BY DEF TypeOK, PauseInv
    <2>5. CountInv' BY DEF TypeOK, CountInv
    <2>6. DecideInv' BY DEF TypeOK, DecideInv
    <2>7. NotShortened' BY DEF NotShortened, Effective
    <2>8. CapInv' BY DEF TypeOK, CapInv
    <2>9. NotProlonged' BY DEF TypeOK, NotProlonged, Effective
    <2>10. NoEarlyExpiry' BY DEF TypeOK, NoEarlyExpiry
    <2> QED BY <2>1, <2>2, <2>3, <2>4, <2>5, <2>6, <2>7, <2>8, <2>9, <2>10
  <1>2. CASE Timer
    <2> USE <1>2 DEF Timer, Grant
    <2>1. TypeOK' BY SMTT(30) DEF TypeOK, Short
    <2>2. LockInv' BY DEF TypeOK, LockInv, FinLocked
    <2>3. QuietInv' BY DEF TypeOK, QuietInv
    <2>4. PauseInv' BY DEF TypeOK, PauseInv
    <2>5. CountInv' BY SMTT(30) DEF TypeOK, CountInv
    <2>6. DecideInv' BY SMTT(30) DEF TypeOK, DecideInv, NotShortened, Effective
    <2>7. NotShortened' BY SMTT(30) DEF TypeOK, NotShortened, Effective
    <2>8. CapInv' BY SMTT(30) DEF TypeOK, CapInv
    <2>9. NotProlonged' BY SMTT(30) DEF TypeOK, DecideInv, NotProlonged, Effective
    <2>10. NoEarlyExpiry' BY DEF TypeOK, NoEarlyExpiry
    <2> QED BY <2>1, <2>2, <2>3, <2>4, <2>5, <2>6, <2>7, <2>8, <2>9, <2>10
  <1>3. CASE Decide
    <2> USE <1>3 DEF Decide, Overdue, SleepUntil
    <2>1. TypeOK' BY SMTT(30) DEF TypeOK, Lasting
    <2>2. LockInv' BY DEF TypeOK, LockInv, FinLocked
    <2>3. QuietInv' BY DEF TypeOK, QuietInv
    <2>4. PauseInv' BY DEF TypeOK, PauseInv
    <2>5. CountInv' BY DEF TypeOK, CountInv
    <2>6. DecideInv' BY DEF DecideInv
    <2>7. NotShortened' BY DEF NotShortened, Effective
    <2>8. CapInv' BY DEF TypeOK, CapInv
    <2>9. NotProlonged' BY DEF TypeOK, NotProlonged, Effective
    <2>10. NoEarlyExpiry' BY SMTT(30) DEF TypeOK, DecideInv, NoEarlyExpiry
    <2> QED BY <2>1, <2>2, <2>3, <2>4, <2>5, <2>6, <2>7, <2>8, <2>9, <2>10
  <1> QED
    BY <1>1, <1>2, <1>3

\* Time passes only where every script waits for something.
LEMMA TickStep ==
    ASSUME GrantInv, Tick
    PROVE  GrantInv'
  <1> USE DEF GrantInv, Finalizer, Proc, None, Tick, Lasting, Busy, fileVars,
              lockVars, localVars
  <1>1. TypeOK'
    BY SMTT(30) DEF TypeOK, Short
  <1>2. LockInv' /\ QuietInv'
    BY DEF LockInv, QuietInv
  <1>3. PauseInv' /\ CountInv' /\ DecideInv'
    BY DEF TypeOK, PauseInv, CountInv, DecideInv
  <1>4. NotShortened'
    BY SMTT(30) DEF TypeOK, PauseInv, NotShortened, Effective
  <1>5. CapInv' /\ NotProlonged'
    BY SMTT(30) DEF TypeOK, CapInv, NotProlonged, Effective
  <1>6. NoEarlyExpiry'
    BY SMTT(30) DEF TypeOK, NoEarlyExpiry, At
  <1> QED
    BY <1>1, <1>2, <1>3, <1>4, <1>5, <1>6

\* GrantInv holds in every reachable state: whatever the order in which
\* pausers, the processes that count pauses and rootdelayd run, and wherever
\* a pauser is killed, as long as nobody asks for a new period of waiting.
THEOREM GrantInvariance ==
    ASSUME NoResets
    PROVE  Spec => []GrantInv
  <1>1. Init => GrantInv
    <2> SUFFICES ASSUME Init PROVE GrantInv
      OBVIOUS
    <2> USE DEF Init, Proc, Finalizer, None
    <2>1. TypeOK
      <3>1. resumed \in BOOLEAN
        OBVIOUS
      <3>2. pc \in [Proc -> Lasting \cup Short]
        BY DEF Lasting, Short
      <3>3. /\ lockfile \in BOOLEAN /\ disabled \in BOOLEAN
            /\ initenv \in {"empty", "plain", "rdshell"}
            /\ sh \subseteq Pauser /\ ex \in Proc \cup {Nobody}
            /\ console \in Finalizer \cup {Nobody}
        OBVIOUS
      <3>4. /\ now \in Nat /\ pauseTime \in {None} \cup (0 .. now)
            /\ reset \in {None} \cup (0 .. now) /\ deadline \in {None} \cup Nat
            /\ wake \in Nat /\ faults \in 0 .. MaxFaults
            /\ owed \in Nat /\ cap \in Nat
        BY SMTT(30)
      <3>5. /\ start \in [Proc -> 0 .. now] /\ seen \in [Proc -> 0 .. now]
            /\ found \in [Proc -> Nat]
        BY SMTT(30)
      <3> HIDE DEF Init
      <3> QED
        BY <3>1, <3>2, <3>3, <3>4, <3>5 DEF TypeOK
    <2>2. LockInv /\ PauseInv /\ CountInv /\ DecideInv /\ CapInv
      BY DEF LockInv, PauseInv, CountInv, DecideInv, CapInv, FinLocked
    <2>3. QuietInv
      BY DEF NoResets, QuietInv
    <2>4. NotShortened /\ NotProlonged /\ NoEarlyExpiry
      BY DEF NotShortened, NotProlonged, NoEarlyExpiry, At
    <2> QED
      BY <2>1, <2>2, <2>3, <2>4 DEF GrantInv
  <1>2. GrantInv /\ [Next]_vars => GrantInv'
    <2> SUFFICES ASSUME GrantInv, [Next]_vars PROVE GrantInv'
      OBVIOUS
    <2>1. CASE Cmdline
      <3>1. TypeOK'
        BY <2>1, SMTT(30) DEF Cmdline, GrantInv, TypeOK, Lasting, Short, lockVars, localVars, clockVars, grantVars
      <3> QED
        BY <2>1, <3>1 DEF Cmdline, GrantInv, LockInv, QuietInv, PauseInv, CountInv, DecideInv, CapInv,
           NotShortened, NotProlonged, NoEarlyExpiry, Effective, At, lockVars, localVars, clockVars, grantVars
    <2>2. CASE UNCHANGED vars
      <3> USE <2>2 DEF vars, fileVars, lockVars, localVars, clockVars, grantVars
      <3>1. TypeOK'
        BY DEF GrantInv, TypeOK
      <3> QED
        BY <3>1 DEF GrantInv, LockInv, QuietInv, PauseInv, CountInv, DecideInv, CapInv,
           NotShortened, NotProlonged, NoEarlyExpiry, Effective, At
    <2>3. ~GiveUp /\ \A r \in Resetter : FALSE
      BY DEF NoResets, GiveUp
    <2>4. \A p \in Pauser : p \in Finalizer
      BY DEF Finalizer
    <2>5. Delayd \in Finalizer
      BY DEF Finalizer
    <2>6. ~DecideResume /\ ~Resetting(Delayd)
      BY <2>5 DEF GrantInv, QuietInv, DecideResume, Resetting, ResetProbe,
         ResetUnprobe, ResetWrite, ResetEnd, At
    <2> QED
      BY <2>1, <2>2, <2>3, <2>4, <2>5, <2>6, FinalizeStep, PausingStep, LoopStep,
         ConsoleStep, DecideStep, TickStep DEF Next, Daemon
  <1> QED
    BY <1>1, <1>2, PTL DEF Spec

\* A pause never costs waiting time: _rootdelay_finalize_pause gives every
\* second of a paused command back to the deadline.
THEOREM PausesGivenBack ==
    ASSUME NoResets
    PROVE  Spec => []NotShortened
  <1>1. GrantInv => NotShortened
    BY DEF GrantInv
  <1> QED
    BY <1>1, GrantInvariance, PTL

\* rootdelayd decides that the time has expired only when the first period
\* and every second spent in pauses have passed, although it reads the lock,
\* pause.time and the deadline one after the other.
THEOREM ExpiryNotEarly ==
    ASSUME NoResets
    PROVE  Spec => []NoEarlyExpiry
  <1>1. GrantInv => NoEarlyExpiry
    BY DEF GrantInv
  <1> QED
    BY <1>1, GrantInvariance, PTL

\* No second of a pause is counted twice: while nobody is killed and no move of the
\* deadline is half done, the deadline is at most the period granted plus the time
\* pause.time has existed, whichever of the pausers and the daemon counts it.
THEOREM PausesCountedOnce ==
    ASSUME NoResets
    PROVE  Spec => []NotProlonged
  <1>1. GrantInv => NotProlonged
    BY DEF GrantInv
  <1> QED
    BY <1>1, GrantInvariance, PTL

HIDE RootdelayAssumption

============================================================================
