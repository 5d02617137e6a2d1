------------------------------ MODULE MCBuild ------------------------------
(* Instances of the tools that build an image, for TLC.                    *)
EXTENDS PutInstall, Scanmod, KmodDepinfo, InitrdExtract, Boot, TLC

CONSTANTS none, hole, t1, t2

VARIABLE tool  \* the program this behaviour runs; the others stay at their start

\* Host file systems.
Dir == [type |-> "dir", closed |-> FALSE]
Closed == [type |-> "dir", closed |-> TRUE]
Rel(to) == [type |-> "lnk", abs |-> FALSE, to |-> to]
Abs(to) == [type |-> "lnk", abs |-> TRUE, to |-> to]
Reg(ino, n, text) == [type |-> "reg", ino |-> ino, nlink |-> n, text |-> text]
Data == [kind |-> "data"]
Script(i) == [kind |-> "script", interp |-> i]
Elf(needed, ldd, notes) ==
  [kind |-> "elf", dynamic |-> TRUE, machine |-> "x64", rpath |-> FALSE, needed |-> needed,
   interp |-> <<"lib", "ld">>, ldd |-> ldd, notes |-> notes]
Static == [kind |-> "elf", dynamic |-> FALSE]
Line(so, p) == [soname |-> so, path |-> p]
Arg(p) == [abs |-> TRUE, path |-> p]

Usr == (<<"usr">> :> Dir) @@ (<<"usr", "lib">> :> Dir) @@ (<<"lib">> :> Rel(<<"usr", "lib">>))
       @@ (<<"usr", "lib", "ld">> :> Reg("ld", 1, Static)) @@ (<<"bin">> :> Dir)
LddLd == Line("ld", <<"lib", "ld">>)
LddC == Line("libc", <<"lib", "libc">>)
LibC == <<"usr", "lib", "libc">> :> Reg("libc", 1, Elf(<<"ld">>, <<LddLd>>, <<>>))
App(n) == <<"bin", n>> :> Reg(n, 1, Elf(<<"libc">>, <<LddC, LddLd>>, <<>>))

Base == [fs |-> Usr, dest |-> [p \in {} |-> Dir], args |-> <<>>, cwd |-> <<"bin">>, prefix |-> none,
         force |-> FALSE, exclude |-> {}, jobs |-> 2, dry |-> FALSE, log |-> TRUE, nocache |-> FALSE,
         ignfeature |-> {}, ignpriority |-> {}, ld |-> [s \in {} |-> none], unsupported |-> {},
         nolink |-> FALSE, root |-> TRUE, sound |-> TRUE, shrunk |-> {}, broken |-> {}]

Old == [type |-> "reg", ino |-> <<"old">>]

\* Two programs that share a library, reached through the link /lib.
Programs == [Base EXCEPT !.fs = Usr @@ LibC @@ App("a") @@ App("b"),
                         !.args = <<Arg(<<"bin", "a">>), [abs |-> FALSE, path |-> <<".", "..", "bin", "b">>]>>]

\* A program with dlopen notes, one of them ignored, and a private library path.
Note(f, p, names) == [feature |-> f, priority |-> p, sonames |-> names]
Dlopen ==
  [Base EXCEPT
    !.fs = Usr @@ LibC
           @@ (<<"usr", "lib", "libz">> :> Reg("libz", 1, Elf(<<"libc">>, <<LddC, LddLd>>, <<>>)))
           @@ (<<"bin", "a">> :> Reg("a", 1, [Elf(<<"libc">>, <<LddC, LddLd>>,
                 <<Note("zip", "suggested", <<"libq", "libz">>), Note("tui", "required", <<"libt">>),
                   Note("odd", "optional", <<"libo">>)>>) EXCEPT !.rpath = TRUE])),
    !.ld = [libz |-> <<"lib", "libz">>, libt |-> <<"lib", "none">>],
    !.ignfeature = {[word |-> "tui", files |-> {<<"bin", "a">>}]},
    !.ignpriority = {[word |-> "suggested", files |-> {<<"bin", "b">>}]},
    !.nocache = TRUE, !.jobs = 1, !.args = <<Arg(<<"bin", "a">>)>>]

\* Two libraries of one name: on a program's RPATH, and on a library's RUNPATH.
Opt == (<<"opt">> :> Dir) @@ (<<"opt", "libx">> :> Reg("ox", 1, Elf(<<"ld">>, <<LddLd>>, <<>>)))
LibX == <<"usr", "lib", "libx">> :> Reg("libx", 1, Elf(<<"ld">>, <<LddLd>>, <<>>))
NeedsX(n, where, own) == <<"bin", n>> :> Reg(n, 1, [Elf(<<"libx">>, <<Line("libx", where), LddLd>>, <<>>) EXCEPT !.rpath = own])
Rpath == [Base EXCEPT !.fs = Usr @@ Opt @@ LibX @@ NeedsX("a", <<"opt", "libx">>, TRUE) @@ NeedsX("b", <<"lib", "libx">>, FALSE),
                      !.args = <<Arg(<<"bin", "">>)>>, !.jobs = 1]
LddL == <<Line("libl", <<"lib", "libl">>), Line("libx", <<"opt", "libx">>), LddLd>>
Runpath == [Rpath EXCEPT !.fs = [@ EXCEPT ![<<"bin", "a">>] = Reg("a", 1, Elf(<<"libl">>, LddL, <<>>))]
              @@ (<<"usr", "lib", "libl">> :> Reg("l", 1, [Elf(<<"libx">>, Tail(LddL), <<>>) EXCEPT !.rpath = TRUE]))]

\* A directory with a link, a device, a fifo and three names of one file.
Tree ==
  [Base EXCEPT
    !.fs = (<<"d">> :> Closed) @@ (<<"d", "s">> :> Closed) @@ (<<"d", "x">> :> Reg("x", 2, Data))
           @@ (<<"d", "s", "y">> :> Reg("x", 2, Data)) @@ (<<"d", "l">> :> Rel(<<"..", "e", "t">>))
           @@ (<<"e">> :> Dir) @@ (<<"e", "t">> :> [type |-> "device", dev |-> 8, rdev |-> 9]),
    !.root = FALSE, !.unsupported = {"range", "send"}, !.args = <<Arg(<<"d", "">>)>>]
NoLinks == [Tree EXCEPT !.nolink = TRUE, !.force = TRUE, !.unsupported = {"range"},
              !.dest = (<<"d">> :> Dir) @@ (<<"d", "x">> :> Old)]

\* The interpreter of a script lies below a link that only a round's second
\* step makes: its directory waits for the next round.
Rounds ==
  [Base EXCEPT
    !.fs = (<<"usr">> :> Dir) @@ (<<"usr", "f">> :> Closed) @@ (<<"usr", "f", "sh">> :> Reg("sh", 1, Data))
           @@ (<<"l">> :> Rel(<<"usr">>)) @@ (<<"s">> :> Reg("s", 1, Script(<<"l", "f", "sh">>))),
    !.root = FALSE, !.args = <<Arg(<<"s">>)>>]

\* Beside it another name of a file: linked while its directory is missing.
Later == [Rounds EXCEPT !.fs = [@ EXCEPT ![<<"usr", "f", "sh">>].nlink = 2] @@ (<<"b">> :> Reg("sh", 2, Data)),
                        !.args = <<Arg(<<"b">>), Arg(<<"s">>)>>]

\* A library below the prefix and the host's own go to one place.
Prefix ==
  [Base EXCEPT
    !.fs = (<<"p">> :> Dir) @@ (<<"p", "lib">> :> Dir) @@ (<<"lib">> :> Dir)
           @@ (<<"lib", "c">> :> Reg("c", 1, Data)) @@ (<<"p", "lib", "c">> :> Reg("pc", 1, Data))
           @@ (<<"p", "m">> :> Reg("m", 1, Script(<<"lib", "c">>))) @@ (<<"p", "k">> :> Abs(<<"p", "lib">>)),
    !.prefix = <<"p">>, !.force = TRUE,
    !.args = <<Arg(<<"p", "m">>), Arg(<<"p", "k">>), Arg(<<"p", "lib">>)>>]

\* Files the destination has, excluded files, --dry-run, and hosts that are not sound.
Had == [Programs EXCEPT !.dest = (<<"bin">> :> Dir) @@ (<<"bin", "a">> :> Old)]
Excluded == [Programs EXCEPT !.exclude = {<<"usr", "lib">>}, !.sound = FALSE, !.jobs = 1]
\* The destination has a file where a directory belongs, with nothing and with
\* something below it; a source becomes shorter or cannot be read to its end.
Hollow == [Base EXCEPT !.fs = (<<"d">> :> Dir) @@ (<<"x">> :> Reg("x", 1, Data)), !.dest = <<"d">> :> Old, !.force = TRUE,
                       !.shrunk = {"x"}, !.unsupported = {"range"}, !.args = <<Arg(<<"d">>), Arg(<<"x">>)>>]
Occupied(f, node) == [Hollow EXCEPT !.fs = @ @@ (<<"d", "y">> :> node), !.force = f, !.sound = FALSE, !.broken = {"x"}]
\* It has a file that the tree reaches through a link it has not got.
Linked == [Rounds EXCEPT !.dest = (<<"usr">> :> Dir) @@ (<<"usr", "f">> :> Dir) @@ (<<"usr", "f", "sh">> :> Old)]
Dry == [Programs EXCEPT !.dry = TRUE, !.log = FALSE]
Loop == [Base EXCEPT !.fs = (<<"a">> :> Rel(<<"b">>)) @@ (<<"b">> :> Rel(<<"a">>)), !.sound = FALSE,
                     !.args = <<Arg(<<"a">>)>>]
NotDir == [Programs EXCEPT !.args = <<Arg(<<"bin", "a", "">>)>>, !.sound = FALSE]
Missing == [Base EXCEPT !.fs = <<"s">> :> Reg("s", 1, Script(<<"x">>)), !.sound = FALSE, !.args = <<Arg(<<"s">>)>>]

PutCases == [programs |-> Programs, dlopen |-> Dlopen, tree |-> Tree, nolinks |-> NoLinks,
             rounds |-> Rounds, prefix |-> Prefix, had |-> Had, excluded |-> Excluded, dry |-> Dry,
             rpath |-> Rpath, runpath |-> Runpath, later |-> Later, hollow |-> Hollow, linked |-> Linked,
             occfile |-> Occupied(TRUE, Reg("y", 1, Data)), occdir |-> Occupied(TRUE, Dir),
             occnode |-> Occupied(TRUE, [type |-> "fifo"]), occold |-> Occupied(FALSE, Dir),
             occlost |-> [Occupied(FALSE, Dir) EXCEPT !.args = <<Arg(<<"d", "y">>)>>],
             loop |-> Loop, notdir |-> NotDir, missing |-> Missing]

----------------------------------------------------------------------------
\* Rules files and kernel directories for initrd-scanmod.
Rule(kw, not, pat) == [kind |-> "rule", keyword |-> kw, not |-> not, pat |-> pat]
Comment == [kind |-> "comment", keyword |-> "", not |-> FALSE, pat |-> {}]
File(n, ls) == [name |-> n, readable |-> TRUE, lines |-> ls]
Ko(path, info, syms) ==
  [fts |-> "F", ext |-> "ko.xz", path |-> path, opens |-> TRUE, infofails |-> FALSE, symbolsfail |-> FALSE,
   info |-> info, provided |-> {}, required |-> syms]
KernelDir ==
  [ahci |-> Ko("drivers/ata", {<<"alias", "pci">>, <<"license", "GPL">>}, {"ata_sg"}),
   ext4 |-> Ko("fs", {<<"alias", "fs-ext4">>}, {"iget"}),
   readme |-> [Ko("fs", {}, {}) EXCEPT !.ext = "txt"]]
Loose(m) == [KernelDir EXCEPT !.ahci = m]
Ata == File("ata", <<Comment, Rule("filename", FALSE, {"drivers/ata"}), Rule("symbol", FALSE, {"ata_sg"}),
                     Rule("alias", TRUE, {"usb"})>>)
Fs == File("fs", <<Rule("filename", FALSE, {"fs"})>>)
Gpl == File("gpl", <<Rule("license", FALSE, {"GPL"}), Rule("symbol", TRUE, {"iget"})>>)
Empty == File("empty", <<Comment>>)
ScanBase == [files |-> <<Ata, Gpl, Ata>>, dir |-> KernelDir, kmod |-> TRUE]
ScanCases ==
  [both |-> ScanBase,
   fs |-> [ScanBase EXCEPT !.files = <<Empty, Fs, Gpl>>],
   inverted |-> [ScanBase EXCEPT !.files = <<File("n", <<Rule("symbol", TRUE, {"ata_sg"})>>),
                                             File("m", <<Rule("license", FALSE, {"GPL"}), Rule("symbol", FALSE, {"iget"})>>)>>],
   badinfo |-> [ScanBase EXCEPT !.dir = Loose([KernelDir.ahci EXCEPT !.infofails = TRUE]), !.files = <<Gpl, Ata, Fs>>],
   badsymbols |-> [ScanBase EXCEPT !.dir = Loose([KernelDir.ahci EXCEPT !.symbolsfail = TRUE])],
   unopened |-> [ScanBase EXCEPT !.dir = Loose([KernelDir.ahci EXCEPT !.opens = FALSE])],
   dangling |-> [ScanBase EXCEPT !.dir = Loose([KernelDir.ahci EXCEPT !.fts = "SLNONE"])],
   unlisted |-> [ScanBase EXCEPT !.dir = Loose([KernelDir.ahci EXCEPT !.fts = "DNR"])],
   nomodules |-> [ScanBase EXCEPT !.dir = [readme |-> KernelDir.readme]],
   nokmod |-> [ScanBase EXCEPT !.kmod = FALSE],
   unreadable |-> [ScanBase EXCEPT !.files = <<Fs, [Ata EXCEPT !.readable = FALSE]>>],
   badrule |-> [ScanBase EXCEPT !.files = <<File("x", <<Rule("colour", FALSE, {})>>)>>]]

----------------------------------------------------------------------------
\* Modules for depinfo: every graph of dependencies of three modules, and one set
\* of modules with all there is, under every choice of the options.
Plain(deps) == [unreadable |-> FALSE, info |-> <<[key |-> "depends", val |-> SetToSeq(deps)]>>,
                softdeps |-> <<>>, weakdeps |-> <<>>]
Abc == {"a", "b", "c"}
AllOptions == {"tree", "deps", "modules", "firmware", "builtin", "blacklist", "missing"}
NoModinfo == [kind |-> "absent"]
DepGraph(g) ==
  [opts |-> AllOptions, names |-> <<[name |-> "a", file |-> FALSE]>>, input |-> TRUE,
   mods |-> [m \in Abc |-> Plain(g[m])], lookup |-> [m \in Abc |-> <<m>>], blacklist |-> {}, builtin |-> {},
   modinfo |-> [kernel |-> NoModinfo, modules |-> NoModinfo], fwdirs |-> <<"cls", "fw">>, files |-> [c \in {} |-> <<>>]]
Entry(k, v) == [key |-> k, val |-> v]
Known(al, fw) == [aliases |-> al, firmware |-> fw]
Modinfo == [kind |-> "good", mods |-> [e |-> Known({"pci"}, <<"f2">>), d |-> Known({}, <<>>)]]
Modinfo2 == [kind |-> "good", mods |-> [e |-> Known({"pci"}, <<"f1">>)]]
Rich(opts) ==
  [DepGraph([m \in Abc |-> {}]) EXCEPT
    !.opts = opts,
    !.names = <<[name |-> "x", file |-> FALSE], [name |-> "c", file |-> TRUE]>>,
    !.mods = [a |-> [Plain({"b", "pci"}) EXCEPT !.softdeps = <<<<"c">>, <<>>>>, !.weakdeps = <<<<"d">>>>],
              b |-> [Plain({"a"}) EXCEPT !.info = @ \o <<Entry("softdep", <<"c", "gone">>), Entry("firmware", <<"f1">>)>>],
              c |-> [Plain({}) EXCEPT !.info = <<Entry("firmware", <<"f1", "f3">>), Entry("weakdep", <<"w", "gone">>)>>],
              w |-> Plain({})],
    !.lookup = [x |-> <<"a", "k">>, a |-> <<"a">>, b |-> <<"b">>, c |-> <<"c">>, w |-> <<"w">>],
    !.blacklist = {"c"}, !.builtin = {"k", "d"},
    !.modinfo = [kernel |-> Modinfo, modules |-> Modinfo2],
    !.files = (<<"cls", "", "f1", ".xz">> :> <<"cls/f1.xz">>) @@ (<<"fw", "kversion", "f1", "">> :> <<"fw/v/f1">>)
              @@ (<<"fw", "", "f2", "">> :> <<"fw/f2a", "fw/f2b">>)]
Odd ==
  [lost |-> [Rich(AllOptions) EXCEPT !.modinfo.kernel = NoModinfo, !.modinfo.modules = NoModinfo],
   emptyinfo |-> [Rich(AllOptions) EXCEPT !.modinfo.kernel = [kind |-> "empty"]],
   badinfo |-> [Rich(AllOptions) EXCEPT !.modinfo.modules = [kind |-> "bad"]],
   unreadable |-> [Rich(AllOptions) EXCEPT !.mods.b.unreadable = TRUE],
   optional |-> [Rich({"deps", "modules", "builtin"}) EXCEPT !.mods.c.unreadable = TRUE, !.names = <<@[1]>>],
   absent |-> [Rich(AllOptions) EXCEPT !.lookup.b = <<"z">>],
   badinput |-> [Rich(AllOptions) EXCEPT !.input = FALSE]]
DepCases == {DepGraph(g) : g \in [Abc -> SUBSET Abc]} \cup {Rich(o) : o \in SUBSET AllOptions}
            \cup {Odd[n] : n \in DOMAIN Odd}

----------------------------------------------------------------------------
\* Images for initrd-extract, laid out as the newc format says.
Newc(t, name, body) == [kind |-> "entry", type |-> t, name_len |-> name, string |-> name, body_len |-> body]
NewcEnds(es) == LET end[i \in 0..Len(es)] ==
                      IF i = 0 THEN 0
                      ELSE Align(Align(end[i - 1] + 110 + es[i].name_len, 4) + es[i].body_len, 4)
                IN end
EntriesAt(es, base) ==
  LET ends == NewcEnds(es)
  IN [o \in {base + ends[i - 1] : i \in DOMAIN es} |-> es[CHOOSE i \in DOMAIN es : base + ends[i - 1] = o]]
CpioAt(es, base) == EntriesAt(Append(es, Trailer), base)
CpioSize(es) == Align(NewcEnds(Append(es, Trailer))[Len(es) + 1], 512)
Holding(at, size) == [at |-> at, size |-> size]
Packed(format, stream, readed) ==
  [kind |-> "compressed", format |-> format, stream |-> stream, readed |-> readed, ends |-> {readed}, damage |-> "none",
   last |-> TRUE]

Early == <<Newc("dir", 2, 0), Newc("reg", 5, 3)>>
Main == <<Newc("dir", 4, 0), Newc("link", 7, 6), Newc("node", 8, 0), Newc("reg", 6, 0)>>
Late == <<Newc("reg", 3, 9)>>
Image(at, size, archives) ==
  [streams |-> [image |-> Holding(at, size)], archive |-> 0, archives |-> archives, packed |-> TRUE]

\* A raw archive, a compressed stream of two, one of them compressed once more,
\* and an archive without trailer.
Row ==
  LET e == CpioSize(Early)
      m == CpioSize(Main)
      l == NewcEnds(Late)[1]
  IN [Image(CpioAt(Early, 0) @@ (e :> Packed("gzip", "main", 301)) @@ EntriesAt(Late, e + 301), e + 301 + l,
            <<Early, Main, Early, Late>>)
      EXCEPT !.streams = @ @@ [main |-> Holding(CpioAt(Main, 0) @@ (m :> Packed("xz", "inner", 77)), m + 77),
                               inner |-> Holding(CpioAt(Early, 0), e)]]
WithConfig(i, size) ==
  LET e == CpioSize(Early)
  IN Image(CpioAt(Early, 0) @@ (e + 8 + 8 :> [kind |-> "bootconfig", size |-> size]), e + 8 + 8 + 12 + i, <<Early>>)
Lone(item, size) ==
  LET e == CpioSize(Early)
  IN [Image(CpioAt(Early, 0) @@ (e :> item), e + item.readed, <<Early, <<Newc("reg", 5, size)>>>>)
      EXCEPT !.streams = @ @@ [main |-> Holding(CpioAt(<<Newc("reg", 5, size)>>, 0), CpioSize(<<Newc("reg", 5, size)>>))]]
Before(image) ==   \* the same, with an archive behind the compressed one
  LET s == image.streams["image"]
  IN [image EXCEPT !.streams["image"] = Holding(s.at @@ CpioAt(Late, s.size), s.size + CpioSize(Late)),
                   !.archives = Append(@, Late)]
NotLast(item) == [item EXCEPT !.last = FALSE]
Hurt(item, how) == [item EXCEPT !.damage = how]
Broken(item) == [Image((0 :> item), 600, <<>>) EXCEPT !.packed = FALSE]
Zstd(n) == Packed("zstd", "main", n)
Frames(ends) == [Zstd(Max(ends)) EXCEPT !.ends = ends]
Shapes == {Newc(t, n, b) : t \in {"reg", "node"}, n \in 2..5, b \in 0..4}

Images ==
  {[Row EXCEPT !.archive = a] : a \in 0..5}
  \cup {[WithConfig(i, 8) EXCEPT !.archive = a] : i \in 0..3, a \in 0..2}
  \cup {[WithConfig(0, 5000) EXCEPT !.packed = FALSE]}
  \cup {Lone(Packed(f, "main", 333), size) : f \in {"gzip", "bzip2", "xz", "zstd"}, size \in {100, CHUNK - 1024, CHUNK - 300}}
  \cup {Before(Lone(NotLast(Packed(f, "main", 333)), 100)) : f \in {"gzip", "bzip2", "xz", "zstd"}}
  \cup {Before(Lone(NotLast(Zstd(n)), 200)) : n \in {ZSTD_DStreamInSize - 1, ZSTD_DStreamInSize}}
  \cup {Lone(Frames(ends), 200) : ends \in {{60, 90}, {60, ZSTD_DStreamInSize + 500}, {ZSTD_DStreamInSize - 1, ZSTD_DStreamInSize},
                                            {60, ZSTD_DStreamInSize, ZSTD_DStreamInSize + 40}}}
  \cup {Before(Lone(NotLast(Frames({60, 90})), 200))}
  \cup {Lone(Hurt(Packed(f, "main", 50), h), 100) : f \in {"gzip", "bzip2", "xz", "zstd"}, h \in {"truncated", "corrupt"}}
  \cup {Broken(Packed("lz4", "image", 9)), Broken(Newc("reg", 0, 0)), Broken(Newc("reg", 4, 900)), Broken([kind |-> "bytes"])}
  \cup {Image(CpioAt(<<e, e>>, 0), CpioSize(<<e, e>>), <<<<e, e>>>>) :
          e \in Shapes \cup {[Newc("reg", 9, 2) EXCEPT !.string = 6]}}
  \cup {[Image(EntriesAt(<<Trailer>>, 0), n, <<>>) EXCEPT !.packed = FALSE] : n \in {100, 112}}

----------------------------------------------------------------------------
\* Init scripts: those of the image, with changes, and three scripts with every
\* choice of requirements.
Script3(n, req) ==
  [name |-> n, provide |-> {}, S_level |-> {3, 4, 5}, K_level |-> {}, S_require |-> req, K_require |-> <<>>,
   S_should |-> <<>>, K_should |-> <<>>, S_before |-> <<>>, daemon |-> TRUE, fails |-> FALSE, asked |-> FALSE,
   stuck |-> FALSE]
Scripts ==
  <<[Script3("uevent", <<"mountvirtfs", "fstab">>) EXCEPT !.S_should = <<"syslog">>],
    [Script3("runinit", <<>>) EXCEPT !.S_level = {2}, !.S_should = <<"killall">>, !.daemon = FALSE],
    [Script3("killall", <<>>) EXCEPT !.S_level = {0, 2, 6}, !.daemon = FALSE],
    [Script3("uevent-mounts", <<"mountfs">>) EXCEPT !.S_before = <<"uevent">>],
    [Script3("fstab", <<>>) EXCEPT !.daemon = FALSE],
    [Script3("mountfs", <<"fstab">>) EXCEPT !.provide = {"mountvirtfs"}]>>
BootBase == [svcs |-> Scripts, fstab |-> [root |-> TRUE, usr |-> TRUE], rootonly |-> FALSE, init |-> TRUE,
             resume |-> TRUE, early |-> TRUE, user |-> <<>>]
Three(g) == [BootBase EXCEPT !.init = FALSE, !.early = FALSE, !.svcs =
               [i \in 1..3 |-> Script3(<<"a", "b", "c">>[i], SetToSeq(g[i]))]]
BootCases ==
  {Three(g) : g \in [1..3 -> SUBSET Abc]}
  \cup {[Three([i \in 1..3 |-> {}]) EXCEPT !.svcs[1].S_level = l, !.svcs[2].S_level = m, !.svcs[1].S_require = r,
          !.svcs[2].K_require = k, !.svcs[3].S_before = b, !.svcs[3].provide = p, !.user = u] :
          l \in {{3}, {2, 3}}, m \in {{3}, {2}}, r \in {<<>>, <<"b">>}, k \in {<<>>, <<"a", "a">>},
          b \in {<<>>, <<"x", "a">>, <<"c">>}, p \in {{}, {"b"}}, u \in {<<>>, <<2, 1, 3>>}}
  \cup {BootBase, [BootBase EXCEPT !.init = FALSE], [BootBase EXCEPT !.rootonly = TRUE, !.resume = FALSE],
        [BootBase EXCEPT !.fstab.usr = FALSE], [BootBase EXCEPT !.user = <<4, 1>>], [BootBase EXCEPT !.user = <<2>>],
        [BootBase EXCEPT !.svcs[1].fails = TRUE], [BootBase EXCEPT !.svcs[4].asked = TRUE],
        [BootBase EXCEPT !.svcs[6].fails = TRUE, !.early = FALSE],
        [BootBase EXCEPT !.svcs[1].stuck = TRUE, !.svcs[6].stuck = TRUE],
        [BootBase EXCEPT !.svcs[1].stuck = TRUE, !.user = <<4, 1, 3>>]}

ASSUME ImagesOK == \A i \in Images : ImageOK(i)

toolVars == <<tool, putVars, scanVars, depVars, extractVars, bootVars>>

BuildInit ==
  /\ tool \in {"put", "scanmod", "depinfo", "extract", "boot"}
  /\ PutInit /\ (tool # "put" => putJob = "dry")
  /\ ScanInit /\ (tool # "scanmod" => scanJob = "nokmod")
  /\ DepStart(IF tool = "depinfo" THEN DepCases ELSE {Odd.lost})
  /\ ExtractStart(IF tool = "extract" THEN Images ELSE {Row})
  /\ BootStart(IF tool = "boot" THEN BootCases ELSE {BootBase})

Step ==
  \/ tool = "put" /\ PutStep /\ UNCHANGED <<scanVars, depVars, extractVars, bootVars>>
  \/ tool = "scanmod" /\ ScanStep /\ UNCHANGED <<putVars, depVars, extractVars, bootVars>>
  \/ tool = "depinfo" /\ DepStep /\ UNCHANGED <<putVars, scanVars, extractVars, bootVars>>
  \/ tool = "extract" /\ ExtractStep /\ UNCHANGED <<putVars, scanVars, depVars, bootVars>>
  \/ tool = "boot" /\ BootStep /\ UNCHANGED <<putVars, scanVars, depVars, extractVars>>
ToolFinished == CASE tool = "put" -> PutFinished
                  [] tool = "scanmod" -> ScanFinished
                  [] tool = "depinfo" -> DepFinished
                  [] tool = "extract" -> ExtractFinished
                  [] tool = "boot" -> BootFinished

BuildNext == UNCHANGED tool /\ (Step \/ (ToolFinished /\ UNCHANGED toolVars))
\* Each program runs on, and at boot a resume device is looked for at some time.
BuildSpec ==
  /\ BuildInit /\ [][BuildNext]_toolVars /\ WF_toolVars(BuildNext)
  /\ WF_toolVars(tool = "boot" /\ ResumeChecked /\ UNCHANGED <<tool, putVars, scanVars, depVars, extractVars>>)

\* The states of the three programs that keep more than a position in a file.
BuildTypeOK == PutTypeOK /\ ScanTypeOK /\ DepTypeOK

\* Every tool ends: the lookups of initrd-put whatever the links, the threads of
\* both programs, the recursion of depinfo whatever the cycle of dependencies;
\* initrd-extract for all images but those with something behind a zstd frame that
\* ends with a read; and boot reaches the real init, or waits where BootSwitches
\* allows it.
ToolTerminates == (tool = "extract" => ~ExtractEndless) => <>ToolFinished
============================================================================
