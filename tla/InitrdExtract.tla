---------------------------- MODULE InitrdExtract ----------------------------
(***************************************************************************)
(* initrd-extract and initrd-ls (utils/initrd-extract, utils/initrd-ls,    *)
(* initrd-parse.c, initrd-cpio.c, initrd-decompress*.c): an initramfs is a *)
(* row of cpio archives, some of them compressed, and perhaps a bootconfig *)
(* at the end.  initrd-extract finds the archives and writes the entries   *)
(* of all of them, or of one, as a single archive.  A stream is its size   *)
(* and what begins at which offset; an entry is its file type and the      *)
(* lengths of its name and body.                                           *)
(***************************************************************************)
EXTENDS Naturals, Sequences, FiniteSets, Folds

VARIABLES
  img,      \* the initramfs' streams, by name, and --archive (0: all)
  xpc,      \* where main() is
  stack,    \* read_stream() calls itself: [of, size, offset, raw], innermost last
  cpios,    \* res->cpios: [type, headers]
  conf,     \* a bootconfig was cut off
  nth,      \* the archive to write next
  hdr,      \* its header to write next
  out,      \* the output: offset -> the entry whose header begins there
  outSize   \* "offset" of main()

extractVars == <<img, xpc, stack, cpios, conf, nth, hdr, out, outSize>>

CPIO_HEADER_SIZE == 110
CPIO_FORMAT_LENGTH == 6
BOOTCONFIG_MAGIC_LEN == 12
CHUNK == 16384
ZSTD_DStreamInSize == 131075

Align(n, unit) == n + ((unit - (n % unit)) % unit)
\* The padding of a name, counted from the end of the header.
N_ALIGN(len) == ((len + 1) - ((len + 1) % 4)) + 2

\* raw: the offset of the archive that is being read, if one is.
NoCpio == [reads |-> FALSE, from |-> 0]
ReadFrom(o) == [reads |-> TRUE, from |-> o]
Stream(s, size) == [of |-> s, size |-> size, offset |-> 0, raw |-> NoCpio]
Item(s, o) == IF o \in DOMAIN img.streams[s].at THEN img.streams[s].at[o] ELSE [kind |-> "bytes"]

\* Lengths are numbers, and what is compressed is a stream.
Lengths(e) == e.name_len \in Nat /\ e.string \in Nat /\ e.body_len \in Nat
ImageOK(i) ==
  /\ "image" \in DOMAIN i.streams
  /\ \A s \in DOMAIN i.streams :
       /\ i.streams[s].size \in Nat
       /\ \A o \in DOMAIN i.streams[s].at :
            LET a == i.streams[s].at[o]
            IN /\ a.kind = "entry" => Lengths(a)
               /\ a.kind = "bootconfig" => a.size \in Nat
               /\ a.kind = "compressed" => a.stream \in DOMAIN i.streams /\ a.readed \in Nat

ExtractStart(jobs) ==
  /\ img \in jobs
  /\ xpc = "start" /\ stack = <<>> /\ cpios = <<>> /\ conf = FALSE
  /\ nth = 1 /\ hdr = 1 /\ out = [o \in {} |-> <<>>] /\ outSize = 0

ExtractFail == xpc' = "fail" /\ UNCHANGED <<stack, cpios, conf>>

\* Mutant: the first element goes.
list_shiftHead(s) == Tail(s)

\* initrd-common.c: the last element is what list_shift() takes off.
list_append(s, e) == Append(s, e)
list_shift(s) == SubSeq(s, 1, Len(s) - 1)

----------------------------------------------------------------------------
(* read_stream() *)

\* On the first level only: the bootconfig lies before its magic, which a boot
\* loader's padding may have moved up to three bytes from the end.
Full == img.streams["image"].size
Magic(i) == Item("image", Full - BOOTCONFIG_MAGIC_LEN - i)
BootConfig ==
  /\ xpc = "start"
  /\ \/ /\ \A i \in 0..3 : Magic(i).kind # "bootconfig"
        /\ stack' = <<Stream("image", Full)>> /\ xpc' = "parse"
        /\ UNCHANGED <<cpios, conf>>
     \/ \E i \in 0..3 :
          /\ Magic(i).kind = "bootconfig" /\ \A j \in 0 .. i - 1 : Magic(j).kind # "bootconfig"
          /\ IF Magic(i).size > Full THEN ExtractFail
             ELSE /\ stack' = <<Stream("image", Full - BOOTCONFIG_MAGIC_LEN - i - 8 - Magic(i).size)>>
                  /\ xpc' = "parse" /\ conf' = TRUE /\ UNCHANGED cpios
  /\ UNCHANGED <<img, nth, hdr, out, outSize>>

Inner == stack[Len(stack)]
Here == Item(Inner.of, Inner.offset)
Rest == Inner.size - Inner.offset
Parsing == xpc = "parse" /\ stack # <<>>
Replace(frame) == stack' = [stack EXCEPT ![Len(stack)] = frame]

\* The magic of a format this build has a decompressor for.
decompress_method == Here.kind = "compressed" /\ Rest >= 2 /\ Here.format \in {"gzip", "bzip2", "xz", "zstd"}

\* What the decompressors return.  All loop until a chunk is not filled; libbz2
\* refuses the call after its end, so a stream that fills its last chunk fails.
gunzip(a) == IF a.damage = "none" THEN "ok" ELSE "fail"
unlzma(a) == gunzip(a)
bunzip2(a) == LET size == img.streams[a.stream].size
              IN IF size > 0 /\ size % CHUNK = 0 THEN "fail" ELSE gunzip(a)
\* unzstd() feeds all that is left, and takes what it got when the input ends
\* early; a.ends is where the frames end.  All that begins in the first read is
\* one call after the other, and what is no frame is an error.  Later reads are of
\* the size zstd asks for, so the frame that reaches beyond the first read, or to
\* its end, ends with a read.  zstd then asks for 0 bytes; if anything is left, be
\* it another frame, the loop reads 0 bytes forever.
unzstd(a, rest) ==
  LET later == {e \in a.ends : e >= ZSTD_DStreamInSize}
  IN CASE a.damage = "corrupt" -> "fail"
       [] \E e \in later : e < rest -> "hang"
       [] later = {} /\ a.readed < rest -> "fail"
       [] OTHER -> "ok"
decompress(a, rest) == CASE a.format = "gzip" -> gunzip(a)
                         [] a.format = "xz" -> unlzma(a)
                         [] a.format = "bzip2" -> bunzip2(a)
                         [] OTHER -> unzstd(a, rest)

\* A compressed stream is read to its end before the bytes behind it.
Decompress ==
  /\ Parsing /\ ~Inner.raw.reads /\ Rest > 0 /\ decompress_method
  /\ LET ret == decompress(Here, Rest)
     IN IF ret = "ok"
        THEN /\ stack' = Append([stack EXCEPT ![Len(stack)].offset = @ + Here.readed],
                                Stream(Here.stream, img.streams[Here.stream].size))
             /\ UNCHANGED <<xpc, cpios, conf>>
        ELSE xpc' = ret /\ UNCHANGED <<stack, cpios, conf>>
  /\ UNCHANGED <<img, nth, hdr, out, outSize>>

\* unzstd()'s loop, when the next read is of 0 bytes.
ReadNothing == xpc = "hang" /\ UNCHANGED extractVars

\* Everything else is taken for an archive.
OpenCpio ==
  /\ Parsing /\ ~Inner.raw.reads /\ Inner.offset < Inner.size /\ ~decompress_method
  /\ cpios' = list_append(cpios, [type |-> "archive", headers |-> <<>>])
  /\ Replace([Inner EXCEPT !.raw = ReadFrom(Inner.offset)])
  /\ UNCHANGED <<img, xpc, conf, nth, hdr, out, outSize>>

\* parse_header(): where an entry at o ends, by the lengths its header states.
EntryEnd(e, o) == o + CPIO_HEADER_SIZE + N_ALIGN(e.name_len) + e.body_len

\* One round of read_cpio().  Offsets count from the start of the archive; the
\* trailer ends it and is taken off the list again.
ReadEntry ==
  /\ Parsing /\ Inner.raw.reads /\ Inner.offset < Inner.size
  /\ LET raw == Inner.raw.from
         size == Inner.size - raw
         offset == Inner.offset - raw
         next == Align(EntryEnd(Here, offset), 4)
         headers == list_append(cpios[Len(cpios)].headers, Here)
     IN IF \/ size < CPIO_FORMAT_LENGTH + CPIO_HEADER_SIZE
           \/ Here.kind # "entry"
           \/ offset + CPIO_HEADER_SIZE > size
        THEN ExtractFail
        ELSE IF Here.name_len = 0 \/ next > size THEN ExtractFail
        ELSE /\ IF Here.type = "trailer"
                THEN /\ Replace([Inner EXCEPT !.offset = raw + Align(next, 512), !.raw = NoCpio])
                     /\ cpios' = [cpios EXCEPT ![Len(cpios)].headers = list_shift(headers)]
                ELSE /\ Replace([Inner EXCEPT !.offset = raw + next])
                     /\ cpios' = [cpios EXCEPT ![Len(cpios)].headers = headers]
             /\ UNCHANGED <<xpc, conf>>
  /\ UNCHANGED <<img, nth, hdr, out, outSize>>

\* An archive may end without a trailer.
CloseCpio ==
  /\ Parsing /\ Inner.raw.reads /\ Inner.offset >= Inner.size
  /\ Replace([Inner EXCEPT !.raw = NoCpio])
  /\ UNCHANGED <<img, xpc, cpios, conf, nth, hdr, out, outSize>>

\* The end of a stream; the first one's adds the bootconfig.
EndStream ==
  /\ Parsing /\ ~Inner.raw.reads /\ Inner.offset >= Inner.size
  /\ stack' = SubSeq(stack, 1, Len(stack) - 1)
  /\ IF Len(stack) > 1 THEN UNCHANGED <<xpc, cpios>>
     ELSE /\ cpios' = IF conf THEN list_append(cpios, [type |-> "bootconfig", headers |-> <<>>]) ELSE cpios
          /\ xpc' = "write"
  /\ UNCHANGED <<img, conf, nth, hdr, out, outSize>>

----------------------------------------------------------------------------
(* main(): the archives asked for, with write_cpio() and write_trailer() *)

Selected == cpios[nth].type = "archive" /\ img.archive \in {0, nth}

NextCpio ==
  /\ xpc = "write" /\ nth <= Len(cpios)
  /\ ~Selected \/ hdr > Len(cpios[nth].headers)
  /\ nth' = nth + 1 /\ hdr' = 1
  /\ UNCHANGED <<img, xpc, stack, cpios, conf, out, outSize>>

\* The name is written as a string, whatever name_len says.  push_rest() pads by
\* the length of header and name, push_pad() by the offset in the output.
push_hdr(offset) == offset + CPIO_HEADER_SIZE
push_rest(e, offset) == offset + e.string + (Align(CPIO_HEADER_SIZE + e.string, 4) - (CPIO_HEADER_SIZE + e.string))
push_string(e, offset) == offset + e.string
push_pad(offset) == Align(offset, 4)

\* Mutant: a link has no body either.
write_cpioLink(e, offset) ==
  IF e.type # "reg" THEN push_rest(e, push_hdr(offset))
  ELSE push_pad(push_pad(push_string(e, push_hdr(offset))) + e.body_len)

write_cpio(e, offset) ==
  LET body == push_pad(push_string(e, push_hdr(offset)))
  IN IF e.type \in {"dir", "node"} THEN push_rest(e, push_hdr(offset))   \* no body
     ELSE IF e.body_len = 0 THEN body ELSE push_pad(body + e.body_len)

Write(e, end) ==
  /\ out' = [o \in DOMAIN out \cup {outSize} |-> IF o = outSize THEN e ELSE out[o]]
  /\ outSize' = end
WriteEntry ==
  /\ xpc = "write" /\ nth <= Len(cpios)
  /\ Selected /\ hdr <= Len(cpios[nth].headers)
  /\ Write(cpios[nth].headers[hdr], write_cpio(cpios[nth].headers[hdr], outSize))
  /\ hdr' = hdr + 1
  /\ UNCHANGED <<img, xpc, stack, cpios, conf, nth>>

Trailer == [kind |-> "entry", type |-> "trailer", name_len |-> 11, string |-> 11, body_len |-> 0]
WriteTrailer ==
  /\ xpc = "write" /\ nth > Len(cpios)
  /\ Write(Trailer, Align(push_rest(Trailer, push_hdr(outSize)), 512))
  /\ xpc' = "ok"
  /\ UNCHANGED <<img, stack, cpios, conf, nth, hdr>>

ExtractStep == BootConfig \/ Decompress \/ ReadNothing \/ OpenCpio \/ ReadEntry \/ CloseCpio \/ EndStream
               \/ NextCpio \/ WriteEntry \/ WriteTrailer
ExtractFinished == xpc \in {"ok", "fail"}

\* initrd-ls: the number it shows the entries of cpios[i] under; only archives
\* count.
ShownAs(i) == 1 + Cardinality({j \in 1 .. i - 1 : cpios[j].type = "archive"})

----------------------------------------------------------------------------
(* Properties *)

\* An entry as archivers write it: name_len counts the name and the 0 behind it,
\* and a directory or device has no body.
Regular(e) == e.name_len = e.string /\ (e.type \in {"dir", "node"} => e.body_len = 0)

\* What write_cpio() and write_trailer() lay out, read_cpio() finds again: by the
\* reader's arithmetic every regular entry written ends where the next one
\* begins, up to the trailer, which ends the output at a multiple of 512.
ExtractReadable ==
  /\ 0 \in DOMAIN out \cup {outSize}
  /\ \A o \in DOMAIN out : Regular(out[o]) =>
       LET end == Align(EntryEnd(out[o], o), 4)
       IN IF out[o].type = "trailer" THEN xpc = "ok" /\ Align(end, 512) = outSize
          ELSE end \in DOMAIN out \cup (IF xpc = "ok" THEN {} ELSE {outSize})

\* The lists one after another.
InOrder(lists) ==
  LET First(S) == CHOOSE k \in S : \A l \in S : k <= l
  IN MapThenFoldSet(\o, <<>>, LAMBDA k : lists[k], First, DOMAIN lists)

\* The output holds exactly the entries of the archives asked for, in their
\* order, however these were compressed, nested, padded or left without trailer;
\* img.archives is what the streams hold.
ExtractAll ==
  xpc = "ok" =>
    LET wanted == IF img.archive = 0 THEN InOrder(img.archives)
                  ELSE IF img.archive <= Len(img.archives) THEN img.archives[img.archive] ELSE <<>>
    IN /\ Cardinality(DOMAIN out) = Len(wanted) + 1
       /\ \A o \in DOMAIN out : out[o] = Append(wanted, Trailer)[1 + Cardinality({p \in DOMAIN out : p < o})]

\* read_stream() accepts every image the manual of initrd-ls speaks of ("Archives
\* can be compressed"), but for the limits of its decompressors: no bzip2 stream
\* that fills its last chunk, nothing but zstd frames behind a zstd frame, and of
\* several frames none but the last that reaches beyond the first read.
ZstdBehind(a) == {e \in a.ends : e >= ZSTD_DStreamInSize /\ (e < a.readed \/ ~a.last)}
Undamaged(a) ==
  /\ a.damage = "none"
  /\ a.format = "bzip2" => img.streams[a.stream].size % CHUNK # 0
  /\ a.format = "zstd" => a.last /\ ZstdBehind(a) = {}
Compressed(f) ==
  UNION {{a \in {img.streams[s].at[o] : o \in DOMAIN img.streams[s].at} : a.kind = "compressed" /\ a.format \in f} :
         s \in DOMAIN img.streams}
Sound == \A a \in Compressed({"gzip", "bzip2", "xz", "zstd"}) : Undamaged(a)
ExtractAccepts == img.packed /\ Sound => xpc \notin {"fail", "hang"}

\* The images unzstd() may never come to the end of.
ExtractEndless == \E a \in Compressed({"zstd"}) : ZstdBehind(a) # {}

\* The number initrd-ls shows for an archive is the one --archive takes, although
\* the two programs count parts that are no archive differently.
ExtractNumbered == xpc \in {"write", "ok"} => \A i \in DOMAIN cpios : cpios[i].type = "archive" => ShownAs(i) = i

\* initrd-extract takes every image it should take, finds its archives under the
\* numbers initrd-ls shows, and writes exactly their entries.
ExtractFaithful == ExtractAccepts /\ ExtractNumbered /\ ExtractAll

==============================================================================
