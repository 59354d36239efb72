------------------------------ MODULE BootElf ------------------------------
(***************************************************************************)
(* The boot loader's ELF loader and what it does to memory: headers,       *)
(* segments, the table of memory operations that copies between flash,     *)
(* RRAM and RAM, the DXE writes to RRAM in 16-byte blocks, the hash check  *)
(* of what was loaded, and the anti-rollback fuses written after it.       *)
(*                                                                         *)
(* SblBoot takes loading and checking an image as steps that succeed or    *)
(* fail; here is what they leave in memory.  A byte of the image is its    *)
(* position in the file (from 1), 0 is a zeroed byte, and Old is what      *)
(* memory held before.  Sizes are scaled; each is a constant that keeps    *)
(* the order and the divisibility of the sizes in the code.                *)
(***************************************************************************)
EXTENDS Integers, Sequences, FiniteSets
LOCAL INSTANCE SequencesExt

CONSTANTS
    RamEnd,       \* FRN_RAM_END: the address of the last byte of RAM
    RramStart,    \* RRAM_START
    RramEnd,      \* RRAM_END: the address of the last byte of RRAM
    FlashBase,    \* APP_IMAGE_FLASH_ADDRESS
    FlashEnd,     \* FRN_FLASH_END: the first address behind flash
    WordSize,     \* RRAM addresses must be multiples of it
    BlockAlign,   \* RRAM_WRITE_ADR_BYTE_ALIGN
    BlockMax,     \* RRAM_WRITE_BLOCK_MAX_SIZE
    ReadBuf,      \* RRAM_READ_BUF_SIZE
    SetBuf,       \* RRAM_SET_BUFFER_SIZE
    HeaderSize,   \* bytes of the ELF header; a program header takes one more
    FuseBits,     \* anti-rollback fuses
    Boots         \* the images that may be stored, each with an auth_state

ASSUME LoaderAssumption ==
    /\ {RamEnd, WordSize, BlockAlign, BlockMax, ReadBuf, SetBuf, HeaderSize, FuseBits}
           \subseteq Nat \ {0}
    /\ RamEnd < RramStart /\ RramStart < RramEnd
    /\ RramEnd < FlashBase - 1 /\ FlashBase < FlashEnd
    /\ BlockAlign % WordSize = 0 /\ BlockMax % BlockAlign = 0
    /\ ReadBuf % BlockAlign = 0 /\ SetBuf % BlockAlign = 0
    /\ RramStart % BlockAlign = 0 /\ (RramEnd + 1) % BlockAlign = 0

Ram == 0 .. RamEnd
Rram == RramStart .. RramEnd
Old == -1

VARIABLES
    img,      \* the image: where it is stored, its headers and its signature
    type,     \* BOOT_ELF_LOAD_FULL or BOOT_ELF_LOAD_RAM
    auth,     \* the PBL's auth_state, with the version of the running SBL
    prior,    \* RRAM holds the image's RRAM segments from an earlier boot
    mem,      \* RAM and RRAM
    fuse,     \* the anti-rollback fuses that are blown
    pc,       \* step of the load
    hdrs,     \* elf_loader->prog_hdrs
    seg,      \* prog_idx
    cp,       \* the running copy: src, dst, bytes, done
    flashErr  \* a flash read failed

store == <<img, type, auth, prior>>
vars == <<store, mem, fuse, pc, hdrs, seg, cp, flashErr>>

FileLen(im) ==
    HeaderSize + Len(im.phdrs) + FoldLeft(LAMBDA n, h : n + h.filesz, 0, im.phdrs)
InFlash(im) == im.base > RramEnd
NoCopy == [src |-> 0, dst |-> 0, bytes |-> 0, done |-> 0]
NullHdr == [load |-> FALSE, vaddr |-> 0, offset |-> 0, filesz |-> 0, memsz |-> 0]

Span(dst, n) == dst .. dst + n - 1

\* The bytes [src, src + n) of the image's medium.
Fetch(m, src, n) ==
    [k \in 1 .. n |-> IF src + k - 1 \in DOMAIN m THEN m[src + k - 1]
                      ELSE src + k - img.base]
Store(m, dst, data) ==
    [a \in DOMAIN m |-> IF a \in Span(dst, Len(data)) THEN data[a - dst + 1] ELSE m[a]]

\* Memory that holds segment h of the image, as it is in the file.
Holds(m, h) == \A a \in Span(h.vaddr, h.filesz) : m[a] = h.offset + a - h.vaddr + 1

----------------------------------------------------------------------------
\* rram_verify_address
rram_verify_address(a, n) ==
    a \in Rram /\ a % WordSize = 0 /\ RramEnd - a + 1 >= n

\* rram_block_write_dxe: refuses what is not made of whole blocks; otherwise it
\* waits until DXE has moved the data (an empty transfer moves none).
rram_block_write_dxe(m, dst, data) ==
    IF dst % BlockAlign # 0 \/ Len(data) % BlockAlign # 0
    THEN [ok |-> FALSE, m |-> m]
    ELSE [ok |-> TRUE, m |-> Store(m, dst, data)]

\* rram_write_unaligned_dxe: the part of data that fits into the block of dst,
\* merged into what the block holds; n is the number of bytes consumed.
rram_write_unaligned_dxe(m, dst, data) ==
    LET off == dst % BlockAlign
        n == IF Len(data) < BlockAlign - off THEN Len(data) ELSE BlockAlign - off
        block == Fetch(Store(m, dst, SubSeq(data, 1, n)), dst - off, BlockAlign)
        w == rram_block_write_dxe(m, dst - off, block)
    IN [ok |-> w.ok, m |-> w.m, n |-> n]

\* The full DXE descriptors of rram_write_dxe.
FullBlocks(m, dst, data) ==
    FoldLeft(LAMBDA w, i :
                 IF ~w.ok THEN w
                 ELSE rram_block_write_dxe(w.m, dst + i * BlockMax,
                          SubSeq(data, i * BlockMax + 1, (i + 1) * BlockMax)),
             [ok |-> TRUE, m |-> m],
             [i \in 1 .. Len(data) \div BlockMax |-> i - 1])

\* Seeded fault, no part of the specification: the last block is padded, not
\* merged with what RRAM holds.
PartialBlockPadded(m, dst, data) ==
    LET rest == Len(data) % BlockAlign
        w == rram_block_write_dxe(m, dst, SubSeq(data, 1, Len(data) - rest))
    IN IF ~w.ok \/ rest = 0 THEN w
       ELSE rram_block_write_dxe(w.m, dst + Len(data) - rest,
                SubSeq(data, Len(data) - rest + 1, Len(data))
                    \o [k \in 1 .. BlockAlign - rest |-> 0])

\* The rest: its whole blocks (perhaps none), then one block merged with what
\* RRAM holds.
PartialBlock(m, dst, data) ==
    LET rest == Len(data) % BlockAlign
        whole == Len(data) - rest
        w == rram_block_write_dxe(m, dst, SubSeq(data, 1, whole))
    IN IF ~w.ok \/ rest = 0 THEN w
       ELSE rram_block_write_dxe(w.m, dst + whole,
                SubSeq(data, whole + 1, Len(data))
                    \o Fetch(w.m, dst + whole + rest, BlockAlign - rest))

\* rram_write_dxe behind the unaligned first part.
WriteAligned(m, dst, data) ==
    LET rest == Len(data) % BlockMax
        w == FullBlocks(m, dst, data)
    IN IF ~w.ok \/ rest = 0 THEN w
       ELSE PartialBlock(w.m, dst + Len(data) - rest,
                         SubSeq(data, Len(data) - rest + 1, Len(data)))

rram_write_dxe(m, dst, data) ==
    LET first == rram_write_unaligned_dxe(m, dst, data)
    IN IF ~rram_verify_address(dst, Len(data)) THEN [ok |-> FALSE, m |-> m]
       ELSE IF dst % BlockAlign = 0 THEN WriteAligned(m, dst, data)
       ELSE IF ~first.ok \/ Len(data) <= first.n THEN [ok |-> first.ok, m |-> first.m]
       ELSE WriteAligned(first.m, dst + first.n, SubSeq(data, first.n + 1, Len(data)))

\* rram_memset_dxe, which writes the remaining bytes by pieces of the buffer.
Zeros(n) == [k \in 1 .. n |-> 0]
rram_memset_dxe(m, dst, n) ==
    LET head == IF dst % BlockAlign = 0 THEN [ok |-> TRUE, m |-> m, n |-> 0]
                ELSE rram_write_unaligned_dxe(m, dst,
                         Zeros(IF BlockAlign <= n THEN BlockAlign ELSE n))
        from == dst + head.n
        left == n - head.n
        Piece(w, i) ==
            LET len == IF SetBuf <= left - i * SetBuf THEN SetBuf ELSE left - i * SetBuf
            IN IF ~w.ok THEN w ELSE rram_write_dxe(w.m, from + i * SetBuf, Zeros(len))
    IN IF ~rram_verify_address(dst, n) THEN [ok |-> FALSE, m |-> m]
       ELSE IF ~head.ok \/ n <= head.n THEN [ok |-> head.ok, m |-> head.m]
       ELSE FoldLeft(Piece, [ok |-> TRUE, m |-> head.m],
                     [i \in 1 .. (left + SetBuf - 1) \div SetBuf |-> i - 1])

----------------------------------------------------------------------------
\* elf_mem_op: the memory operations, in the order in which they are looked up.
\* The ends are addresses of last bytes, but are compared like ends.
elf_mem_op ==
    << [kind |-> "rram_ram", vs |-> 0, ve |-> RamEnd, ps |-> RramStart, pe |-> RramEnd],
       [kind |-> "rram_rram", vs |-> RramStart, ve |-> RramEnd,
        ps |-> RramStart, pe |-> RramEnd],
       [kind |-> "flash_ram", vs |-> 0, ve |-> RamEnd, ps |-> FlashBase - 1, pe |-> FlashEnd],
       [kind |-> "flash_rram", vs |-> RramStart, ve |-> RramEnd,
        ps |-> FlashBase - 1, pe |-> FlashEnd] >>

SetRegionCheck(op, dst, n) == dst >= op.vs /\ dst + n <= op.ve
ReadRegionCheck(op, src, dst, n) ==
    src >= op.ps /\ src + n <= op.pe /\ SetRegionCheck(op, dst, n)

\* The kind of the first operation in O, "none" if there is none.
FirstKind(O) ==
    IF O = {} THEN "none" ELSE elf_mem_op[CHOOSE i \in O : \A j \in O : i <= j].kind
ReadKind(src, dst, n) ==
    FirstKind({i \in DOMAIN elf_mem_op : ReadRegionCheck(elf_mem_op[i], src, dst, n)})
SetKind(dst, n) ==
    FirstKind({i \in DOMAIN elf_mem_op : SetRegionCheck(elf_mem_op[i], dst, n)})

\* The image's own headers are read into the loader's data, at some RAM address.
HeaderKind(src, n) == ReadKind(src, 0, n)
----------------------------------------------------------------------------
Hashed(h) == h.load /\ h.filesz # 0
RramSegments(im) == {h \in {im.phdrs[i] : i \in DOMAIN im.phdrs} :
                        Hashed(h) /\ h.vaddr \in Rram}

\* Memory before the load.
Before(im, p) ==
    [a \in Ram \union Rram |->
        IF ~InFlash(im) /\ a \in Span(im.base, FileLen(im)) THEN a - im.base + 1
        ELSE IF p /\ \E h \in RramSegments(im) : a \in Span(h.vaddr, h.filesz)
        THEN LET h == CHOOSE g \in RramSegments(im) : a \in Span(g.vaddr, g.filesz)
             IN h.offset + a - h.vaddr + 1
        ELSE Old]

\* Neither authentication nor the hash check is wanted.
Unchecked == ~auth.enabled /\ auth.hash_off

\* A RAM load is chosen when the FDE says that RRAM holds the image; the FDE may
\* be wrong.  The PBL starts no SBL older than the fuses.
Init ==
    /\ \E b \in Boots : img = b.img /\ auth = b.auth
    /\ type \in {"FULL", "RAM"}
    /\ prior \in BOOLEAN
    /\ prior => (img.corrupt = 0 /\ InFlash(img))
    /\ ~InFlash(img) => (Unchecked /\ type = "FULL")
    /\ mem = Before(img, prior)
    /\ fuse \in {0 .. n - 1 : n \in 0 .. FuseBits}
    /\ Cardinality(fuse) <= auth.version
    /\ pc = "init"
    /\ hdrs = <<>>
    /\ seg = 1
    /\ cp = NoCopy
    /\ flashErr = FALSE

Fails ==
    /\ pc' = "failed"
    /\ UNCHANGED <<store, mem, fuse, hdrs, seg, cp, flashErr>>

\* boot_elf_load_init: an image outside every region leaves the header zero,
\* which is no ELF header; program headers outside leave a table of null
\* headers, and no error.
HeaderFails ==
    /\ pc = "init"
    /\ HeaderKind(img.base, HeaderSize) = "none" \/ img.ehdr # "valid"
    /\ Fails

LoadInit ==
    /\ pc = "init"
    /\ HeaderKind(img.base, HeaderSize) # "none" /\ img.ehdr = "valid"
    /\ hdrs' = IF HeaderKind(img.base + HeaderSize, Len(img.phdrs)) # "none"
               THEN img.phdrs ELSE [i \in DOMAIN img.phdrs |-> NullHdr]
    /\ pc' = IF InFlash(img) THEN "auth" ELSE "load"
    /\ UNCHANGED <<store, mem, fuse, seg, cp, flashErr>>

\* boot_rollback_validate_image_version; the golden image has an id of its own.
boot_rollback_validate_image_version ==
    img.rank # "golden" => img.version = auth.version

\* Seeded fault, no part of the specification: the versions are compared also
\* when authentication is off.
ImageAuthAnyVersion ==
    /\ pc = "auth"
    /\ IF Unchecked \/ (img.signed /\ boot_rollback_validate_image_version)
       THEN pc' = "load" /\ UNCHANGED <<store, mem, fuse, hdrs, seg, cp, flashErr>>
       ELSE Fails

\* sbl_image_auth: secimg_auth is the PBL's.
sbl_image_auth ==
    /\ pc = "auth"
    /\ IF \/ Unchecked
          \/ /\ img.signed
             /\ auth.enabled => boot_rollback_validate_image_version
       THEN pc' = "load" /\ UNCHANGED <<store, mem, fuse, hdrs, seg, cp, flashErr>>
       ELSE Fails

----------------------------------------------------------------------------
\* boot_elf_load_generic_segment for a whole segment (offset 0, p_memsz bytes).
bytes_to_read(h) == IF h.memsz >= h.filesz THEN h.filesz ELSE h.memsz
bytes_to_set(h) == IF bytes_to_read(h) >= h.memsz THEN 0 ELSE h.memsz - h.filesz

\* The load types, and the segments without data, which are skipped.
Wanted(h) == h.load /\ (type = "FULL" \/ h.vaddr < RamEnd) /\ h.filesz # 0
Reads(h) == h.memsz # 0 /\ h.memsz >= h.filesz

SkipSegment ==
    /\ pc = "load"
    /\ seg <= Len(hdrs)
    /\ ~Wanted(hdrs[seg])
    /\ seg' = seg + 1
    /\ UNCHANGED <<store, mem, fuse, pc, hdrs, cp, flashErr>>

\* boot_elf_mem_read: where no operation fits, nothing is read and no error
\* reported.
LoadSegment ==
    /\ pc = "load"
    /\ seg <= Len(hdrs)
    /\ Wanted(hdrs[seg])
    /\ LET h == hdrs[seg]
           src == img.base + h.offset
       IN IF Reads(h) /\ ReadKind(src, h.vaddr, bytes_to_read(h)) # "none"
          THEN /\ cp' = [src |-> src, dst |-> h.vaddr, bytes |-> bytes_to_read(h), done |-> 0]
               /\ pc' = "copy"
          ELSE pc' = "tail" /\ UNCHANGED cp
    /\ UNCHANGED <<store, mem, fuse, hdrs, seg, flashErr>>

LoadEnds ==
    /\ pc = "load"
    /\ seg > Len(hdrs)
    /\ pc' = IF InFlash(img) THEN "hash" ELSE "started"
    /\ UNCHANGED <<store, mem, fuse, hdrs, seg, cp, flashErr>>

CopyKind == ReadKind(cp.src, cp.dst, cp.bytes)
Left == cp.bytes - cp.done

\* The next chunk of the copies from flash; the last may be a full one.
Chunk == IF Left > ReadBuf THEN ReadBuf ELSE Left

\* Seeded fault, no part of the specification: a last single byte is dropped.
AdvanceShort(n) ==
    IF cp.done + n + 1 >= cp.bytes
    THEN pc' = "tail" /\ cp' = NoCopy
    ELSE pc' = pc /\ cp' = [cp EXCEPT !.done = @ + n]

Advance(n) ==
    IF cp.done + n = cp.bytes
    THEN pc' = "tail" /\ cp' = NoCopy
    ELSE pc' = pc /\ cp' = [cp EXCEPT !.done = @ + n]

\* bl_elf_flash_read_to_ram
FlashToRam ==
    /\ pc = "copy"
    /\ CopyKind = "flash_ram"
    /\ mem' = Store(mem, cp.dst + cp.done, Fetch(mem, cp.src + cp.done, Chunk))
    /\ Advance(Chunk)
    /\ UNCHANGED <<store, fuse, hdrs, seg, flashErr>>

\* bl_elf_flash_read_to_rram_dxe: an error of the write is only printed.
FlashToRram ==
    /\ pc = "copy"
    /\ CopyKind = "flash_rram"
    /\ mem' = rram_write_dxe(mem, cp.dst + cp.done, Fetch(mem, cp.src + cp.done, Chunk)).m
    /\ Advance(Chunk)
    /\ UNCHANGED <<store, fuse, hdrs, seg, flashErr>>

\* A flash read of the driver fails: the load ends.
FlashFails ==
    /\ InFlash(img)
    /\ \/ pc = "init" /\ HeaderKind(img.base, HeaderSize) # "none"
       \/ pc = "copy"
    /\ flashErr' = TRUE
    /\ pc' = "failed"
    /\ UNCHANGED <<store, mem, fuse, hdrs, seg, cp>>

\* nt_bl_rram_read: the address behind the last byte must be in RRAM too.
RramReadable(src, n) == n # 0 /\ src \in Rram /\ src + n \in Rram

\* bl_elf_rram_read_to_ram beyond one buffer reads full buffers as long as the
\* position does not exceed the length, so past the end of the segment ...
RramToRamFull ==
    /\ pc = "copy"
    /\ CopyKind = "rram_ram"
    /\ cp.bytes > ReadBuf /\ cp.done <= cp.bytes
    /\ IF RramReadable(cp.src + cp.done, ReadBuf)
       THEN /\ mem' = Store(mem, cp.dst + cp.done, Fetch(mem, cp.src + cp.done, ReadBuf))
            /\ cp' = [cp EXCEPT !.done = @ + ReadBuf]
            /\ UNCHANGED <<store, fuse, pc, hdrs, seg, flashErr>>
       ELSE Fails

\* ... and then the last part once more.
RramToRamLast ==
    /\ pc = "copy"
    /\ CopyKind = "rram_ram"
    /\ cp.bytes <= ReadBuf \/ cp.done > cp.bytes
    /\ LET n == IF cp.bytes <= ReadBuf THEN cp.bytes ELSE ReadBuf - (cp.done - cp.bytes)
           at == IF cp.bytes <= ReadBuf THEN 0 ELSE cp.done - ReadBuf
       IN IF n = 0 \/ RramReadable(cp.src + at, n)
          THEN /\ mem' = Store(mem, cp.dst + at, Fetch(mem, cp.src + at, n))
               /\ pc' = "tail"
               /\ cp' = NoCopy
               /\ UNCHANGED <<store, fuse, hdrs, seg, flashErr>>
          ELSE Fails

\* bl_elf_rram_read_to_rram_dxe
RramToRram ==
    /\ pc = "copy"
    /\ CopyKind = "rram_rram"
    /\ LET w == rram_write_dxe(mem, cp.dst, Fetch(mem, cp.src, cp.bytes))
       IN /\ mem' = w.m
          /\ pc' = IF w.ok THEN "tail" ELSE "failed"
    /\ cp' = NoCopy
    /\ UNCHANGED <<store, fuse, hdrs, seg, flashErr>>

\* The zero-initialised part behind the data, through boot_elf_mem_set; the
\* operations for flash have no set function, but come behind those that have.
ZeroTail ==
    /\ pc = "tail"
    /\ LET h == hdrs[seg]
           dst == h.vaddr + bytes_to_read(h)
           n == bytes_to_set(h)
           kind == IF h.memsz > h.filesz /\ n # 0 THEN SetKind(dst, n) ELSE "none"
           w == CASE kind = "rram_ram" -> [ok |-> TRUE, m |-> Store(mem, dst, Zeros(n))]
                  [] kind = "rram_rram" -> rram_memset_dxe(mem, dst, n)
                  [] OTHER -> [ok |-> TRUE, m |-> mem]
       IN /\ mem' = w.m
          /\ pc' = IF w.ok THEN "load" ELSE "failed"
          /\ seg' = IF w.ok THEN seg + 1 ELSE seg
    /\ UNCHANGED <<store, fuse, hdrs, cp, flashErr>>

----------------------------------------------------------------------------
\* sbl_compute_verify_hash, part one: the bytes in memory of every segment but
\* the first must hash to what the image's hash table says.
HashMatches(i) ==
    Hashed(hdrs[i]) => Holds(mem, hdrs[i]) /\ img.corrupt # i

\* Seeded fault, no part of the specification: the hash check starts one
\* segment late.
VerifyHashLate ==
    /\ pc = "hash"
    /\ IF Unchecked \/ \A i \in 3 .. Len(hdrs) : HashMatches(i)
       THEN pc' = "fuse" /\ UNCHANGED <<store, mem, fuse, hdrs, seg, cp, flashErr>>
       ELSE Fails

VerifyHash ==
    /\ pc = "hash"
    /\ IF Unchecked \/ \A i \in 2 .. Len(hdrs) : HashMatches(i)
       THEN pc' = "fuse" /\ UNCHANGED <<store, mem, fuse, hdrs, seg, cp, flashErr>>
       ELSE Fails

\* boot_rollback_calculate_fuse_version
fuse_version_value == Cardinality(fuse)

\* boot_rollback_update_fuse_version and boot_rollback_fuse_version_save: the
\* fuses up to the version in one write; more than there are is let pass.
boot_rollback_update_fuse_version ==
    IF fuse_version_value < img.version /\ img.version <= FuseBits
    THEN 0 .. img.version - 1 ELSE fuse

\* Seeded fault, no part of the specification: a trial image blows fuses.
UpdateFusesAnyRank ==
    /\ pc = "fuse"
    /\ fuse' = IF auth.enabled /\ auth.unlock
               THEN boot_rollback_update_fuse_version ELSE fuse
    /\ pc' = "started"
    /\ UNCHANGED <<store, mem, hdrs, seg, cp, flashErr>>

\* Part two of sbl_compute_verify_hash.
UpdateFuses ==
    /\ pc = "fuse"
    /\ fuse' = IF auth.enabled /\ img.rank = "current" /\ auth.unlock
               THEN boot_rollback_update_fuse_version ELSE fuse
    /\ pc' = "started"
    /\ UNCHANGED <<store, mem, hdrs, seg, cp, flashErr>>

Next ==
    \/ HeaderFails \/ LoadInit \/ sbl_image_auth
    \/ SkipSegment \/ LoadSegment \/ LoadEnds
    \/ FlashToRam \/ FlashToRram \/ FlashFails
    \/ RramToRamFull \/ RramToRamLast \/ RramToRram \/ ZeroTail
    \/ VerifyHash \/ UpdateFuses

Spec == Init /\ [][Next]_vars

----------------------------------------------------------------------------
\* Type correctness of the loader's state.
TypeOK ==
    /\ mem \in [Ram \union Rram -> Old .. FileLen(img)]
    /\ fuse \in SUBSET (0 .. FuseBits - 1)
    /\ pc \in {"init", "auth", "load", "copy", "tail", "hash", "fuse", "started", "failed"}
    /\ hdrs = <<>> \/ Len(hdrs) = Len(img.phdrs)
    /\ seg \in 1 .. Len(img.phdrs) + 1
    /\ cp.done <= cp.bytes + ReadBuf
    /\ flashErr \in BOOLEAN

Segments == {img.phdrs[i] : i \in DOMAIN img.phdrs}
ZeroPart(h) == Span(h.vaddr + h.filesz, h.memsz - h.filesz)
OverrunLen(h) == IF h.filesz <= ReadBuf THEN h.filesz
                 ELSE ((h.filesz \div ReadBuf) + 1) * ReadBuf

\* A segment that the memory operations can place: a well-formed size, source
\* and target inside one operation's regions, RRAM writes that start at a word,
\* and for an image in RRAM no end of RRAM within a buffer's length.
Placeable(h) ==
    LET src == img.base + h.offset
        n == h.memsz - h.filesz
    IN /\ h.memsz >= h.filesz
       /\ ReadKind(src, h.vaddr, h.filesz) # "none"
       /\ h.vaddr \in Rram => h.vaddr % WordSize = 0
       /\ n # 0 => SetKind(h.vaddr + h.filesz, n) # "none"
       /\ (n # 0 /\ h.vaddr \in Rram) => (h.vaddr + h.filesz) % WordSize = 0
       /\ (~InFlash(img) /\ h.vaddr \in Ram) => RramReadable(src, OverrunLen(h))

\* What was loaded is complete: once boot_elf_load_image has succeeded, every
\* segment it was to load and could place has its data at its address and zeros
\* behind them, whatever chunks, blocks and merged ends the copies were made of,
\* and whatever was loaded before or after it.
LoadedInPlace ==
    (pc \in {"hash", "fuse", "started"} /\ hdrs = img.phdrs) =>
        \A h \in Segments :
            (Wanted(h) /\ Placeable(h)) =>
                /\ Holds(mem, h)
                /\ \A a \in ZeroPart(h) : mem[a] = 0

\* With a check asked for, an application is started only if every segment with
\* data is in memory as it was signed: also a segment that the loader silently
\* could not place, or that a RAM load trusts RRAM to hold.
StartedAsSigned ==
    (pc = "started" /\ ~Unchecked /\ hdrs = img.phdrs) =>
        /\ img.signed
        /\ \A i \in 2 .. Len(hdrs) :
              Hashed(hdrs[i]) => Holds(mem, hdrs[i]) /\ img.corrupt # i

\* The loader changes no byte outside the segments: the merges at the ends of
\* RRAM blocks restore the neighbours.  Only the copy from RRAM to RAM runs on
\* to the end of a buffer.
OutsideUntouched ==
    \A a \in Ram \union Rram :
        mem[a] # Before(img, prior)[a] =>
            \E h \in Segments :
                Wanted(h) /\ a \in Span(h.vaddr,
                    IF ~InFlash(img) /\ h.vaddr \in Ram /\ OverrunLen(h) > h.memsz
                    THEN OverrunLen(h) ELSE h.memsz)

\* No good image is refused: the load fails only for a flash error, for headers
\* or segments that are not well formed or not in place, a failed authentication
\* or version, corrupt data, or a RAM load without the image in RRAM.
NoFalseFailure ==
    pc = "failed" =>
        \/ flashErr
        \/ img.ehdr # "valid" \/ HeaderKind(img.base, HeaderSize + Len(img.phdrs)) = "none"
        \/ \E h \in Segments : Hashed(h) /\ ~Placeable(h)
        \/ ~img.signed \/ img.corrupt # 0
        \/ auth.enabled /\ ~boot_rollback_validate_image_version
        \/ type = "RAM" /\ ~prior /\ \E h \in Segments : Hashed(h) /\ ~Wanted(h)

\* The fuses only ever grow, and only for a current image that passed the hash
\* check with its segments in place; then they show exactly its version.  A
\* current image that is started with the fuses unlocked cannot be followed by
\* an older one: they have reached its version, up to the number of fuses.
FusesFollowImage ==
    [][/\ fuse' # fuse =>
            /\ fuse \subseteq fuse'
            /\ Cardinality(fuse') = img.version
            /\ img.version = auth.version /\ img.rank = "current"
            /\ \A i \in 2 .. Len(hdrs) : HashMatches(i)
       /\ pc' = "started" /\ auth.enabled /\ auth.unlock /\ img.rank = "current"
             /\ img.version <= FuseBits
            => Cardinality(fuse') >= img.version]_vars
=============================================================================
