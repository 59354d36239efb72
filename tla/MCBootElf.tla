----------------------------- MODULE MCBootElf -----------------------------
(* Instance of BootElf: images of one or two segments, around every edge of *)
(* a buffer, a block and a region.                                          *)
EXTENDS BootElf

CONSTANTS
    Bases,        \* where an image may be stored
    Targets,      \* addresses of first segments
    FileSizes,    \* sizes of their data
    ZeroSizes,    \* ... and of their zeroed parts (a negative one is malformed)
    Seconds       \* second segments: address, data size, memory size

\* The first program header covers the headers and is not loaded.
HeaderSegment == [load |-> FALSE, vaddr |-> 0, offset |-> 0,
                  filesz |-> 0, memsz |-> 0]
FirstOffset == HeaderSize + 3

Phdrs(v, f, z, s) ==
    << HeaderSegment,
       [load |-> TRUE, vaddr |-> v, offset |-> FirstOffset, filesz |-> f, memsz |-> f + z],
       [load |-> s[2] # 0, vaddr |-> s[1], offset |-> FirstOffset + f,
        filesz |-> s[2], memsz |-> s[3]] >>

\* Well-linked images: segments in ascending order that do not overlap, and for
\* an image in RRAM, clear of the image.
Plain ==
    { [base |-> b, ehdr |-> "valid", phdrs |-> Phdrs(v, f, z, s), signed |-> TRUE,
       corrupt |-> 0, version |-> 0, rank |-> "current"] :
          b \in Bases, v \in Targets, f \in FileSizes, z \in ZeroSizes, s \in Seconds }

Linked(im) ==
    LET h == im.phdrs[2]
        g == im.phdrs[3]
    IN /\ h.memsz >= 0
       /\ g.load => h.vaddr + h.memsz <= g.vaddr
       /\ InFlash(im) \/ im.base > g.vaddr + g.memsz
       /\ InFlash(im) \/ im.base > h.vaddr + h.memsz

PlainImages == {im \in Plain : Linked(im)}

\* One image in flash with every flaw and every version.
Flawed ==
    { [base |-> FlashBase, ehdr |-> e, phdrs |-> Phdrs(2, 3, 0, <<RramStart, 5, 5>>),
       signed |-> g, corrupt |-> c, version |-> v, rank |-> r] :
          e \in {"valid", "phnum"}, g \in BOOLEAN, c \in {0, 2, 3},
          v \in 0 .. FuseBits + 1, r \in {"trial", "current", "golden"} }

AuthStates == [enabled : BOOLEAN, hash_off : BOOLEAN, unlock : BOOLEAN,
               version : 0 .. FuseBits + 1]
NoAuth == [enabled |-> FALSE, hash_off |-> TRUE, unlock |-> FALSE, version |-> 0]
HashOnly == [NoAuth EXCEPT !.hash_off = FALSE]

MCBoots ==
    [img : PlainImages, auth : {NoAuth}]
    \union [img : {im \in PlainImages : InFlash(im)}, auth : {HashOnly}]
    \union [img : Flawed,
            auth : {a \in AuthStates : IF a.enabled THEN ~a.hash_off
                                       ELSE ~a.unlock /\ a.version = 0}]

MCBases == {63, 64, 70, 34, 38}
MCTargets == {0, 2, 3, 24, 26, 27}
MCFileSizes == {0, 1, 3, 4, 5, 7, 8, 9}
MCZeroSizes == {-1, 0, 1, 3, 10}
MCSeconds == {<<0, 0, 0>>, <<12, 3, 3>>, <<12, 4, 4>>, <<24, 5, 5>>, <<26, 5, 7>>,
              <<40, 3, 8>>, <<44, 3, 3>>}
=============================================================================
