----------------------------- MODULE RramWrite -----------------------------
(***************************************************************************)
(* Writing the resistive memory, nt_rram_write of qhw_support/src/nt_mem.c: *)
(* the DMA engine writes whole aligned blocks from an aligned source, so a *)
(* call is cut into block writes, and blocks the caller names in part are  *)
(* read, merged and written back through the one buffer temp_r_w_buff.     *)
(*                                                                         *)
(* The memory is a main area and an area of one-time regions, each of      *)
(* which may be locked against reads and against writes.  A byte is known  *)
(* by where it comes from; between calls all are known by their addresses  *)
(* again, and nothing is known of what the buffer holds.                   *)
(***************************************************************************)
EXTENDS Integers, Sequences

CONSTANTS ByteAlign,     \* RRAM_WRITE_ADR_BYTE_ALIGN, 16 in the code
          SrcAlign,      \* alignment of a transfer's source, 4 in the code
          BuffSize,      \* RRAM_R_W_BUFF_SIZE, 256 in the code
          BlockMax,      \* RRAM_WRITE_BLOCK_MAX_SIZE, 16368 in the code
          MainEnd,       \* the main area is 0 .. MainEnd - 1
          RegionStart,   \* where the one-time regions begin, and where the last ends
          RwPermission,  \* RW_PERMISSION_REGION, the region of the locks
          NoCall

ASSUME RramAssumption ==
  /\ {ByteAlign, SrcAlign, BuffSize, BlockMax, MainEnd} \subseteq Nat \ {0}
  /\ ByteAlign % SrcAlign = 0 /\ BuffSize % ByteAlign = 0 /\ BlockMax % ByteAlign = 0
  /\ MainEnd % ByteAlign = 0 /\ RegionStart \in Seq(Nat)
  /\ \A r \in 1 .. Len(RegionStart) :
        /\ RegionStart[r] % ByteAlign = 0
        /\ RegionStart[r] > IF r = 1 THEN MainEnd ELSE RegionStart[r - 1]
  /\ RwPermission \in 1 .. Len(RegionStart) - 1

Region   == 1 .. Len(RegionStart) - 1
OtpStart == RegionStart[1]
OtpEnd   == RegionStart[Len(RegionStart)]
Addr == (0 .. MainEnd - 1) \cup (OtpStart .. OtpEnd - 1)

InMain(a) == 0 <= a /\ a < MainEnd
InOtp(a)  == OtpStart <= a /\ a < OtpEnd
-----------------------------------------------------------------------------
(* What may be accessed.  locked is the set of regions that are locked     *)
(* against the access.                                                     *)

address_to_region_num_map(a) ==
  CHOOSE r \in Region : RegionStart[r] <= a /\ a < RegionStart[r + 1]

\* Every region from the one of the first byte to the one of the byte after the
\* last must be unlocked; the region of the locks itself can always be read.
check_otp_region_rw_permission(a, n, locked, read) ==
  LET first == address_to_region_num_map(a)
      last  == address_to_region_num_map(a + n)
  IN  \/ read /\ first = last /\ first = RwPermission
      \/ \A r \in first .. last : r \notin locked

\* An access must lie in one of the two areas, and so must the byte after it.
rram_address_range_check(a, n, locked, read) ==
  IF InOtp(a) /\ InOtp(a + n)
  THEN check_otp_region_rw_permission(a, n, locked, read)
  ELSE InMain(a) /\ InMain(a + n)
-----------------------------------------------------------------------------
(* The block writes of a call: len bytes at adr, of which the n bytes from *)
(* off on are the caller's, its bytes from .. from + n - 1.  A "direct"    *)
(* block is transferred from the caller's memory; a "copied" one is first  *)
(* copied to the buffer; for a "merged" one the buffer is filled from the  *)
(* memory before.                                                          *)

Direct(adr, n, from) == [kind |-> "direct", adr |-> adr, len |-> n, off |-> 0, n |-> n, from |-> from]
Copied(adr, n, from) == [kind |-> "copied", adr |-> adr, len |-> n, off |-> 0, n |-> n, from |-> from]
Merged(adr, len, off, n, from) ==
  [kind |-> "merged", adr |-> adr, len |-> len, off |-> off, n |-> n, from |-> from]

\* Seeded fault: the caller's bytes go to the beginning of the first block.
HeadBlockAtStart(dst, n) ==
  LET off == dst % ByteAlign
  IN  Merged(dst - off, ByteAlign, 0, IF n > ByteAlign - off THEN ByteAlign - off ELSE n, 0)

\* The first block, when the destination or the source is not aligned.
HeadBlock(dst, n) ==
  LET off == dst % ByteAlign
  IN  Merged(dst - off, ByteAlign, off, IF n > ByteAlign - off THEN ByteAlign - off ELSE n, 0)

\* The rest, when the source is not aligned there either ("special case").
SpecialBlocks(adr, n, from) ==
  LET full == n \div BuffSize
  IN  [i \in 1 .. full |-> Copied(adr + (i - 1) * BuffSize, BuffSize, from + (i - 1) * BuffSize)]
      \o IF n % BuffSize = 0 THEN <<>>
         ELSE <<Merged(adr + full * BuffSize, BuffSize, 0, n % BuffSize, from + full * BuffSize)>>

\* The rest, when both are aligned: full blocks, the aligned part of what is left,
\* and its last bytes.
AlignedBlocks(adr, n, from) ==
  LET full    == n \div BlockMax
      partial == n % BlockMax
      pad     == partial % ByteAlign
      done    == full * BlockMax
  IN  [i \in 1 .. full |-> Direct(adr + (i - 1) * BlockMax, BlockMax, from + (i - 1) * BlockMax)]
      \o (IF partial - pad = 0 THEN <<>> ELSE <<Direct(adr + done, partial - pad, from + done)>>)
      \o IF pad = 0 THEN <<>>
         ELSE <<Merged(adr + n - pad, ByteAlign, 0, pad, from + n - pad)>>

\* All of them, for n bytes at src.
Blocks(dst, src, n) ==
  IF dst % ByteAlign = 0 /\ src % SrcAlign = 0 THEN AlignedBlocks(dst, n, 0)
  ELSE LET head == HeadBlock(dst, n)
           rest == n - head.n
           adr  == head.adr + ByteAlign
       IN  <<head>> \o IF rest = 0 THEN <<>>
                       ELSE IF (src + head.n) % SrcAlign # 0
                       THEN SpecialBlocks(adr, rest, head.n)
                       ELSE AlignedBlocks(adr, rest, head.n)
-----------------------------------------------------------------------------
VARIABLES call,   \* the call in progress and the locks it finds, or NoCall
          mem,    \* the memory
          buff,   \* temp_r_w_buff
          todo,   \* the block writes still to be done
          done    \* the caller's bytes written so far

rramVars == <<call, mem, buff, todo, done>>

\* A byte: its address, "some earlier byte" or, above all addresses, the caller's k-th.
Original == [a \in Addr |-> a]
Stale    == [i \in 0 .. BuffSize - 1 |-> -1]
Wdata(k) == OtpEnd + k

RramInit == call = NoCall /\ mem = Original /\ buff = Stale /\ todo = <<>> /\ done = 0

\* A call that passes its checks; the others return an error and change nothing.
nt_rram_write(dst, src, n, rdLocked, wrLocked) ==
  /\ rram_address_range_check(dst, n, wrLocked, FALSE)
  /\ call' = [dst |-> dst, src |-> src, n |-> n, rdLocked |-> rdLocked, wrLocked |-> wrLocked]
  /\ todo' = Blocks(dst, src, n)
  /\ UNCHANGED <<mem, buff, done>>

\* A read that fails its range check leaves the buffer as it is; the result of the
\* read is not looked at.
nt_rram_read(adr, n) ==
  IF rram_address_range_check(adr, n, call.rdLocked, TRUE)
  THEN [i \in DOMAIN buff |-> IF i < n THEN mem[adr + i] ELSE buff[i]] ELSE buff

\* The next block is prepared, and written by the engine.
WriteBlock ==
  /\ todo # <<>>
  /\ LET w   == todo[1]
         old == IF w.kind = "merged" THEN nt_rram_read(w.adr, w.len) ELSE buff
         new == [i \in DOMAIN old |-> IF i \in w.off .. w.off + w.n - 1 THEN Wdata(w.from + i - w.off)
                                      ELSE old[i]]
     IN  /\ mem' = [a \in Addr |-> IF a \notin w.adr .. w.adr + w.len - 1 THEN mem[a]
                                   ELSE IF w.kind = "direct" THEN Wdata(w.from + a - w.adr)
                                   ELSE new[a - w.adr]]
         /\ buff' = IF w.kind = "direct" THEN buff ELSE new
         /\ done' = done + w.n
         /\ todo' = SubSeq(todo, 2, Len(todo))
  /\ UNCHANGED call

\* The call returns: all blocks are written, or one has failed MAX_WRITE_TRY times.
WriteReturns ==
  /\ call # NoCall
  /\ call' = NoCall /\ mem' = Original /\ buff' = Stale /\ todo' = <<>> /\ done' = 0

RramNext ==
  \/ call = NoCall /\ \E src \in 0 .. SrcAlign - 1 :
        \/ \E dst \in 0 .. MainEnd - 1, n \in 1 .. MainEnd : nt_rram_write(dst, src, n, {}, {})
        \/ \E dst \in OtpStart .. OtpEnd - 1, n \in 1 .. OtpEnd - OtpStart :
              \E rdLocked, wrLocked \in {{}} \cup {{r} : r \in Region} :
                 nt_rram_write(dst, src, n, rdLocked, wrLocked)
  \/ WriteBlock \/ WriteReturns
-----------------------------------------------------------------------------
\* Everything the call may have to read can be read: one buffer's length of memory
\* after the caller's bytes.
Readable ==
  rram_address_range_check(call.dst - (call.dst % ByteAlign), call.n + BuffSize + ByteAlign,
                           call.rdLocked, TRUE)

\* What the engine can transfer: aligned, whole units, at most BlockMax bytes.
Transferable(w) ==
  /\ w.adr % ByteAlign = 0 /\ w.len % ByteAlign = 0 /\ w.len <= BlockMax
  /\ w.kind = "direct" => (call.src + w.from) % SrcAlign = 0

\* After every block, and so wherever a failing block ends the call, the caller's
\* first bytes have been written and nothing else has changed, whatever the
\* alignment of the two addresses and the length; in the end all have.  No byte of
\* a write-locked region changes, and every block is one the engine can transfer.
\* Provided the memory behind the caller's bytes can be read.
RramWriteExact ==
  call # NoCall /\ Readable =>
    /\ \A a \in Addr : IF a \in call.dst .. call.dst + done - 1
                       THEN /\ mem[a] = Wdata(a - call.dst)
                            /\ InOtp(a) => address_to_region_num_map(a) \notin call.wrLocked
                       ELSE mem[a] = a
    /\ todo = <<>> => done = call.n
    /\ \A k \in DOMAIN todo : Transferable(todo[k])
=============================================================================
