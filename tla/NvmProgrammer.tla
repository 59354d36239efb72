--------------------------- MODULE NvmProgrammer ---------------------------
(***************************************************************************)
(* The NVM programmer: the image that the host tool loads into RAM to       *)
(* program the flash and the RRAM through JTAG, together with the host.     *)
(*                                                                          *)
(* The host stops the target at JTAG_Run, writes a command into JTAG_Param, *)
(* lets the target run to the next JTAG_Run and reads the status word back, *)
(* which is the command word.  A session does one job; the host may give up *)
(* on a command that takes too long, and the next session loads the         *)
(* programmer afresh while the chip may still be at work.                   *)
(* Sources: qprgd/src/nvm_programmer.c, nvm_flash.c, nvm_rram.c; the host   *)
(* is tools/qprgc/nvm_programmer.py.                                        *)
(***************************************************************************)
EXTENDS FermFlash, FiniteSets

CONSTANTS
    RramSize,            \* RRAM_END - RRAM_START + 1; addresses count from 0
    RRAM_ERASE_START,
    ADDR_ALIGN,          \* what the address checks of the RRAM ask for
    RRAM_ALIGN,          \* RRAM_WRITE_ADR_BYTE_ALIGN
    RRAM_BLOCK_MAX,      \* RRAM_WRITE_BLOCK_MAX_SIZE
    RRAM_ERASE_BUFFER,   \* RRAM_ERASE_BUFFER_SIZE
    BUFFER_SIZE,         \* piece of the checksum
    HOST_PIECE,          \* piece of the host (Buffer and ReadBuffer)
    Jobs,                \* what the host may be asked to do
    Contents,            \* what the devices may hold at the start
    MaxSessions

ASSUME ProgrammerAssumption ==
    /\ RramSize % RRAM_ALIGN = 0 /\ RRAM_ALIGN % ADDR_ALIGN = 0
    /\ RRAM_BLOCK_MAX % RRAM_ALIGN = 0 /\ RRAM_ERASE_BUFFER % RRAM_ALIGN = 0
    /\ HOST_PIECE % BLOCK_SIZE = 0 /\ HOST_PIECE % ADDR_ALIGN = 0

RramAddr == 0 .. RramSize - 1

VARIABLES
    rram,               \* the RRAM array
    dxe,                \* the last DXE transfer: destination and length
    xfer,               \* what rram_write and rram_erase have left to do
    Device_Type,
    Device_Type_Attached,
    handlers,           \* the device NVM_Write, NVM_Read ... belong to
    flash_inited,
    density_in_blocks,
    word,               \* the Command word and Status word of JTAG_Param
    cmd,                \* the command and its parameters
    npc, offset,        \* where JTAG_Run is, and its loop offset
    job, hpc, sent,     \* the host's job, its step, and how much is done
    outcome,            \* how the job ended
    sessions,
    faulty,             \* history: the session met a fault
    held                \* history: what the devices held when the session began

nvmVars == <<rram, dxe, xfer, Device_Type, Device_Type_Attached, handlers, flash_inited,
             density_in_blocks, word, cmd, npc, offset>>
hostVars == <<job, hpc, sent, outcome, sessions, held>>
vars == <<chipVars, driverVars, nvmVars, hostVars, faulty>>

Status(s) == [kind |-> "status", value |-> <<s>>]
Crc(data) == [kind |-> "crc", value |-> data]
CommandWord(c) == [kind |-> "command", value |-> <<c>>]
Ones(n) == [i \in 1 .. n |-> Erased]
NoTransfer == [dst |-> 0, len |-> 0]
NoWrite == [dst |-> 0, src |-> <<>>, left |-> 0]
NoCommand == [op |-> "none", address |-> 0, size |-> 0, data |-> <<>>]

\* JTAG_Run returns and the target stops at the breakpoint.
Finish(w) == word' = w /\ npc' = "stopped" /\ UNCHANGED offset

----------------------------------------------------------------------------
\* The RRAM.  rram_write makes a read-modify-write up to the first aligned
\* address, full blocks, the aligned part of the rest, which may be empty, and a
\* read-modify-write of the last block.  Each of them is a DXE transfer.
Slice(m, address, n) == [i \in 1 .. n |-> m[address + i - 1]]

Store(m, address, data) ==
    [a \in DOMAIN m |-> IF a \in address .. address + Len(data) - 1
                        THEN data[a - address + 1] ELSE m[a]]

\* rram_block_write.
BlockWrite(address, data) ==
    /\ rram' = Store(rram, address, data)
    /\ dxe' = [dst |-> address, len |-> Len(data)]

\* Seeded fault, no part of the specification: the rest of the block is erased.
MergeWriteErasing(address, data) ==
    LET base == address - (address % RRAM_ALIGN)
    IN  BlockWrite(base, [i \in 1 .. RRAM_ALIGN |->
            IF base + i - 1 \in address .. address + Len(data) - 1
            THEN data[base + i - address] ELSE Erased])

\* A whole block with the data laid over what the RRAM holds.
MergeWrite(address, data) ==
    LET base == address - (address % RRAM_ALIGN)
    IN  BlockWrite(base, [i \in 1 .. RRAM_ALIGN |->
            IF base + i - 1 \in address .. address + Len(data) - 1
            THEN data[base + i - address] ELSE rram[base + i - 1]])

\* rram_write_unaligned: the bytes it consumes.
HeadSize(address, n) ==
    LET room == RRAM_ALIGN - (address % RRAM_ALIGN)
    IN  IF n < room THEN n ELSE room

\* What is left of rram_write after n bytes.
Advance(n) ==
    xfer' = [xfer EXCEPT !.dst = @ + n, !.src = SubSeq(@, n + 1, Len(@))]

rramUnchanged == <<chipVars, driverVars, Device_Type, Device_Type_Attached, handlers,
                   flash_inited, density_in_blocks, word, cmd, offset, hostVars, faulty>>

RramHead ==
    /\ npc = "rram_write"
    /\ npc' = "rram_blocks"
    /\ IF xfer.dst % RRAM_ALIGN = 0 THEN UNCHANGED <<rram, dxe, xfer>>
       ELSE LET n == HeadSize(xfer.dst, Len(xfer.src))
            IN  MergeWrite(xfer.dst, SubSeq(xfer.src, 1, n)) /\ Advance(n)
    /\ UNCHANGED rramUnchanged

RramBlocks ==
    /\ npc = "rram_blocks"
    /\ LET partial == Len(xfer.src)
           n == IF partial >= RRAM_BLOCK_MAX THEN RRAM_BLOCK_MAX
                ELSE partial - (partial % RRAM_ALIGN)
       IN  IF partial = 0 THEN npc' = "rram_next" /\ UNCHANGED <<rram, dxe, xfer>>
           ELSE /\ BlockWrite(xfer.dst, SubSeq(xfer.src, 1, n))
                /\ Advance(n)
                /\ npc' = IF partial >= RRAM_BLOCK_MAX THEN "rram_blocks" ELSE "rram_tail"
    /\ UNCHANGED rramUnchanged

RramTail ==
    /\ npc = "rram_tail"
    /\ npc' = "rram_next"
    /\ IF xfer.src = <<>> THEN UNCHANGED <<rram, dxe, xfer>>
       ELSE MergeWrite(xfer.dst, xfer.src) /\ Advance(Len(xfer.src))
    /\ UNCHANGED rramUnchanged

\* rram_write returns; rram_erase goes on with at most a buffer.
RramNext ==
    /\ npc = "rram_next"
    /\ IF xfer.left = 0
       THEN Finish(Status("NO_ERROR")) /\ UNCHANGED xfer
       ELSE LET n == IF RRAM_ERASE_BUFFER <= xfer.left THEN RRAM_ERASE_BUFFER ELSE xfer.left
            IN  /\ xfer' = [dst |-> xfer.dst, src |-> Ones(n), left |-> xfer.left - n]
                /\ npc' = "rram_write"
                /\ UNCHANGED <<word, offset>>
    /\ UNCHANGED <<rram, dxe, chipVars, driverVars, Device_Type, Device_Type_Attached,
                   handlers, flash_inited, density_in_blocks, cmd, hostVars, faulty>>

RramValid(address, n, first) ==
    address >= first /\ address < RramSize /\ address % ADDR_ALIGN = 0 /\ RramSize - address >= n

\* The head of an erase, when it is unaligned, is a write by itself.
RramStart ==
    LET head == IF cmd.op = "program" THEN cmd.size
                ELSE IF cmd.address % RRAM_ALIGN = 0 THEN 0
                ELSE HeadSize(cmd.address, cmd.size)
    IN  /\ xfer' = [dst |-> cmd.address, left |-> cmd.size - head,
                    src |-> IF cmd.op = "program" THEN cmd.data ELSE Ones(head)]
        /\ npc' = "rram_write"
        /\ UNCHANGED <<word, offset>>

----------------------------------------------------------------------------
\* flash_verify_address.
FlashVerifyAddress(address, n) ==
    /\ address <= density_in_blocks * BLOCK_SIZE
    /\ address % BLOCK_SIZE = 0
    /\ density_in_blocks * BLOCK_SIZE - address + 1 >= n

\* The blocks of flash_partial_check_erase.
StartBlock == cmd.address \div BLOCK_SIZE
BlockNum ==
    LET last == (cmd.address + cmd.size - 1) % WORD
    IN  ((last \div BLOCK_SIZE) - StartBlock + 1) % WORD
EndOffset == ((StartBlock + BlockNum) * BLOCK_SIZE) % WORD

Blank(data) == \A i \in DOMAIN data : data[i] = Erased

\* NVM_Read for a whole range: flash_read goes by slices, nvm_rram_read at once.
ReadOk(address, n) ==
    IF handlers = "rram" THEN RramValid(address, n, 0)
    ELSE n = 0 \/ ReadStatus(address, n) = "DONE"
ReadBytes(address, n) ==
    IF handlers = "rram" THEN Slice(rram, address, n) ELSE ReadData(address, n)

\* Checksum reads piece by piece; after a read error it leaves the word alone.
ChecksumOk(address, n) ==
    \A i \in 0 .. (n - 1) \div BUFFER_SIZE :
        n = 0 \/ ReadOk(address + i * BUFFER_SIZE,
                        IF n - i * BUFFER_SIZE > BUFFER_SIZE THEN BUFFER_SIZE
                        ELSE n - i * BUFFER_SIZE)

----------------------------------------------------------------------------
\* Device_Attach.
Attach ==
    /\ npc = "attach"
    /\ IF Device_Type_Attached = Device_Type
       THEN npc' = "dispatch" /\ UNCHANGED <<handlers, Device_Type_Attached, driverVars>>
       ELSE IF Device_Type = "rram"
       THEN /\ handlers' = "rram"
            /\ Device_Type_Attached' = "rram"
            /\ npc' = "dispatch"
            /\ UNCHANGED driverVars
       ELSE /\ npc' = "attaching"
            /\ IF flash_inited THEN Return("DONE") ELSE CallInit
            /\ UNCHANGED <<handlers, Device_Type_Attached, flash_init_done>>
    /\ UNCHANGED <<chipVars, rram, dxe, xfer, Device_Type, flash_inited, density_in_blocks,
                   word, cmd, offset, hostVars, faulty>>

Attached ==
    /\ npc = "attaching" /\ DriverIdle
    /\ handlers' = "flash"
    /\ IF status = "DONE"
       THEN /\ flash_inited' = TRUE
            /\ density_in_blocks' = Density
            /\ Device_Type_Attached' = "flash"
            /\ npc' = "dispatch"
            /\ UNCHANGED <<word, offset>>
       ELSE /\ Finish(Status("PROGRAM_ERROR"))
            /\ UNCHANGED <<flash_inited, density_in_blocks, Device_Type_Attached>>
    /\ UNCHANGED <<chipVars, driverVars, rram, dxe, xfer, Device_Type, cmd, hostVars, faulty>>

\* JTAG_Run for the RRAM.
DispatchRram ==
    /\ npc = "dispatch" /\ handlers = "rram"
    /\ cmd.op \in {"program", "partial_erase", "chip_erase"}
    /\ IF cmd.op = "chip_erase"
       THEN Finish(Status("NOT_IMPLEMENTED")) /\ UNCHANGED xfer
       ELSE IF RramValid(cmd.address, cmd.size, IF cmd.op = "program" THEN 0 ELSE RRAM_ERASE_START)
       THEN RramStart
       ELSE Finish(Status("ADDRESS_ERROR")) /\ UNCHANGED xfer
    /\ UNCHANGED <<chipVars, driverVars, rram, dxe, Device_Type, Device_Type_Attached, handlers,
                   flash_inited, density_in_blocks, cmd, hostVars, faulty>>

\* JTAG_Run for the flash: a program is an erase of what is not blank, then
\* drv_flash_write.
DispatchFlash ==
    /\ npc = "dispatch" /\ handlers = "flash"
    /\ cmd.op \in {"program", "partial_erase", "chip_erase"}
    /\ IF cmd.op = "chip_erase"
       THEN CallErase("chip", 0, 1) /\ npc' = "finishing" /\ UNCHANGED <<offset, word>>
       ELSE IF ~FlashVerifyAddress(cmd.address, cmd.size)
       THEN Finish(Status("ADDRESS_ERROR")) /\ UNCHANGED driverVars
       ELSE /\ npc' = "check"
            /\ offset' = StartBlock * BLOCK_SIZE
            /\ UNCHANGED <<driverVars, word>>
    /\ UNCHANGED <<chipVars, flash_init_done, rram, dxe, xfer, Device_Type, Device_Type_Attached,
                   handlers, flash_inited, density_in_blocks, cmd, hostVars, faulty>>

\* Commands that are the same for every device.
DispatchRead ==
    /\ npc = "dispatch"
    /\ \/ /\ cmd.op = "compute_crc"
          /\ Finish(IF ChecksumOk(cmd.address, cmd.size)
                    THEN Crc(ReadBytes(cmd.address, cmd.size)) ELSE word)
          /\ UNCHANGED cmd
       \/ /\ cmd.op = "read"
          /\ IF ReadOk(cmd.address, cmd.size)
             THEN /\ Finish(Status("NO_ERROR"))
                  /\ cmd' = [cmd EXCEPT !.data = ReadBytes(cmd.address, cmd.size)]
             ELSE /\ Finish(Status(IF handlers = "rram" THEN "ADDRESS_ERROR" ELSE "READ_ERROR"))
                  /\ UNCHANGED cmd
    /\ UNCHANGED <<chipVars, driverVars, rram, dxe, xfer, Device_Type, Device_Type_Attached,
                   handlers, flash_inited, density_in_blocks, hostVars, faulty>>

\* One turn of the loop of flash_partial_check_erase: from the first block on,
\* all blocks are erased each time one is found that is not blank.
CheckErase ==
    IF ~Blank(ReadData(offset, BLOCK_SIZE))
    THEN CallErase("block", StartBlock, BlockNum) /\ npc' = "erasing" /\ UNCHANGED <<offset, word>>
    ELSE offset' = offset + BLOCK_SIZE /\ UNCHANGED <<driverVars, word, npc>>

FlashError == IF cmd.op = "program" THEN "PROGRAM_ERROR" ELSE "PARTIAL_ERASE_ERROR"

Check ==
    /\ npc = "check" /\ DriverIdle
    /\ IF BlockNum # 0 /\ offset < EndOffset
       THEN IF ReadStatus(offset, BLOCK_SIZE) # "DONE"
            THEN Finish(Status(FlashError)) /\ UNCHANGED driverVars
            ELSE CheckErase
       ELSE IF cmd.op = "program"
       THEN CallWrite(cmd.address, cmd.data) /\ npc' = "finishing" /\ UNCHANGED <<offset, word>>
       ELSE Finish(Status("NO_ERROR")) /\ UNCHANGED driverVars
    /\ UNCHANGED <<chipVars, flash_init_done, rram, dxe, xfer, Device_Type, Device_Type_Attached,
                   handlers, flash_inited, density_in_blocks, cmd, hostVars, faulty>>

\* Seeded fault, no part of the specification: the blocks are checked again
\* after the erase.
BlocksErasedRecheck ==
    /\ npc = "erasing" /\ DriverIdle
    /\ IF status = "DONE" THEN npc' = "check" /\ UNCHANGED <<offset, word>>
       ELSE Finish(Status(FlashError))
    /\ UNCHANGED <<chipVars, driverVars, rram, dxe, xfer, Device_Type, Device_Type_Attached,
                   handlers, flash_inited, density_in_blocks, cmd, hostVars, faulty>>

BlocksErased ==
    /\ npc = "erasing" /\ DriverIdle
    /\ IF status = "DONE"
       THEN npc' = "check" /\ offset' = offset + BLOCK_SIZE /\ UNCHANGED word
       ELSE Finish(Status(FlashError))
    /\ UNCHANGED <<chipVars, driverVars, rram, dxe, xfer, Device_Type, Device_Type_Attached,
                   handlers, flash_inited, density_in_blocks, cmd, hostVars, faulty>>

FlashFinished ==
    /\ npc = "finishing" /\ DriverIdle
    /\ Finish(Status(IF status = "DONE" THEN "NO_ERROR"
                     ELSE IF cmd.op = "program" THEN "PROGRAM_ERROR" ELSE "CHIP_ERASE_ERROR"))
    /\ UNCHANGED <<chipVars, driverVars, rram, dxe, xfer, Device_Type, Device_Type_Attached,
                   handlers, flash_inited, density_in_blocks, cmd, hostVars, faulty>>

\* A step of the driver or of the chip; a failing poll is a fault.
Driver ==
    /\ DriverStep
    /\ faulty' = (faulty \/ (fpc' = "idle" /\ fpc # "idle" /\ status' # "DONE"))
    /\ UNCHANGED <<nvmVars, hostVars>>

----------------------------------------------------------------------------
\* External: the host.  A session loads the programmer and starts one job.
NewSession(j) ==
    /\ hpc = "off" /\ sessions < MaxSessions
    /\ sessions' = sessions + 1
    /\ job' = j /\ hpc' = "send" /\ sent' = 0 /\ outcome' = "none"
    /\ held' = [flash |-> cells, rram |-> rram]
    /\ Device_Type' = j.nvm /\ Device_Type_Attached' = "none" /\ handlers' = "none"
    /\ flash_inited' = FALSE /\ density_in_blocks' = 0
    /\ word' = Status("NO_ERROR") /\ cmd' = NoCommand /\ npc' = "stopped" /\ offset' = 0
    /\ flash_init_done' = FALSE /\ call' = NoCall /\ fpc' = "idle" /\ status' = "DONE"
    /\ dxe' = NoTransfer /\ xfer' = NoWrite
    /\ faulty' = busy
    /\ UNCHANGED <<chipVars, rram>>

Send(c) ==
    /\ cmd' = c /\ word' = CommandWord(c.op) /\ npc' = "attach"
    /\ hpc' = "wait"

Piece(n) == IF n > HOST_PIECE THEN HOST_PIECE ELSE n

\* The next command of the job; a download ends with the checksum.
HostSends ==
    /\ hpc = "send"
    /\ LET n == Piece(job.size - sent)
           c(op, address, size, data) ==
               [op |-> op, address |-> address, size |-> size, data |-> data]
       IN  Send(CASE job.op = "download" /\ sent < job.size ->
                       c("program", job.address + sent, n, SubSeq(job.data, sent + 1, sent + n))
                  [] job.op = "download" /\ sent >= job.size ->
                       c("compute_crc", job.address, job.size, <<>>)
                  [] job.op = "read" -> c("read", job.address + sent, n, <<>>)
                  [] OTHER -> c(job.op, job.address, job.size, <<>>))
    /\ UNCHANGED <<chipVars, driverVars, rram, dxe, xfer, Device_Type, Device_Type_Attached, handlers,
                   flash_inited, density_in_blocks, offset, job, sent, outcome, sessions, held,
                   faulty>>

EndSession(o) == hpc' = "off" /\ outcome' = o

\* Seeded fault, no part of the specification: the checksum is not compared.
CrcVerdictIgnored == "ok"

CrcVerdict == IF word = Crc(job.data) THEN "ok" ELSE "failed"

\* The host reads the status word at the breakpoint.
Verdict ==
    IF cmd.op = "compute_crc"
    THEN EndSession(CrcVerdict) /\ UNCHANGED <<sent, job>>
    ELSE IF word # Status("NO_ERROR") THEN EndSession("failed") /\ UNCHANGED <<sent, job>>
    ELSE IF cmd.op = "read"
    THEN /\ job' = [job EXCEPT !.data = @ \o cmd.data]
         /\ sent' = sent + cmd.size
         /\ IF sent' < job.size THEN hpc' = "send" /\ UNCHANGED outcome ELSE EndSession("ok")
    ELSE IF cmd.op = "program"
    THEN sent' = sent + cmd.size /\ hpc' = "send" /\ UNCHANGED <<outcome, job>>
    ELSE EndSession("ok") /\ UNCHANGED <<sent, job>>

HostReads ==
    /\ hpc = "wait" /\ npc = "stopped"
    /\ Verdict
    /\ UNCHANGED <<chipVars, driverVars, nvmVars, sessions, held, faulty>>

\* The host gives up on a command that takes too long.
HostTimeout ==
    /\ hpc = "wait" /\ npc # "stopped"
    /\ EndSession("failed")
    /\ npc' = "stopped" /\ fpc' = "idle" /\ call' = NoCall
    /\ faulty' = TRUE
    /\ UNCHANGED <<chipVars, flash_init_done, status, rram, dxe, xfer, Device_Type,
                   Device_Type_Attached, handlers, flash_inited, density_in_blocks, word, cmd,
                   offset, job, sent, sessions, held>>

----------------------------------------------------------------------------
Init ==
    /\ \E c \in Contents : cells = c.flash /\ rram = c.rram
    /\ busy = FALSE /\ wel = FALSE
    /\ protect \in BOOLEAN
    /\ vendor \in Vendors
    /\ flash_init_done = FALSE /\ call = NoCall /\ fpc = "idle" /\ status = "DONE"
    /\ dxe = NoTransfer /\ xfer = NoWrite /\ Device_Type = "rram" /\ Device_Type_Attached = "none" /\ handlers = "none"
    /\ flash_inited = FALSE /\ density_in_blocks = 0
    /\ word = Status("NO_ERROR") /\ cmd = NoCommand /\ npc = "stopped" /\ offset = 0
    /\ job = [op |-> "none", nvm |-> "rram", address |-> 0, size |-> 0, data |-> <<>>]
    /\ hpc = "off" /\ sent = 0 /\ outcome = "none" /\ sessions = 0
    /\ faulty = FALSE
    /\ held = [flash |-> cells, rram |-> rram]

Programmer ==
    \/ Attach \/ Attached \/ DispatchRram \/ DispatchFlash \/ DispatchRead
    \/ RramHead \/ RramBlocks \/ RramTail \/ RramNext
    \/ Check \/ BlocksErased \/ FlashFinished
    \/ Driver

Next ==
    \/ \E j \in Jobs : NewSession(j)
    \/ HostSends \/ HostReads \/ HostTimeout
    \/ Programmer

\* The programmer is one endless loop and the host one thread: each goes on as
\* long as it can.  The chip may never finish and the host need not give up.
Spec == Init /\ [][Next]_vars /\ WF_vars(Programmer) /\ WF_vars(HostSends \/ HostReads)

----------------------------------------------------------------------------
\* The arrays hold bytes, the driver's loop always has something left to do,
\* and the driver works only for a command that waits for it.
TypeOK ==
    /\ FlashTypeOK
    /\ rram \in [RramAddr -> Bytes]
    /\ npc \in {"stopped", "attach", "attaching", "dispatch", "check", "erasing", "finishing",
               "rram_write", "rram_blocks", "rram_tail", "rram_next"}
    /\ hpc \in {"off", "send", "wait"}
    /\ sent \in 0 .. job.size
    /\ fpc # "idle" => npc \in {"attaching", "erasing", "finishing"}
    /\ npc # "stopped" => hpc = "wait"

Device == IF job.nvm = "rram" THEN rram ELSE cells
Ended == hpc = "off" /\ sessions > 0
InRange == job.address + job.size <= Cardinality(DOMAIN Device)

\* "Image programmed successfully" is printed only when the device holds the
\* image, whatever the polls, the protection bits and earlier sessions did; a
\* read that succeeds returned what the device holds; an erase that succeeds
\* leaves the range erased, except on a protected part of a vendor that
\* drv_flash_clear_write_protection has no case for.
SuccessMeansDone ==
    Ended /\ outcome = "ok" =>
        /\ job.op \in {"download", "read"} =>
               InRange /\ Slice(Device, job.address, job.size) = job.data
        /\ job.op = "partial_erase" /\ ~(job.nvm = "flash" /\ protect) =>
               Blank(Slice(Device, job.address, job.size))
        /\ job.op = "chip_erase" /\ ~(job.nvm = "flash" /\ protect) =>
               Blank(Slice(cells, 0, FlashSize))

\* A job within the device succeeds when nothing times out, the chip is known
\* and can be unlocked: page splitting, the erase of whole blocks, the pieces
\* of the host and of the checksum fit together.
NoFalseAlarm ==
    Ended /\ ~faulty /\ InRange /\ job.op # "none"
          /\ (job.nvm = "flash" => vendor # "unknown" /\ ~protect)
          /\ (job.nvm = "rram" => job.op # "chip_erase" /\ job.address < RramSize)
          /\ (job.nvm = "rram" /\ job.op = "partial_erase" => job.address >= RRAM_ERASE_START)
        => outcome = "ok"

\* Where a job may change its device: for the flash whole erase blocks, for the
\* RRAM the bytes of the job and no others.
MayChange ==
    LET last == job.address + job.size - 1
    IN  IF job.op = "chip_erase" THEN FlashAddr
        ELSE IF job.op \notin {"download", "partial_erase"} \/ job.size = 0 THEN {}
        ELSE IF job.nvm = "rram" THEN job.address .. last
        ELSE job.address .. ((last \div BLOCK_SIZE) + 1) * BLOCK_SIZE - 1

\* At every moment of a session, also after a failure or an abort, nothing but
\* that has changed.
OutsideUntouched ==
    /\ \A a \in FlashAddr :
           job.nvm = "rram" \/ a \notin MayChange => cells[a] = held.flash[a]
    /\ \A a \in RramAddr :
           job.nvm = "flash" \/ job.op = "chip_erase" \/ a \notin MayChange => rram[a] = held.rram[a]

\* Every session ends, even if the chip never leaves the busy state and the host
\* never gives up: all polls have a limit and the loops of
\* flash_partial_check_erase and of the driver advance on every turn.
SessionEnds == (hpc = "send") ~> (hpc = "off")
=============================================================================
