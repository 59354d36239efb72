----------------------------- MODULE FermFlash -----------------------------
(***************************************************************************)
(* The serial NOR flash driver, as it is built for the boot loader and the  *)
(* NVM programmer (CONFIG_NON_OS: one caller, no mutex, no sleep), and the  *)
(* flash chip as the driver sees it.                                        *)
(*                                                                          *)
(* A program or an erase is a loop of three steps: set the write enable     *)
(* latch and poll for it, send the command, poll until the chip is not      *)
(* busy.  Each poll may time out and leave the chip at work.  The chip      *)
(* programs within one page (the address wraps at its end), can only clear  *)
(* bits, and ignores commands while it is busy.                             *)
(* Source: hal/hal/src/ferm_flash.c.                                        *)
(***************************************************************************)
EXTENDS Integers, Sequences, SequencesExt

CONSTANTS
    PAGE_SIZE,    \* PAGE_SIZE_IN_BYTES
    BLOCK_SIZE,   \* BLOCK_SIZE_IN_BYTES
    Density,      \* density_in_blocks of the chip
    WORD          \* addresses are computed modulo WORD (2^32 in the code)

ASSUME FlashAssumption ==
    /\ {PAGE_SIZE, BLOCK_SIZE, Density, WORD} \subseteq Nat \ {0}
    /\ BLOCK_SIZE % PAGE_SIZE = 0
    /\ Density * BLOCK_SIZE < WORD

FlashSize == Density * BLOCK_SIZE
FlashAddr == 0 .. FlashSize - 1

\* A byte has two bits; an erased one has both set.
Bytes == 0 .. 3
Erased == 3
And(a, b) == (a % 2) * (b % 2) + 2 * ((a \div 2) * (b \div 2))

\* What the table of configured parts and the vendor tests of
\* drv_flash_clear_write_protection tell apart.
Vendors == {"listed", "other", "unknown"}

VARIABLES
    cells,           \* chip: the array
    busy,            \* chip: a program, erase or register write goes on
    wel,             \* chip: the write enable latch
    protect,         \* chip: block protection bits are set
    vendor,          \* chip: "listed", "other" (no unlock code) or "unknown"
    flash_init_done,
    call,            \* driver: the operation in progress
    fpc,             \* driver: where it is
    status           \* driver: what the last call returned

chipVars == <<cells, busy, wel, protect, vendor>>
driverVars == <<flash_init_done, call, fpc, status>>

NoCall == [op |-> "none", address |-> 0, cnt |-> 0, data |-> <<>>]

Return(result) == fpc' = "idle" /\ status' = result /\ call' = NoCall

----------------------------------------------------------------------------
\* External: what the chip does with a page program and an erase of n bytes.
ProgramPage(m, address, data) ==
    LET base == address - (address % PAGE_SIZE)
        target(i) == base + (((address % PAGE_SIZE) + i - 1) % PAGE_SIZE)
    IN  [a \in DOMAIN m |->
            IF \E i \in DOMAIN data : target(i) = a
            THEN And(m[a], data[CHOOSE i \in DOMAIN data : target(i) = a])
            ELSE m[a]]

EraseRange(m, address, n) ==
    [a \in DOMAIN m |-> IF a \in address .. address + n - 1 THEN Erased ELSE m[a]]

\* External: the chip ends what it is doing.
ChipDone ==
    /\ busy
    /\ busy' = FALSE
    /\ wel' = FALSE
    /\ UNCHANGED <<cells, protect, vendor, driverVars>>

----------------------------------------------------------------------------
\* The bounds test of drv_flash_read and drv_flash_write.
InvalidRange(address, cnt) ==
    \/ cnt = 0
    \/ (address + cnt) % WORD < address
    \/ (address + cnt) % WORD > FlashSize

\* drv_flash_read.  A busy chip does not answer and the data are not those of
\* the array.
ReadStatus(address, cnt) ==
    IF ~flash_init_done THEN "FAIL"
    ELSE IF InvalidRange(address, cnt) THEN "INVALID_PARAMETER" ELSE "DONE"

ReadData(address, cnt) ==
    [i \in 1 .. cnt |-> IF busy THEN 0 ELSE cells[address + i - 1]]

\* drv_flash_write up to its loop.
CallWrite(address, data) ==
    IF ~flash_init_done THEN Return("FAIL")
    ELSE IF InvalidRange(address, Len(data)) THEN Return("INVALID_PARAMETER")
    ELSE /\ call' = [op |-> "write", address |-> address, cnt |-> Len(data), data |-> data]
         /\ fpc' = "enable"
         /\ UNCHANGED status

\* drv_flash_erase up to its loop, for blocks or for the whole chip.
EraseSize(op) == IF op = "chip" THEN FlashSize ELSE BLOCK_SIZE

CallErase(op, start, cnt) ==
    LET size == EraseSize(op)
        address == (start * size) % WORD
        end == ((start + cnt) * size) % WORD
    IN  IF ~flash_init_done THEN Return("FAIL")
        ELSE IF cnt = 0 \/ end < address \/ end > FlashSize THEN Return("INVALID_PARAMETER")
        ELSE /\ call' = [op |-> op, address |-> address, cnt |-> cnt, data |-> <<>>]
             /\ fpc' = "enable"
             /\ UNCHANGED status

\* Seeded fault, no part of the specification: a transfer may be a byte longer
\* than a page.
TransferSizeLong(c) == IF c.cnt > PAGE_SIZE THEN PAGE_SIZE + 1 ELSE c.cnt

\* How many bytes the next turn of drv_flash_write transfers.
TransferSize(c) ==
    LET room == PAGE_SIZE - (c.address % PAGE_SIZE)
    IN  IF room > c.cnt THEN c.cnt ELSE room

----------------------------------------------------------------------------
\* drv_flash_write_enable: the latch is set by a chip that is not busy; if it
\* is not seen set before the timeout the operation fails.
WriteEnable ==
    /\ fpc = "enable"
    /\ \/ /\ busy => wel
          /\ wel' = TRUE
          /\ fpc' = "command"
          /\ UNCHANGED <<status, call>>
       \/ /\ Return("FAIL")
          /\ UNCHANGED wel
    /\ UNCHANGED <<cells, busy, protect, vendor, flash_init_done>>

\* The command of the turn.  The result of drv_qspi_run_cmd is not looked at.
\* A protected chip drops the command.
CommandEffect ==
    IF call.op = "write"
    THEN ProgramPage(cells, call.address, SubSeq(call.data, 1, TransferSize(call)))
    ELSE EraseRange(cells, call.address, EraseSize(call.op))

RunCommand ==
    /\ fpc = "command"
    /\ fpc' = "wait"
    /\ IF busy \/ ~wel \/ protect
       THEN /\ wel' = (wel /\ busy)
            /\ UNCHANGED <<cells, busy>>
       ELSE /\ cells' = CommandEffect
            /\ busy' = TRUE
            /\ UNCHANGED wel
    /\ UNCHANGED <<protect, vendor, flash_init_done, call, status>>

\* The end of a turn of the loops of drv_flash_write and drv_flash_erase.
NextTurn(c) ==
    IF c.op = "write"
    THEN LET n == TransferSize(c)
         IN  [c EXCEPT !.address = @ + n, !.cnt = @ - n, !.data = SubSeq(@, n + 1, Len(@))]
    ELSE [c EXCEPT !.address = @ + EraseSize(c.op), !.cnt = @ - 1]

\* drv_flash_wait_operation_done: the chip is seen idle, or the time is over,
\* or the chip's error register reports a failure.
WaitDone ==
    /\ fpc = "wait"
    /\ ~busy
    /\ IF NextTurn(call).cnt = 0 THEN Return("DONE")
       ELSE call' = NextTurn(call) /\ fpc' = "enable" /\ UNCHANGED status
    /\ UNCHANGED <<chipVars, flash_init_done>>

WaitFails ==
    /\ fpc = "wait"
    /\ Return("FAIL")
    /\ UNCHANGED <<chipVars, flash_init_done>>

----------------------------------------------------------------------------
\* drv_flash_init: power up and device id, write protection, then ready (no
\* configured part has a high performance mode or four address bytes).
CallInit ==
    IF flash_init_done THEN Return("DONE")
    ELSE fpc' = "init_id" /\ UNCHANGED <<status, call>>

\* drv_flash_info_init looks the device id up.  A chip that is still busy from
\* before does not answer with its id.
InitId ==
    /\ fpc = "init_id"
    /\ IF vendor = "unknown" \/ busy THEN Return("NOT_FOUND")
       ELSE fpc' = "init_protect" /\ UNCHANGED <<status, call>>
    /\ UNCHANGED <<chipVars, flash_init_done>>

\* drv_flash_clear_write_protection: the bits are cleared with a register
\* write, which may time out or be ignored, and read back.  A vendor without
\* a case of its own is left as it is.
InitProtect ==
    /\ fpc = "init_protect"
    /\ \/ /\ vendor = "other" \/ ~protect
          /\ flash_init_done' = TRUE
          /\ Return("DONE")
          /\ UNCHANGED <<protect, wel>>
       \/ /\ vendor = "listed" /\ protect /\ ~busy
          /\ protect' = FALSE
          /\ wel' = FALSE
          /\ flash_init_done' = TRUE
          /\ Return("DONE")
       \/ /\ vendor = "listed" /\ protect
          /\ Return("FAIL")
          /\ UNCHANGED <<protect, wel, flash_init_done>>
    /\ UNCHANGED <<cells, busy, vendor>>

DriverStep ==
    \/ WriteEnable \/ RunCommand \/ WaitDone \/ WaitFails \/ InitId \/ InitProtect
    \/ ChipDone

DriverIdle == fpc = "idle"

----------------------------------------------------------------------------
FlashTypeOK ==
    /\ cells \in [FlashAddr -> Bytes]
    /\ {busy, wel, protect, flash_init_done} \subseteq BOOLEAN
    /\ vendor \in Vendors
    /\ fpc \in {"idle", "enable", "command", "wait", "init_id", "init_protect"}
    /\ call.op \in {"none", "write", "block", "chip"}
    /\ call.cnt \in 0 .. FlashSize
    /\ status \in {"DONE", "FAIL", "INVALID_PARAMETER", "NOT_FOUND"}
    /\ fpc \in {"enable", "command", "wait"} => call.cnt > 0
=============================================================================
