------------------------------- MODULE SblBoot -------------------------------
(***************************************************************************)
(* The secondary boot loader of qboot: how loader_start finds the          *)
(* application FDE (the RRAM Firmware Descriptor Entry that remembers      *)
(* which image RRAM holds), reads the three Firmware Descriptors (FWD) in  *)
(* flash, picks one, loads and verifies its application, and falls back to *)
(* the next one, or resets the chip, when a step fails.                    *)
(*                                                                         *)
(* An image is abstracted to the step of the load that it makes fail       *)
(* ("good" fails none, "none" is a FWD without an application entry).      *)
(* What FULL and RAM loads tell apart is the content of RRAM: a FULL load  *)
(* writes the RRAM segments, a RAM load trusts them.  Power may fail       *)
(* between any two steps, and in the middle of a load.                     *)
(***************************************************************************)
EXTENDS Integers, FiniteSets

CONSTANTS
    Faults,        \* the images the FWDs may name: a subset of AllFaults
    AuthEnabled,   \* the PBL asks for authentication and hash check
    SblImages,     \* a trial FWD may come with an SBL image of its own
    AppFde,        \* BOOLEAN subset: does RRAM hold an application FDE
    ReadErrors     \* a flash read of the FWD scan may fail

AllFaults == {"good", "none", "init", "auth", "load", "hash"}

ASSUME BootAssumption ==
    /\ Faults \subseteq AllFaults
    /\ AppFde \subseteq BOOLEAN
    /\ {AuthEnabled, SblImages, ReadErrors} \subseteq BOOLEAN

MAX_FWD_NUM == 3
Sectors == 0 .. MAX_FWD_NUM - 1
INDEX_TRIAL == 0
INDEX_CURRENT == 1
INDEX_GOLDEN == 2
Indices == {INDEX_TRIAL, INDEX_CURRENT, INDEX_GOLDEN}

NoFwd == [rank |-> INDEX_GOLDEN, status |-> 0, sbl |-> FALSE, app |-> "none"]
Fwd == [rank : Indices, status : 0 .. 1, sbl : BOOLEAN, app : AllFaults]

Mixed == MAX_FWD_NUM   \* RRAM holds no complete image; an FDE address of no FWD

\* Load addresses other than a sector's application: flash offset zero, and
\* an address outside flash.
ZeroAddr == MAX_FWD_NUM + 1
BadAddr == MAX_FWD_NUM + 2

VARIABLES
    flash,     \* sector -> the FWD stored there
    rram,      \* the sector whose application the RRAM segments hold, or Mixed
    fde,       \* the application FDE in RRAM
    sblTrial,  \* state of the trial SBL's FDE
    steady,    \* power never fails
    pc,        \* step of the boot
    sblRank,   \* rank of the SBL that the PBL started
    info,      \* g_sbl_info
    loc,       \* loader_start's local copy of the FDE
    tempfde,   \* ... and the copy it compares with before it writes the FDE
    idx,       \* the application FDE was found
    addr,      \* app_load_addr: a sector's application, ZeroAddr or BadAddr
    type       \* BOOT_ELF_LOAD_FULL or BOOT_ELF_LOAD_RAM

persistent == <<flash, rram, fde, sblTrial, steady>>
locals == <<info, loc, tempfde, idx, addr, type>>
vars == <<persistent, pc, sblRank, locals>>

FWD_TABLE_IS_VALID(t, i) == t[i].status = 1

ZeroFde == [addr |-> 0, rank |-> INDEX_TRIAL, mask |-> {}]
ZeroInfo == [table |-> [i \in Indices |-> NoFwd],
             boot_fwd |-> [i \in Indices |-> 0],
             valid_fwd |-> INDEX_TRIAL,
             mask |-> {},
             ota_sbl_exist |-> TRUE,       \* 0, and not MAX_FW_IMAGE_ENTRIES
             err |-> "none",
             load_type |-> "FULL"]

----------------------------------------------------------------------------
\* Flash holds any FWDs; the FDE, if RRAM has one, names the image in RRAM.
Init ==
    /\ flash \in [Sectors -> {NoFwd} \union
            {f \in [rank : Indices, status : {1}, sbl : BOOLEAN, app : Faults] :
                f.sbl => SblImages /\ f.rank = INDEX_TRIAL}]
    /\ rram \in Sectors \union {Mixed}
    /\ rram \in Sectors => flash[rram].app = "good"
    /\ idx \in AppFde
    /\ fde = [addr |-> IF idx THEN rram ELSE Mixed, rank |-> INDEX_CURRENT, mask |-> {}]
    /\ idx \/ rram = Mixed
    /\ sblTrial \in {"none", "new"}
    /\ steady \in BOOLEAN
    /\ pc = "pbl"
    /\ sblRank = INDEX_CURRENT
    /\ info = ZeroInfo
    /\ loc = ZeroFde
    /\ tempfde = ZeroFde
    /\ addr = ZeroAddr
    /\ type = "FULL"

\* The PBL (external ROM code): a new trial SBL gets one boot to prove itself.
PblStartsSbl ==
    /\ pc = "pbl"
    /\ sblTrial' = CASE sblTrial = "new" -> "pending"
                     [] sblTrial = "pending" -> "aborted"
                     [] OTHER -> sblTrial
    /\ sblRank' = IF sblTrial' \in {"pending", "valid"}
                  THEN INDEX_TRIAL ELSE INDEX_CURRENT
    /\ pc' = "scan"
    /\ UNCHANGED <<flash, rram, fde, steady, locals>>

\* boot_sbl_get_fwd_info after n sectors were read: the last valid FWD of each
\* rank fills its place in the table.
FwdOfRank(n, i) == {s \in 0 .. n - 1 : flash[s].status = 1 /\ flash[s].rank = i}
LastOf(S) == CHOOSE s \in S : \A t \in S : t <= s
boot_sbl_get_fwd_info(n) ==
    [info EXCEPT
        !.table = [i \in Indices |-> IF FwdOfRank(n, i) = {} THEN NoFwd
                                     ELSE flash[LastOf(FwdOfRank(n, i))]],
        !.boot_fwd = [i \in Indices |-> IF FwdOfRank(n, i) = {} THEN @[i]
                                        ELSE LastOf(FwdOfRank(n, i))],
        !.mask = {i \in Indices : FwdOfRank(n, i) # {}}]

\* loader_start up to the load loop, for an application in ELF format.
ScanFwd ==
    /\ pc = "scan"
    /\ loc' = IF idx THEN fde ELSE ZeroFde
    /\ \E n \in (IF ReadErrors THEN 0 .. MAX_FWD_NUM ELSE {MAX_FWD_NUM}) :
          info' = boot_sbl_get_fwd_info(n)
    /\ type' = "FULL"
    /\ pc' = "select"
    /\ UNCHANGED <<persistent, sblRank, tempfde, idx, addr>>

----------------------------------------------------------------------------
\* boot_sbl_sw_reset does nothing when it takes the image for the last one.
LastImage(in) ==
    \/ in.valid_fwd = INDEX_GOLDEN
    \/ in.valid_fwd = INDEX_CURRENT /\ ~FWD_TABLE_IS_VALID(in.table, INDEX_GOLDEN)
    \/ in.valid_fwd = INDEX_TRIAL /\ ~FWD_TABLE_IS_VALID(in.table, INDEX_CURRENT)

FirstValid(t) ==
    LET V == {i \in Indices : FWD_TABLE_IS_VALID(t, i)}
    IN IF V = {} THEN MAX_FWD_NUM ELSE CHOOSE i \in V : \A j \in V : i <= j

\* Seeded fault, no part of the specification: a reverted SBL selects the trial
\* FWD again.
SelectFirstNoSkip(in) ==
    LET first == FirstValid(in.table)
    IN IF first = MAX_FWD_NUM
       THEN [ret |-> first, info |-> in]
       ELSE [ret |-> first,
             info |-> [in EXCEPT !.valid_fwd = first,
                                 !.ota_sbl_exist = in.table[first].sbl]]

\* boot_sbl_select_validFwd without an error: the first valid FWD, except that
\* a trial FWD with an SBL image is skipped when the PBL went back to the
\* current SBL.  ret is the returned index.
SelectFirst(in) ==
    LET first == FirstValid(in.table)
        skipped == [in.table EXCEPT ![INDEX_TRIAL] = [@ EXCEPT !.status = 0]]
        second == IF FirstValid(skipped) = MAX_FWD_NUM THEN INDEX_TRIAL
                  ELSE FirstValid(skipped)
    IN IF first = MAX_FWD_NUM
       THEN [ret |-> first, info |-> in]
       ELSE IF first = INDEX_TRIAL /\ in.table[first].sbl /\ sblRank = INDEX_CURRENT
       THEN [ret |-> second,
             info |-> [in EXCEPT !.table = skipped, !.valid_fwd = second,
                                 !.ota_sbl_exist = TRUE]]
       ELSE [ret |-> first,
             info |-> [in EXCEPT !.valid_fwd = first,
                                 !.ota_sbl_exist = in.table[first].sbl]]

\* ... and after an error: the failed FWD is dropped for this boot and the next
\* index is taken, whether or not it is valid.
SelectNext(in) ==
    LET dropped == [in.table EXCEPT ![in.valid_fwd] = [@ EXCEPT !.status = 0]]
    IN IF in.valid_fwd < MAX_FWD_NUM
       THEN [ret |-> in.valid_fwd + 1,
             info |-> [in EXCEPT !.table = dropped, !.err = "none", !.valid_fwd = @ + 1]]
       ELSE [ret |-> MAX_FWD_NUM, info |-> in]

\* The two reasons for a reset after an error.
GivesUpSbl(in) == in.ota_sbl_exist \/ in.valid_fwd = INDEX_GOLDEN
FailedLoad(in) == in.err \in {"load", "hash"} /\ in.valid_fwd < MAX_FWD_NUM
Resets(in) == (GivesUpSbl(in) \/ FailedLoad(in)) /\ ~LastImage(in)

\* boot_sbl_update_fwd writes the FWD only if reading it failed, and what it
\* then holds has status zero: it never writes.
boot_sbl_update_fwd(f, s) == f

\* boot_sbl_prepare_set_fde for the selected index.
HasApp(in) == LET w == in.table[in.valid_fwd] IN w.status = 1 /\ w.app # "none"
boot_sbl_prepare_set_fde(in, l) ==
    IF HasApp(in)
    THEN [addr |-> in.boot_fwd[in.valid_fwd], rank |-> in.valid_fwd, mask |-> in.mask]
    ELSE IF in.table[in.valid_fwd].status = 1 THEN [l EXCEPT !.mask = in.mask]
    ELSE l

\* The load loop up to boot_elf_load_init, with the selection sel.  The flash
\* base is added to the load address even where boot_sbl_prepare_set_fde left
\* the address alone.
Prepare(sel) ==
    LET in == sel.info
        lt == IF sel.ret < MAX_FWD_NUM /\ HasApp(in)
              THEN IF loc.addr # in.boot_fwd[in.valid_fwd] THEN "FULL" ELSE "RAM"
              ELSE IF loc.addr >= MAX_FWD_NUM THEN "FULL" ELSE in.load_type
    IN /\ info' = [in EXCEPT !.load_type = lt]
       /\ IF sel.ret < MAX_FWD_NUM
          THEN /\ tempfde' = loc
               /\ loc' = boot_sbl_prepare_set_fde(in, loc)
               /\ type' = lt
               /\ addr' = IF HasApp(in) THEN in.boot_fwd[in.valid_fwd] ELSE BadAddr
          ELSE UNCHANGED <<tempfde, loc, type, addr>>
       /\ pc' = "init"

SelectFwd ==
    /\ pc = "select"
    /\ info.err = "none"
    /\ Prepare(SelectFirst(info))
    /\ UNCHANGED <<persistent, sblRank, idx>>

SelectAgain ==
    /\ pc = "select"
    /\ info.err # "none"
    /\ ~Resets(info)
    /\ Prepare(SelectNext(IF GivesUpSbl(info) THEN [info EXCEPT !.err = "none"] ELSE info))
    /\ flash' = IF FailedLoad(info) /\ ~GivesUpSbl(info)
                THEN boot_sbl_update_fwd(flash, info.boot_fwd[info.valid_fwd]) ELSE flash
    /\ UNCHANGED <<rram, fde, sblTrial, steady, sblRank, idx>>

\* What a reset, or a power cut, leaves of the loader's memory.
Restart ==
    /\ pc' = "pbl"
    /\ info' = ZeroInfo
    /\ loc' = ZeroFde
    /\ tempfde' = ZeroFde
    /\ addr' = ZeroAddr
    /\ type' = "FULL"
    /\ sblRank' = INDEX_CURRENT

SelectResets ==
    /\ pc = "select"
    /\ info.err # "none"
    /\ Resets(info)
    /\ flash' = IF GivesUpSbl(info) THEN flash
                ELSE boot_sbl_update_fwd(flash, info.boot_fwd[info.valid_fwd])
    /\ Restart
    /\ UNCHANGED <<rram, fde, sblTrial, steady, idx>>

----------------------------------------------------------------------------
\* The image at the load address; nothing is stored at the other addresses.
Image == IF addr \in Sectors THEN flash[addr].app ELSE "init"

Fails(err) ==
    /\ info' = [info EXCEPT !.err = err]
    /\ pc' = "select"

Continues(next) ==
    /\ pc' = next
    /\ UNCHANGED info

boot_elf_load_init ==
    /\ pc = "init"
    /\ IF Image \in {"init", "none"} THEN Fails("init") ELSE Continues("auth")
    /\ UNCHANGED <<persistent, sblRank, loc, tempfde, idx, addr, type>>

sbl_image_auth ==
    /\ pc = "auth"
    /\ IF AuthEnabled /\ Image = "auth" THEN Fails("auth") ELSE Continues("load")
    /\ UNCHANGED <<persistent, sblRank, loc, tempfde, idx, addr, type>>

\* boot_elf_load_image segment by segment: a FULL load overwrites RRAM, so
\* that for a while it holds parts of two images.
LoadBegins ==
    /\ pc = "load"
    /\ rram' = IF type = "FULL" THEN Mixed ELSE rram
    /\ pc' = "loading"
    /\ UNCHANGED <<flash, fde, sblTrial, steady, sblRank, locals>>

LoadEnds ==
    /\ pc = "loading"
    /\ IF Image = "load"
       THEN Fails("load") /\ UNCHANGED rram
       ELSE Continues("hash") /\ rram' = IF type = "FULL" THEN addr ELSE rram
    /\ UNCHANGED <<flash, fde, sblTrial, steady, sblRank, loc, tempfde, idx, addr, type>>

\* Seeded fault, no part of the specification: after a RAM load the hash of what
\* an earlier boot verified is not computed again.
HashAfterFullLoadOnly ==
    /\ pc = "hash"
    /\ IF AuthEnabled /\ type = "FULL" /\ (Image = "hash" \/ rram # addr) THEN Fails("hash")
       ELSE Continues(IF info.err = "none" THEN "commit_sbl" ELSE "select")
    /\ UNCHANGED <<persistent, sblRank, loc, tempfde, idx, addr, type>>

\* sbl_compute_verify_hash hashes the segments where they were loaded.  The
\* loop only ends when no error is left over from an earlier round.
sbl_compute_verify_hash ==
    /\ pc = "hash"
    /\ IF AuthEnabled /\ (Image = "hash" \/ rram # addr) THEN Fails("hash")
       ELSE Continues(IF info.err = "none" THEN "commit_sbl" ELSE "select")
    /\ UNCHANGED <<persistent, sblRank, loc, tempfde, idx, addr, type>>

\* The trial SBL has proved itself; its FDE is updated first.
CommitSbl ==
    /\ pc = "commit_sbl"
    /\ sblTrial' = IF sblRank = INDEX_TRIAL /\ sblTrial = "pending" THEN "valid"
                   ELSE sblTrial
    /\ pc' = "commit_app"
    /\ UNCHANGED <<flash, rram, fde, steady, sblRank, locals>>

\* Seeded fault, no part of the specification: the FDE is written only after a
\* FULL load.
CommitAppAfterFullLoad ==
    /\ pc = "commit_app"
    /\ fde' = IF idx /\ type = "FULL" THEN loc ELSE fde
    /\ pc' = "app"
    /\ UNCHANGED <<flash, rram, sblTrial, steady, sblRank, locals>>

\* The application's FDE is written if the last round changed it.
CommitApp ==
    /\ pc = "commit_app"
    /\ fde' = IF idx /\ tempfde # loc THEN loc ELSE fde
    /\ pc' = "app"
    /\ UNCHANGED <<flash, rram, sblTrial, steady, sblRank, locals>>

\* The application runs and reboots the chip some time.
Reboot ==
    /\ pc = "app"
    /\ Restart
    /\ UNCHANGED <<persistent, idx>>

PowerCut ==
    /\ ~steady
    /\ pc # "pbl"
    /\ Restart
    /\ UNCHANGED <<persistent, idx>>

Boot ==
    \/ PblStartsSbl \/ ScanFwd
    \/ SelectFwd \/ SelectAgain \/ SelectResets
    \/ boot_elf_load_init \/ sbl_image_auth
    \/ LoadBegins \/ LoadEnds \/ sbl_compute_verify_hash
    \/ CommitSbl \/ CommitApp

Next == Boot \/ Reboot \/ PowerCut

Spec == Init /\ [][Next]_vars

\* The loader is the only program on the chip: it never waits.
FairSpec == Spec /\ WF_vars(Boot)

----------------------------------------------------------------------------
InfoType == [table : [Indices -> Fwd], boot_fwd : [Indices -> Sectors],
             valid_fwd : 0 .. MAX_FWD_NUM, mask : SUBSET Indices,
             ota_sbl_exist : BOOLEAN, load_type : {"FULL", "RAM"},
             err : {"none", "init", "auth", "load", "hash"}]
FdeType == [addr : 0 .. Mixed, rank : Indices, mask : SUBSET Indices]

\* Type correctness of the loader's state.
TypeOK ==
    /\ flash \in [Sectors -> Fwd]
    /\ rram \in Sectors \union {Mixed}
    /\ fde \in FdeType
    /\ loc \in FdeType
    /\ tempfde \in FdeType
    /\ sblTrial \in {"none", "new", "pending", "aborted", "valid"}
    /\ pc \in {"pbl", "scan", "select", "init", "auth", "load", "loading", "hash",
               "commit_sbl", "commit_app", "app"}
    /\ sblRank \in {INDEX_TRIAL, INDEX_CURRENT}
    /\ info \in InfoType
    /\ idx \in BOOLEAN /\ steady \in BOOLEAN
    /\ addr \in Sectors \union {ZeroAddr, BadAddr}
    /\ type \in {"FULL", "RAM"}

\* With authentication on, the application that runs is a good image, its
\* segments in RRAM are its own and not what an earlier, failed or interrupted
\* load left there, and it is the one the selected FWD names.
RunsVerifiedImage ==
    (AuthEnabled /\ pc = "app") =>
        /\ addr \in Sectors
        /\ flash[addr].app = "good"
        /\ rram = addr
        /\ flash[addr].rank = info.valid_fwd

\* When the application runs, the FDE that the next boot will read names the
\* image that runs, with its rank, however many FWDs were tried before it.
FdeNamesRunningImage ==
    (pc = "app" /\ idx /\ addr \in Sectors) =>
        fde.addr = addr /\ fde.rank = flash[addr].rank

\* FWDs the scan finds when no read fails, by rank.
Found(i) == FwdOfRank(MAX_FWD_NUM, i)
Good(i) == Found(i) # {} /\ flash[LastOf(Found(i))].app = "good"
SblWithTrial == Found(INDEX_TRIAL) # {} /\ flash[LastOf(Found(INDEX_TRIAL))].sbl

\* Something is left to fall back to: every fault is found before the load, and
\* any FWD is good if no SBL image came with the trial; else the FWD that
\* follows the trial in the order of selection is good.
Recoverable ==
    /\ steady /\ idx
    /\ \A s \in Sectors : flash[s].app \notin {"load", "hash"}
    /\ IF SblWithTrial
       THEN Good(IF Found(INDEX_CURRENT) # {} THEN INDEX_CURRENT ELSE INDEX_GOLDEN)
       ELSE \E i \in Indices : Good(i)

\* An application is eventually started if there is a good one to fall back to:
\* neither the load loop nor the resets of boot_sbl_select_validFwd go on for
\* ever, also when the PBL has to revert a trial SBL first.
FallsBack == Recoverable ~> (pc = "app")

\* When the PBL has gone back to the current SBL, the current application is
\* started ("Use current APP directly").
RevertUsesCurrentApp ==
    (pc = "scan" /\ sblTrial = "aborted" /\ Good(INDEX_CURRENT))
        ~> (pc = "app" /\ info.valid_fwd = INDEX_CURRENT)
=============================================================================
