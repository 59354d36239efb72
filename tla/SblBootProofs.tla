--------------------------- MODULE SblBootProofs ---------------------------
(***************************************************************************)
(* Proofs about SblBoot for every set of image faults, with and without    *)
(* authentication, trial SBL images, read errors and power cuts: only a    *)
(* verified image is started, and the FDE names the image that runs.       *)
(***************************************************************************)
EXTENDS SblBoot, TLAPS

Rounds  == {"init", "auth", "load", "loading", "hash", "commit_sbl", "commit_app", "app"}
Checked == {"auth", "load", "loading", "hash", "commit_sbl", "commit_app", "app"}
Passed  == {"commit_sbl", "commit_app", "app"}

\* A valid entry of the table is the FWD of its rank at the sector it came from.
TableInv ==
  \A i \in Indices : info.table[i].status = 1 =>
     info.table[i] = flash[info.boot_fwd[i]] /\ info.table[i].rank = i

\* The round cannot succeed, now or when it is repeated as it is.
Hopeless ==
  \/ Image \in {"init", "none", "load"}
  \/ AuthEnabled /\ (Image \in {"auth", "hash"} \/ (type = "RAM" /\ rram # addr))

\* Before the first round the loader's memory is as the reset left it.  After
\* it the load address is the application of the selected FWD; past the last
\* FWD it is the address of a round that failed.  An error is left only by a
\* round that is hopeless.
RoundInv ==
  /\ pc \in {"pbl", "scan"} => info = ZeroInfo
  /\ pc \in {"pbl", "scan"} \/ (pc = "select" /\ info.err = "none") =>
        addr = ZeroAddr /\ info.valid_fwd = INDEX_TRIAL
  /\ addr \in Sectors =>
        \/ info.valid_fwd \in Indices /\ flash[addr].rank = info.valid_fwd
        \/ info.valid_fwd = MAX_FWD_NUM /\ Hopeless
  /\ info.err # "none" => Hopeless

\* What the steps of a round have established.
StepInv ==
  /\ pc \in Checked => Image \notin {"init", "none"}
  /\ pc \in Checked \ {"auth"} => ~(AuthEnabled /\ Image = "auth")
  /\ pc \in {"hash"} \cup Passed => Image # "load" /\ (type = "FULL" => rram = addr)
  /\ pc \in Passed /\ AuthEnabled => Image # "hash" /\ rram = addr

\* The local copy of the FDE names the selected image, and the copy it is
\* compared with names the image of the stored FDE or one of a lower index:
\* were the two equal, the stored FDE would name the selected image already.
Names(e, f) == e.addr = f.addr /\ e.rank = f.rank
FdeInv ==
  idx /\ pc \notin {"pbl", "scan", "app"} =>
    /\ info.valid_fwd \in Indices => Names(loc, fde) \/ loc.rank <= info.valid_fwd
    /\ pc = "select" /\ info.err = "none" => Names(loc, fde)
    /\ addr \in Sectors /\ info.valid_fwd \in Indices =>
          /\ loc.addr = addr /\ loc.rank = info.valid_fwd
          /\ Names(tempfde, fde) \/ tempfde.rank < info.valid_fwd

IInv == TypeOK /\ TableInv /\ RoundInv /\ StepInv /\ FdeInv /\ FdeNamesRunningImage

----------------------------------------------------------------------------
\* The table in g_sbl_info in is well formed.
TableOf(in) ==
  \A i \in Indices : in.table[i].status = 1 =>
     in.table[i] = flash[in.boot_fwd[i]] /\ in.table[i].rank = i

\* The last sector of a non-empty set of sectors is one of them.
LEMMA LastOfIn ==
  ASSUME NEW S \in SUBSET Sectors, S # {}
  PROVE  LastOf(S) \in S
<1> USE DEF Sectors, MAX_FWD_NUM
<1>1. \E s \in S : \A t \in S : t <= s
  <2>1. CASE 2 \in S
    BY <2>1
  <2>2. CASE 2 \notin S /\ 1 \in S
    BY <2>2
  <2>3. CASE 2 \notin S /\ 1 \notin S
    <3>0. PICK s \in S : TRUE
      BY ZenonT(40)
    <3>1. s = 0
      BY <2>3, <3>0
    <3> QED BY <2>3, <3>1
  <2> QED BY ZenonT(40), <2>1, <2>2, <2>3
<1> QED BY ZenonT(40), <1>1 DEF LastOf

\* The first valid FWD is an index of the table, or none.
LEMMA FirstValidIn ==
  ASSUME NEW t
  PROVE  FirstValid(t) \in Indices \cup {MAX_FWD_NUM}
<1> DEFINE V == {i \in Indices : FWD_TABLE_IS_VALID(t, i)}
<1>1. CASE V = {}
  BY <1>1 DEF FirstValid
<1>2. CASE V # {}
  <2>1. V \subseteq Indices
    OBVIOUS
  <2> HIDE DEF V
  <2> USE DEF Indices, INDEX_TRIAL, INDEX_CURRENT, INDEX_GOLDEN
  <2>2. \E i \in V : \A j \in V : i <= j
    <3>1. CASE 0 \in V
      BY <2>1, <3>1
    <3>2. CASE 0 \notin V /\ 1 \in V
      BY <2>1, <3>2
    <3>3. CASE 0 \notin V /\ 1 \notin V
      <4>1. 2 \in V
        BY ZenonT(40), <1>2, <2>1, <3>3
      <4> QED BY <2>1, <3>3, <4>1
    <3> QED BY ZenonT(40), <3>1, <3>2, <3>3
  <2>3. (CHOOSE i \in V : \A j \in V : i <= j) \in V
    BY <2>2
  <2>4. FirstValid(t) = CHOOSE i \in V : \A j \in V : i <= j
    BY ZenonT(40), <1>2 DEF FirstValid, V
  <2> QED BY ZenonT(40), <2>1, <2>3, <2>4
<1> QED BY <1>1, <1>2

\* The invariant holds when the chip comes out of reset, whatever the RRAM and
\* the flash hold.
LEMMA InitInv == Init => IInv
<1> SUFFICES ASSUME Init PROVE IInv
  OBVIOUS
<1> USE DEF Init, INDEX_TRIAL, INDEX_CURRENT, INDEX_GOLDEN, Indices, MAX_FWD_NUM,
            Sectors, Mixed, ZeroAddr, BadAddr
<1>1. flash \in [Sectors -> Fwd]
  <2>1. NoFwd \in Fwd
    BY DEF NoFwd, Fwd, AllFaults
  <2>2. {f \in [rank : Indices, status : {1}, sbl : BOOLEAN, app : Faults] :
            f.sbl => SblImages /\ f.rank = INDEX_TRIAL} \subseteq Fwd
    BY BootAssumption DEF Fwd
  <2> QED BY ZenonT(40), <2>1, <2>2
<1>2. ZeroInfo \in InfoType
  BY DEF ZeroInfo, InfoType, NoFwd, Fwd, AllFaults
<1>3. fde \in FdeType /\ ZeroFde \in FdeType
  BY DEF FdeType, ZeroFde
<1>4. TypeOK
  BY ZenonT(40), <1>1, <1>2, <1>3, BootAssumption DEF TypeOK
<1>5. TableInv
  BY DEF TableInv, ZeroInfo, NoFwd
<1>6. RoundInv
  BY DEF RoundInv, ZeroInfo
<1> QED BY ZenonT(40), <1>4, <1>5, <1>6 DEF IInv, StepInv, FdeInv, FdeNamesRunningImage, Checked, Passed

\* A reset or a power cut brings the loader back to where it starts.
LEMMA RestartInv ==
  ASSUME IInv, Restart, UNCHANGED <<flash, rram, fde, sblTrial, steady, idx>>
  PROVE  IInv'
<1> USE DEF Restart, INDEX_TRIAL, INDEX_CURRENT, INDEX_GOLDEN, Indices, MAX_FWD_NUM,
            Sectors, Mixed, ZeroAddr, BadAddr
<1>2. ZeroInfo \in InfoType
  BY DEF ZeroInfo, InfoType, NoFwd, Fwd, AllFaults
<1>3. ZeroFde \in FdeType
  BY DEF FdeType, ZeroFde
<1>4. TypeOK'
  BY ZenonT(40), <1>2, <1>3 DEF IInv, TypeOK
<1>5. TableInv'
  BY DEF TableInv, ZeroInfo, NoFwd
<1>6. RoundInv'
  BY DEF RoundInv, ZeroInfo
<1> QED BY ZenonT(40), <1>4, <1>5, <1>6 DEF IInv, StepInv, FdeInv, FdeNamesRunningImage, Checked, Passed

\* The scan fills the table from flash, each FWD in the place of its rank.
LEMMA ScanInv ==
  ASSUME IInv, ScanFwd
  PROVE  IInv'
<1> USE DEF INDEX_TRIAL, INDEX_CURRENT, INDEX_GOLDEN, Indices, MAX_FWD_NUM, Sectors
<1>0. TypeOK /\ info = ZeroInfo /\ addr = ZeroAddr
  BY ZenonT(40) DEF IInv, RoundInv, ScanFwd
<1>1. PICK n \in 0 .. MAX_FWD_NUM : info' = boot_sbl_get_fwd_info(n)
  BY DEF ScanFwd
<1>2. \A i \in Indices : FwdOfRank(n, i) # {} =>
         LastOf(FwdOfRank(n, i)) \in Sectors
         /\ flash[LastOf(FwdOfRank(n, i))].rank = i
  <2> TAKE i \in Indices
  <2>1. FwdOfRank(n, i) \in SUBSET Sectors
    BY DEF FwdOfRank
  <2> HAVE FwdOfRank(n, i) # {}
  <2>2. LastOf(FwdOfRank(n, i)) \in FwdOfRank(n, i)
    BY ZenonT(40), <2>1, LastOfIn
  <2> QED BY ZenonT(40), <2>1, <2>2 DEF FwdOfRank
<1> DEFINE table == [i \in Indices |-> IF FwdOfRank(n, i) = {} THEN NoFwd
                                       ELSE flash[LastOf(FwdOfRank(n, i))]]
           from == [i \in Indices |-> IF FwdOfRank(n, i) = {} THEN 0
                                      ELSE LastOf(FwdOfRank(n, i))]
<1>3. /\ info'.table = table /\ info'.boot_fwd = from
      /\ info'.valid_fwd = 0 /\ info'.err = "none"
  BY ZenonT(40), <1>0, <1>1 DEF boot_sbl_get_fwd_info, ZeroInfo
<1>4. info' \in InfoType
  <2>1. table \in [Indices -> Fwd]
    BY <1>0, <1>2 DEF TypeOK, NoFwd, Fwd, AllFaults
  <2>2. from \in [Indices -> Sectors]
    BY <1>2
  <2>3. info' = [table |-> table, boot_fwd |-> from, valid_fwd |-> INDEX_TRIAL,
                mask |-> {i \in Indices : FwdOfRank(n, i) # {}}, ota_sbl_exist |-> TRUE,
                err |-> "none", load_type |-> "FULL"]
    BY ZenonT(40), <1>0, <1>1 DEF boot_sbl_get_fwd_info, ZeroInfo
  <2> HIDE DEF table, from
  <2> QED BY <2>1, <2>2, <2>3 DEF InfoType
<1>5. TypeOK'
  <2>1. loc' \in FdeType
    BY <1>0 DEF TypeOK, ScanFwd, FdeType, ZeroFde, Mixed
  <2> QED BY ZenonT(40), <1>0, <1>4, <2>1 DEF TypeOK, ScanFwd, persistent
<1>6. TableInv'
  BY <1>2, <1>3 DEF TableInv, ScanFwd, persistent, NoFwd
<1>7. RoundInv'
  BY <1>0, <1>3 DEF RoundInv, ScanFwd, ZeroAddr
<1>8. FdeInv'
  BY <1>0, <1>3 DEF FdeInv, ScanFwd, persistent, Names, ZeroAddr
<1> QED BY ZenonT(40), <1>5, <1>6, <1>7, <1>8 DEF IInv, StepInv, FdeNamesRunningImage, Checked, Passed, ScanFwd

\* What a selection must be for the round it starts.
SelectionOK(sel) ==
  /\ sel.info \in InfoType /\ TableOf(sel.info)
  /\ sel.ret \in 0 .. MAX_FWD_NUM
  /\ sel.ret < MAX_FWD_NUM =>
        /\ sel.info.valid_fwd = sel.ret
        /\ sel.info.err = "none"
        /\ idx => Names(loc, fde) \/ loc.rank < sel.ret
  /\ sel.ret = MAX_FWD_NUM =>
        /\ addr \in Sectors => sel.info.valid_fwd = MAX_FWD_NUM /\ Hopeless
        /\ sel.info.err # "none" => Hopeless
        /\ idx /\ sel.info.valid_fwd \in Indices => Names(loc, fde)

\* A round starts with the image of the selected FWD, with an address at which
\* nothing is stored, or with what is left of the last round.
LEMMA PrepareInv ==
  ASSUME IInv, NEW sel, SelectionOK(sel), Prepare(sel),
         UNCHANGED <<persistent, sblRank, idx>>
  PROVE  IInv'
<1> USE DEF INDEX_TRIAL, INDEX_CURRENT, INDEX_GOLDEN, Indices, MAX_FWD_NUM, Sectors, persistent
<1> DEFINE in == sel.info
           v  == in.valid_fwd
<1>1. in \in InfoType /\ TableOf(in) /\ TypeOK
  BY ZenonT(40) DEF SelectionOK, IInv
<1>2. PICK lt \in {"FULL", "RAM"} :
         /\ info' = [in EXCEPT !.load_type = lt]
         /\ sel.ret < MAX_FWD_NUM => type' = lt
  <2>1. in.load_type \in {"FULL", "RAM"}
    BY ZenonT(40), <1>1 DEF InfoType
  <2> QED BY ZenonT(40), <2>1 DEF Prepare
<1>3. /\ info' \in InfoType /\ info'.table = in.table /\ info'.boot_fwd = in.boot_fwd
      /\ info'.valid_fwd = v /\ info'.err = in.err
  BY ZenonT(40), <1>1, <1>2 DEF InfoType
<1>4. TableInv'
  BY ZenonT(40), <1>1, <1>3 DEF TableInv, TableOf
<1>5. pc' = "init"
  BY ZenonT(40) DEF Prepare
<1>6. CASE sel.ret = MAX_FWD_NUM
  <2>1. UNCHANGED <<tempfde, loc, type, addr>>
    BY <1>6 DEF Prepare
  <2>2. TypeOK'
    BY ZenonT(40), <1>1, <1>3, <1>5, <2>1 DEF TypeOK
  <2>3. Hopeless' = Hopeless
    BY ZenonT(40), <2>1 DEF Hopeless, Image
  <2>4. RoundInv'
    BY ZenonT(40), <1>3, <1>5, <1>6, <2>1, <2>3 DEF RoundInv, SelectionOK
  <2>5. FdeInv'
    BY <1>3, <1>5, <1>6, <2>1 DEF FdeInv, SelectionOK, Names
  <2> QED BY ZenonT(40), <1>4, <1>5, <2>2, <2>4, <2>5
          DEF IInv, StepInv, FdeNamesRunningImage, Checked, Passed
<1>7. CASE sel.ret < MAX_FWD_NUM
  <2>1. /\ v \in Indices /\ in.err = "none"
        /\ tempfde' = loc /\ loc' = boot_sbl_prepare_set_fde(in, loc)
        /\ addr' = IF HasApp(in) THEN in.boot_fwd[v] ELSE BadAddr
    BY <1>7 DEF SelectionOK, Prepare
  <2>2. in.boot_fwd[v] \in Sectors /\ in.mask \in SUBSET Indices
    BY ZenonT(40), <1>1, <2>1 DEF InfoType
  <2>3. loc' \in FdeType
    BY <1>1, <2>1, <2>2 DEF boot_sbl_prepare_set_fde, TypeOK, FdeType, Mixed
  <2>4. TypeOK'
    BY ZenonT(40), <1>1, <1>2, <1>3, <1>5, <1>7, <2>1, <2>2, <2>3 DEF TypeOK
  <2>5. HasApp(in) => flash[in.boot_fwd[v]].rank = v
    BY ZenonT(40), <1>1, <2>1 DEF TableOf, HasApp
  <2>6. RoundInv'
    BY <1>3, <1>5, <2>1, <2>5 DEF RoundInv, BadAddr
  <2>7. idx => Names(loc, fde) \/ loc.rank < v
    BY ZenonT(40), <1>7 DEF SelectionOK
  <2>8. FdeInv'
    <3>1. CASE HasApp(in)
      BY <1>1, <1>3, <1>5, <2>1, <2>2, <2>7, <3>1
         DEF FdeInv, Names, boot_sbl_prepare_set_fde
    <3>2. CASE ~HasApp(in)
      <4>1. Names(loc', loc)
        BY ZenonT(40), <1>1, <2>1, <3>2 DEF Names, boot_sbl_prepare_set_fde, TypeOK, FdeType
      <4>2. loc.rank \in Indices
        BY ZenonT(40), <1>1 DEF TypeOK, FdeType
      <4> QED BY <1>3, <1>5, <2>1, <2>7, <3>2, <4>1, <4>2 DEF FdeInv, Names, BadAddr
    <3> QED BY ZenonT(40), <3>1, <3>2
  <2> QED BY ZenonT(40), <1>4, <1>5, <2>4, <2>6, <2>8
          DEF IInv, StepInv, FdeNamesRunningImage, Checked, Passed
<1> QED BY <1>6, <1>7 DEF SelectionOK

\* The first round of a boot.
LEMMA SelectFwdInv ==
  ASSUME IInv, SelectFwd
  PROVE  IInv'
<1> USE DEF INDEX_TRIAL, INDEX_CURRENT, INDEX_GOLDEN, Indices, MAX_FWD_NUM
<1> DEFINE first == FirstValid(info.table)
           skipped == [info.table EXCEPT ![INDEX_TRIAL] = [@ EXCEPT !.status = 0]]
           second == IF FirstValid(skipped) = MAX_FWD_NUM THEN INDEX_TRIAL
                     ELSE FirstValid(skipped)
           sel == SelectFirst(info)
<1>1. /\ info \in InfoType /\ TableInv /\ addr \notin Sectors
      /\ info.err = "none" /\ info.valid_fwd = 0
      /\ idx => Names(loc, fde)
  BY DEF IInv, TypeOK, RoundInv, FdeInv, SelectFwd, ZeroAddr, Sectors
<1>2. first \in Indices \cup {MAX_FWD_NUM} /\ second \in Indices
  BY ZenonT(40), FirstValidIn
<1>3. skipped \in [Indices -> Fwd]
  BY <1>1 DEF InfoType, Fwd
<1>4. \A i \in Indices : skipped[i].status = 1 => skipped[i] = info.table[i]
  BY <1>1 DEF InfoType, Fwd
<1>5. SelectionOK(sel)
  <2>0. sel = IF first = MAX_FWD_NUM THEN [ret |-> first, info |-> info]
              ELSE IF first = INDEX_TRIAL /\ info.table[first].sbl /\ sblRank = INDEX_CURRENT
              THEN [ret |-> second,
                    info |-> [info EXCEPT !.table = skipped, !.valid_fwd = second,
                                          !.ota_sbl_exist = TRUE]]
              ELSE [ret |-> first,
                    info |-> [info EXCEPT !.valid_fwd = first,
                                          !.ota_sbl_exist = info.table[first].sbl]]
    BY DEF SelectFirst
  <2> HIDE DEF skipped, second, first, sel
  <2>1. CASE first = MAX_FWD_NUM
    BY <1>1, <2>0, <2>1 DEF SelectionOK, TableInv, TableOf
  <2>2. CASE first # MAX_FWD_NUM /\ first = INDEX_TRIAL /\ info.table[first].sbl
             /\ sblRank = INDEX_CURRENT
    <3>1. sel = [ret |-> second,
                 info |-> [info EXCEPT !.table = skipped, !.valid_fwd = second,
                                       !.ota_sbl_exist = TRUE]]
      BY ZenonT(40), <2>0, <2>2
    <3>2. /\ sel.ret = second /\ sel.info.valid_fwd = second /\ sel.info.err = "none"
          /\ sel.info.table = skipped /\ sel.info.boot_fwd = info.boot_fwd
      BY ZenonT(40), <1>1, <3>1 DEF InfoType
    <3>3. sel.info \in InfoType
      <4>1. sel.info = [table |-> skipped, boot_fwd |-> info.boot_fwd, valid_fwd |-> second,
                        mask |-> info.mask, ota_sbl_exist |-> TRUE,
                        load_type |-> info.load_type, err |-> info.err]
        BY ZenonT(40), <1>1, <3>1 DEF InfoType
      <4> QED BY <1>1, <1>2, <1>3, <4>1 DEF InfoType
    <3>4. TableOf(sel.info)
      BY ZenonT(40), <1>1, <1>4, <3>2 DEF TableOf, TableInv
    <3> QED BY <1>1, <1>2, <3>2, <3>3, <3>4 DEF SelectionOK
  <2>3. CASE first # MAX_FWD_NUM /\ ~(first = INDEX_TRIAL /\ info.table[first].sbl
             /\ sblRank = INDEX_CURRENT)
    <3>1. sel = [ret |-> first,
                 info |-> [info EXCEPT !.valid_fwd = first,
                                       !.ota_sbl_exist = info.table[first].sbl]]
      BY ZenonT(40), <2>0, <2>3
    <3>2. info.table[first].sbl \in BOOLEAN
      BY ZenonT(40), <1>1, <1>2, <2>3 DEF InfoType, Fwd
    <3>3. /\ sel.ret = first /\ sel.info.valid_fwd = first /\ sel.info.err = "none"
          /\ sel.info.table = info.table /\ sel.info.boot_fwd = info.boot_fwd
      BY ZenonT(40), <1>1, <3>1 DEF InfoType
    <3>4. sel.info \in InfoType
      <4>1. sel.info = [table |-> info.table, boot_fwd |-> info.boot_fwd, valid_fwd |-> first,
                        mask |-> info.mask, ota_sbl_exist |-> info.table[first].sbl,
                        load_type |-> info.load_type, err |-> info.err]
        BY ZenonT(40), <1>1, <3>1 DEF InfoType
      <4> QED BY <1>1, <1>2, <2>3, <3>2, <4>1 DEF InfoType
    <3>5. TableOf(sel.info)
      BY ZenonT(40), <1>1, <3>3 DEF TableOf, TableInv
    <3> QED BY <1>1, <1>2, <2>3, <3>3, <3>4, <3>5 DEF SelectionOK
  <2> QED BY ZenonT(40), <2>1, <2>2, <2>3
<1> QED BY ZenonT(40), <1>5, PrepareInv DEF SelectFwd

\* The next round after one that failed.
LEMMA SelectAgainInv ==
  ASSUME IInv, SelectAgain
  PROVE  IInv'
<1> USE DEF INDEX_TRIAL, INDEX_CURRENT, INDEX_GOLDEN, Indices, MAX_FWD_NUM
<1> DEFINE in == IF GivesUpSbl(info) THEN [info EXCEPT !.err = "none"] ELSE info
           v == info.valid_fwd
           table == [in.table EXCEPT ![in.valid_fwd] = [@ EXCEPT !.status = 0]]
           sel == SelectNext(in)
<1>1. /\ info \in InfoType /\ TableInv /\ Hopeless
      /\ v \in 0 .. MAX_FWD_NUM
      /\ idx /\ v \in Indices => Names(loc, fde) \/ loc.rank <= v
      /\ loc.rank \in Indices
  BY ZenonT(40) DEF IInv, TypeOK, RoundInv, FdeInv, SelectAgain, InfoType, FdeType
<1>2. /\ in \in InfoType /\ in.table = info.table /\ in.boot_fwd = info.boot_fwd
      /\ in.valid_fwd = v
  BY ZenonT(40), <1>1 DEF InfoType
<1> HIDE DEF in
<1>3. SelectionOK(sel)
  <2>1. CASE v < MAX_FWD_NUM
    <3>0. sel = IF in.valid_fwd < MAX_FWD_NUM
                THEN [ret |-> in.valid_fwd + 1,
                      info |-> [in EXCEPT !.table = table, !.err = "none", !.valid_fwd = @ + 1]]
                ELSE [ret |-> MAX_FWD_NUM, info |-> in]
      BY DEF SelectNext
    <3>2. table \in [Indices -> Fwd]
      BY <1>1, <1>2, <2>1 DEF InfoType, Fwd
    <3>3. \A i \in Indices : table[i].status = 1 => table[i] = info.table[i]
      BY <1>1, <1>2, <2>1 DEF InfoType, Fwd
    <3> HIDE DEF sel, table
    <3>1. sel = [ret |-> v + 1,
                 info |-> [in EXCEPT !.table = table, !.err = "none", !.valid_fwd = @ + 1]]
      BY ZenonT(40), <1>2, <2>1, <3>0
    <3>4. sel.info = [table |-> table, boot_fwd |-> in.boot_fwd, valid_fwd |-> v + 1,
                      mask |-> in.mask, ota_sbl_exist |-> in.ota_sbl_exist,
                      load_type |-> in.load_type, err |-> "none"]
      BY ZenonT(40), <1>2, <3>1 DEF InfoType
    <3>5. sel.info \in InfoType
      BY <1>1, <1>2, <2>1, <3>2, <3>4 DEF InfoType
    <3>6. TableOf(sel.info)
      BY <1>1, <1>2, <3>3, <3>4 DEF TableOf, TableInv
    <3>7. sel.ret = v + 1 /\ sel.info.valid_fwd = v + 1 /\ sel.info.err = "none"
      BY ZenonT(40), <3>1, <3>4
    <3> QED BY <1>1, <2>1, <3>5, <3>6, <3>7 DEF SelectionOK
  <2>2. CASE v = MAX_FWD_NUM
    <3>1. sel = [ret |-> MAX_FWD_NUM, info |-> in]
      BY <1>2, <2>2 DEF SelectNext
    <3> QED BY <1>1, <1>2, <2>2, <3>1 DEF SelectionOK, TableOf, TableInv
  <2> QED BY <1>1, <2>1, <2>2
<1>4. Prepare(sel) /\ UNCHANGED <<persistent, sblRank, idx>>
  BY DEF SelectAgain, in, boot_sbl_update_fwd, persistent
<1> QED BY ZenonT(40), <1>3, <1>4, PrepareInv

\* A step of a round leaves the selection and the FDE alone; if it fails, the
\* round is hopeless.
LEMMA StepsInv ==
  ASSUME IInv,
         boot_elf_load_init \/ sbl_image_auth \/ LoadBegins \/ LoadEnds
           \/ sbl_compute_verify_hash \/ CommitSbl
  PROVE  IInv'
<1> USE DEF persistent, locals, Fails, Continues, Checked, Passed
<1>0. TypeOK /\ TableInv /\ RoundInv /\ StepInv /\ FdeInv
  BY DEF IInv
<1>1. /\ info' \in InfoType
      /\ info'.table = info.table /\ info'.boot_fwd = info.boot_fwd
      /\ info'.valid_fwd = info.valid_fwd
      /\ info'.err # "none" => info.err # "none" \/ pc' = "select"
      /\ pc' = "select" => info'.err # "none"
  BY <1>0 DEF TypeOK, InfoType, boot_elf_load_init, sbl_image_auth, LoadBegins, LoadEnds,
              sbl_compute_verify_hash, CommitSbl
<1>2. UNCHANGED <<flash, fde, steady, sblRank, loc, tempfde, idx, addr, type>>
  BY ZenonT(40) DEF boot_elf_load_init, sbl_image_auth, LoadBegins, LoadEnds,
         sbl_compute_verify_hash, CommitSbl
<1>3. pc \in Rounds \ {"commit_app", "app"} /\ pc' \in (Checked \ {"app"}) \cup {"select"}
  BY ZenonT(40) DEF Rounds, boot_elf_load_init, sbl_image_auth, LoadBegins, LoadEnds,
         sbl_compute_verify_hash, CommitSbl
<1>4. Image' = Image
  BY <1>2 DEF Image
<1>5. Image \notin {"init", "none"} => addr \in Sectors
  BY DEF Image
<1>6. rram' \in Sectors \cup {Mixed} /\ sblTrial' \in {"none", "new", "pending", "aborted", "valid"}
  BY ZenonT(40), <1>0, <1>5 DEF TypeOK, StepInv, boot_elf_load_init, sbl_image_auth, LoadBegins, LoadEnds,
         sbl_compute_verify_hash, CommitSbl
<1>7. TypeOK'
  BY ZenonT(40), <1>0, <1>1, <1>2, <1>3, <1>6 DEF TypeOK
<1>8. TableInv'
  BY ZenonT(40), <1>0, <1>1, <1>2 DEF TableInv
<1>9. Hopeless => Hopeless'
  <2>1. type = "RAM" => rram' = rram
    BY ZenonT(40) DEF boot_elf_load_init, sbl_image_auth, LoadBegins, LoadEnds,
           sbl_compute_verify_hash, CommitSbl
  <2> QED BY ZenonT(40), <1>2, <1>4, <2>1 DEF Hopeless
<1>10. pc' = "select" => Hopeless'
  <2> SUFFICES ASSUME pc' = "select" PROVE Hopeless \/ Hopeless'
    BY <1>9
  <2>1. CASE info.err # "none"
    BY ZenonT(40), <1>0, <2>1 DEF RoundInv
  <2>2. CASE info.err = "none"
    <3>1. CASE boot_elf_load_init
      BY ZenonT(40), <3>1 DEF boot_elf_load_init, Hopeless
    <3>2. CASE sbl_image_auth
      BY ZenonT(40), <3>2 DEF sbl_image_auth, Hopeless
    <3>3. CASE LoadEnds
      BY ZenonT(40), <3>3 DEF LoadEnds, Hopeless
    <3>4. CASE sbl_compute_verify_hash
      BY ZenonT(40), <1>0, <2>2, <3>4 DEF sbl_compute_verify_hash, Hopeless, StepInv, TypeOK
    <3>5. CASE LoadBegins \/ CommitSbl
      BY ZenonT(40), <3>5 DEF LoadBegins, CommitSbl
    <3> QED BY ZenonT(40), <3>1, <3>2, <3>3, <3>4, <3>5
  <2> QED BY ZenonT(40), <2>1, <2>2
<1>11. RoundInv'
  BY ZenonT(40), <1>0, <1>1, <1>2, <1>3, <1>9, <1>10 DEF RoundInv
<1>12. StepInv'
  <2>1. CASE boot_elf_load_init \/ sbl_image_auth \/ CommitSbl
    BY ZenonT(40), <1>0, <1>2, <1>4, <2>1 DEF StepInv, boot_elf_load_init, sbl_image_auth, CommitSbl
  <2>2. CASE LoadBegins \/ LoadEnds
    BY ZenonT(40), <1>0, <1>2, <1>4, <2>2 DEF StepInv, LoadBegins, LoadEnds
  <2>3. CASE sbl_compute_verify_hash
    BY ZenonT(40), <1>0, <1>2, <1>4, <2>3 DEF StepInv, sbl_compute_verify_hash
  <2> QED BY ZenonT(40), <2>1, <2>2, <2>3
<1>13. FdeInv'
  BY ZenonT(40), <1>0, <1>1, <1>2, <1>3 DEF FdeInv, Names, Rounds
<1> QED BY ZenonT(40), <1>3, <1>7, <1>8, <1>11, <1>12, <1>13 DEF IInv, FdeNamesRunningImage

\* When the application is started the FDE names it: the comparison with the
\* copy of the round before skips only a write that would change nothing.
LEMMA CommitAppInv ==
  ASSUME IInv, CommitApp
  PROVE  IInv'
<1> USE DEF persistent, locals
<1>0. TypeOK /\ TableInv /\ RoundInv /\ StepInv /\ FdeInv
  BY DEF IInv
<1>1. TypeOK'
  BY ZenonT(40), <1>0 DEF TypeOK, CommitApp
<1>2. /\ UNCHANGED <<flash, rram, info, loc, tempfde, idx, addr, type>>
      /\ pc = "commit_app" /\ pc' = "app"
  BY DEF CommitApp
<1>3. Image' = Image /\ Hopeless' = Hopeless
  BY ZenonT(40), <1>2 DEF Image, Hopeless
<1>4. TableInv' /\ RoundInv' /\ FdeInv'
  BY ZenonT(40), <1>0, <1>2, <1>3 DEF TableInv, RoundInv, FdeInv
<1>5. StepInv'
  BY ZenonT(40), <1>0, <1>2, <1>3 DEF StepInv, Checked, Passed
<1>6. ~Hopeless
  BY ZenonT(40), <1>0, <1>2 DEF Hopeless, StepInv, Checked, Passed
<1>7. ASSUME idx, addr \in Sectors
      PROVE  fde'.addr = addr /\ fde'.rank = flash[addr].rank
  <2>1. info.valid_fwd \in Indices /\ flash[addr].rank = info.valid_fwd
    BY ZenonT(40), <1>0, <1>6, <1>7 DEF RoundInv
  <2>2. /\ loc.addr = addr /\ loc.rank = info.valid_fwd
        /\ Names(tempfde, fde) \/ tempfde.rank < info.valid_fwd
    BY ZenonT(40), <1>0, <1>2, <1>7, <2>1 DEF FdeInv
  <2>3. CASE tempfde # loc
    BY ZenonT(40), <1>7, <2>1, <2>2, <2>3 DEF CommitApp
  <2>4. CASE tempfde = loc
    BY <1>7, <2>1, <2>2, <2>4 DEF CommitApp, Names, Indices, INDEX_TRIAL, INDEX_CURRENT, INDEX_GOLDEN
  <2> QED BY ZenonT(40), <2>3, <2>4
<1> QED BY ZenonT(40), <1>1, <1>2, <1>4, <1>5, <1>7 DEF IInv, FdeNamesRunningImage

\* The invariant is inductive.
THEOREM BootInvariant == Spec => []IInv
<1>1. IInv /\ [Next]_vars => IInv'
  <2> SUFFICES ASSUME IInv, [Next]_vars PROVE IInv'
    OBVIOUS
  <2>1. CASE PblStartsSbl
    BY <2>1 DEF PblStartsSbl, locals, IInv, TypeOK, TableInv, RoundInv, StepInv, FdeInv,
                FdeNamesRunningImage, Checked, Passed, Hopeless, Image
  <2>2. CASE SelectResets
    BY ZenonT(40), <2>2, RestartInv DEF SelectResets, boot_sbl_update_fwd
  <2>3. CASE Reboot \/ PowerCut
    BY ZenonT(40), <2>3, RestartInv DEF Reboot, PowerCut, persistent
  <2>4. CASE UNCHANGED vars
    BY <2>4 DEF vars, persistent, locals, IInv, TypeOK, TableInv, RoundInv, StepInv, FdeInv,
                FdeNamesRunningImage, Hopeless, Image
  <2> QED BY ZenonT(40), <2>1, <2>2, <2>3, <2>4, ScanInv, SelectFwdInv, SelectAgainInv, StepsInv,
             CommitAppInv DEF Next, Boot
<1> QED BY <1>1, InitInv, PTL DEF Spec

\* With authentication on, only a good image is started, from the FWD that was
\* selected and with its own segments in RRAM, for any images in flash, with
\* trial SBLs, failing reads and power cuts at any step (loader_start).
THEOREM OnlyVerifiedImagesRun == Spec => []RunsVerifiedImage
<1>1. IInv => RunsVerifiedImage
  <2> SUFFICES ASSUME IInv, AuthEnabled, pc = "app"
      PROVE  addr \in Sectors /\ flash[addr].app = "good" /\ rram = addr
             /\ flash[addr].rank = info.valid_fwd
    BY DEF RunsVerifiedImage
  <2>1. Image \notin {"init", "none", "auth", "load", "hash"} /\ rram = addr
    BY DEF IInv, StepInv, Checked, Passed
  <2>2. addr \in Sectors /\ Image = flash[addr].app
    BY ZenonT(40), <2>1 DEF Image
  <2>3. flash[addr].app \in AllFaults
    BY ZenonT(40), <2>2 DEF IInv, TypeOK, Fwd
  <2>4. ~Hopeless
    BY <2>1 DEF Hopeless
  <2> QED BY ZenonT(40), <2>1, <2>2, <2>3, <2>4 DEF IInv, RoundInv, AllFaults
<1> QED BY <1>1, BootInvariant, PTL

\* Whenever the application runs, the FDE in RRAM names it with its rank
\* (the comparison of tempfde and the local FDE at the end of loader_start).
THEOREM FdeIsCurrent == Spec => []FdeNamesRunningImage
<1>1. IInv => FdeNamesRunningImage
  BY DEF IInv
<1> QED BY <1>1, BootInvariant, PTL
=============================================================================
