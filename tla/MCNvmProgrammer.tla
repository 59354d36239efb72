-------------------------- MODULE MCNvmProgrammer --------------------------
(***************************************************************************)
(* A flash of three blocks of two pages, an RRAM of four write blocks, and  *)
(* jobs that start and end at, before and after the boundaries.             *)
(***************************************************************************)
EXTENDS NvmProgrammer

Image(n) == [i \in 1 .. n |-> (i * 2) % 3]

Job(op, nvm, address, size) ==
    [op |-> op, nvm |-> nvm, address |-> address, size |-> size,
     data |-> IF op = "download" THEN Image(size) ELSE <<>>]

MCJobs ==
    {Job("download", "flash", x[1], x[2]) : x \in {<<0, 3>>, <<0, 11>>, <<4, 5>>, <<8, 5>>, <<12, 1>>, <<0, 0>>}}
    \union {Job("partial_erase", "flash", x[1], x[2]) : x \in {<<0, 8>>, <<4, 4>>, <<0, 0>>, <<4, 0>>}}
    \union {Job("chip_erase", "flash", 0, 0), Job("chip_erase", "rram", 0, 0)}
    \union {Job("read", "flash", x[1], x[2]) : x \in {<<3, 9>>, <<8, 5>>}}
    \union {Job("download", "rram", x[1], x[2]) : x \in {<<0, 16>>, <<2, 1>>, <<6, 9>>, <<2, 14>>, <<14, 3>>}}
    \union {Job("partial_erase", "rram", x[1], x[2]) : x \in {<<6, 1>>, <<6, 9>>, <<2, 4>>}}
    \union {Job("read", "rram", x[1], x[2]) : x \in {<<2, 11>>}}

MCContents ==
    {[flash |-> [a \in 0 .. 11 |-> x], rram |-> [a \in 0 .. 15 |-> x]] : x \in {0, 3}}
    \union {[flash |-> [a \in 0 .. 11 |-> IF a \in 4 .. 7 THEN 1 ELSE 3],
             rram |-> [a \in 0 .. 15 |-> a % 4]]}
=============================================================================
