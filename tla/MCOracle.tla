------------------------------ MODULE MCOracle ------------------------------
(* Tests of up to three instructions: late results, traps, writes to control *)
(* registers and the changes of registers that follow them.                  *)
EXTENDS Oracle

Csrs(fs, rest, fflags, mcause) ==
  [mstatus |-> [FS |-> fs, rest |-> rest], frm |-> "0", fflags |-> fflags,
   mcause |-> mcause, medeleg |-> "0", mepc |-> "0"]
Zero == Csrs("0", "0", "0", "0")
On   == Csrs("1", "0", "0", "0")

Event(op, csr, rd, val, csrs) ==
  [op |-> op, csr |-> csr, rd |-> rd, val |-> val, mode |-> "M", csrs |-> csrs, trap |-> None]

MCBoot == Event("auipc", "", "r5", "b", Zero)
MCEvents ==
  {Event("add", "", "r1", "v", Zero), Event("div", "", "r1", "w", Zero),
   Event("csrw", "sstatus", "", "m", Zero), Event("fld", "", "f1", "+0", On),
   Event("fadd.s", "", "f1", "nan2", Csrs("1", "0", "1", "0")),
   Event("csrrw", "fflags", "r1", "v", On),
   [Event("mret", "", "", None, Csrs("0", "1", "0", "2")) EXCEPT !.mode = "U"],
   [Event("unimp", "", "", None, Zero) EXCEPT !.trap = "illegal"],
   [Event("ecall", "", "", None, [On EXCEPT !.medeleg = "1"]) EXCEPT !.trap = "trap"],
   [Event("lw", "", "zero", None, Zero) EXCEPT !.csrs.mepc = "1", !.csrs.frm = "1"]}
=============================================================================
