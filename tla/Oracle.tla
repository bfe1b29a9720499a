------------------------------- MODULE Oracle -------------------------------
(***************************************************************************)
(* What the fuzzer makes of a test that has run.  Spike's log is searched  *)
(* for transitions of control registers that no test before it made; a log *)
(* with one is read into rows (spike_log_to_trace_csv.py), the rows are    *)
(* compared with the log of the RTL simulation, and the signatures of the  *)
(* two are compared at the end (utils.py, signature_checker.py).           *)
(*                                                                         *)
(* A test is a sequence of events, the instructions it executes.  Values   *)
(* are names; the control registers are mstatus with its FS field, frm,    *)
(* fflags, mcause (scause is treated the same way), medeleg (so are        *)
(* mcounteren and scounteren) and mepc for all that only ALL_CSR looks at. *)
(***************************************************************************)
EXTENDS Integers, Sequences, SequencesExt, FiniteSets

CONSTANTS
  Events,     \* what an instruction may do
  MaxLen,     \* bound: events of a test
  MaxEvents,  \* bound: events of all tests
  SigEvents,  \* bound: events before the signatures may differ
  Values,     \* values of registers that a faulty core may write
  Boot,       \* the event of the instructions before the test
  Window      \* lines of the RTL's log in which its start is looked for

None == "none"

VARIABLES
  options,  \* ALL_CSR, FP_CSR and toplevel
  phase,    \* what comes next for the test
  test,     \* the events of the test
  known,    \* comb_t, comb_priv and comb_func
  chk,      \* what trace_compare returned
  match,    \* what check returned
  fault,    \* what the RTL did wrong (history)
  sig,      \* how the two signatures differ (history)
  past,     \* pairs of lines that followed one another in a log (history)
  count,    \* transitions that were returned, of all tests (history)
  events    \* events so far (bound)

vars == <<options, phase, test, known, chk, match, fault, sig, past, count, events>>

-----------------------------------------------------------------------------
(* The logs.  The pc of an event is its place in the test.                  *)

Entry == 1
TrampolineEnd == 0
Reset == -1
Header == -2
Other == -3

CoreLine(pc, e)  == [kind |-> "core", pc |-> pc, e |-> e]
Commit(e)        == [kind |-> "commit", val |-> e.val, mode |-> e.mode]

\* Spike's log: an instruction is printed before it executes, with the control
\* registers it finds, and what it wrote after it
EventLines(pc, e) ==
  <<CoreLine(pc, e), IF e.trap = None THEN Commit(e) ELSE [kind |-> e.trap]>>
SpikeLog(t) ==
  EventLines(Reset, Boot) \o EventLines(TrampolineEnd, Boot)
    \o FlattenSeq([k \in DOMAIN t |-> EventLines(k, t[k])])

\* the log of the RTL: a result that comes late is deadbeef and has a line of
\* its own, after event late[k]; Rocket reports an exception at another pc too.
\* It goes on after the test
RtlLine(pc, e) ==
  [kind |-> "line", pc |-> pc, val |-> IF e.val = None THEN "0" ELSE e.val,
   mode |-> e.mode, csrs |-> e.csrs, exc |-> e.trap # None]
LateLines(t, late, k) ==
  LET due == {i \in DOMAIN late : late[i] = k}
  IN  SetToSeq({[kind |-> "delayed", reg |-> t[i].rd, val |-> t[i].val] : i \in due})
RtlLog(t, late, other) ==
  <<RtlLine(Header, Boot), RtlLine(Reset, Boot)>>
    \o FlattenSeq([k \in DOMAIN t |->
         (IF k = other THEN <<[RtlLine(Other, t[k]) EXCEPT !.exc = TRUE]>> ELSE <<>>)
           \o <<[RtlLine(t[k].pc, t[k]) EXCEPT
                   !.val = IF k \in DOMAIN late THEN "deadbeef" ELSE @]>>
           \o LateLines(t, late, k)])
    \o <<RtlLine(Len(t) + 1, Boot)>>

-----------------------------------------------------------------------------
(* extract_transitions                                                      *)

Selected   == {"mstatus", "frm", "fflags", "mcause", "medeleg"}
csr_names  == {"mstatus", "mcause", "fflags"}
Seen(c)    == IF options.ALL_CSR THEN c ELSE [n \in Selected |-> c[n]]
Private(c) == <<c.mstatus, c.mcause, c.medeleg>>
Float(c)   == <<c.mstatus.FS, c.frm, c.fflags>>

\* the name of an instruction has its register if that is a control register
InstrName(e) == IF options.ALL_CSR THEN <<e.op>> ELSE <<e.op, e.csr>>

\* a write to a register that changes it and none of the others
Skip(p, c) ==
  LET csr == IF p.csr = "sstatus" THEN "mstatus" ELSE p.csr
  IN  csr \in csr_names /\ {n \in csr_names : c.csrs[n] # p.csrs[n]} = {csr}

\* the line of event c follows that of p; name is that of the instruction
Changed(a, name, p, c) ==
  LET full == <<name, Seen(p.csrs), Seen(c.csrs)>>
      priv == <<name, Private(p.csrs), Private(c.csrs)>>
      func == <<name, Float(p.csrs), Float(c.csrs)>>
      newp == ~options.FP_CSR /\ priv \notin a.comb_priv /\ priv[2] # priv[3]
      newf == func \notin a.comb_func /\ func[2] # func[3]
      one(b) == IF b THEN 1 ELSE 0
  IN  IF full[2] = full[3] THEN a
      ELSE IF options.ALL_CSR THEN
        [a EXCEPT !.comb_t = @ \cup {full}, !.trns = @ + one(full \notin a.comb_t)]
      ELSE IF Skip(p, c) THEN a
      ELSE [comb_priv |-> a.comb_priv \cup (IF newp THEN {priv} ELSE {}),
            comb_func |-> a.comb_func \cup (IF newf THEN {func} ELSE {}),
            comb_t    |-> a.comb_t \cup (IF newp \/ newf THEN {full} ELSE {}),
            trns      |-> a.trns + one(newp) + one(newf)]

\* mutant of Transition: the name is that of the line that shows the change
Transition_Late(a, p, c) == Changed(a, InstrName(c), p, c)
\* a change is seen on the line after that of the instruction that made it
Transition(a, p, c) == Changed(a, InstrName(p), p, c)

\* all lines with control registers, those before the test included
Logged(log) == LET cores == SelectSeq(log, LAMBDA l : l.kind = "core")
               IN  [k \in DOMAIN cores |-> cores[k].e]

extract_transitions(seen, log) ==
  LET es == Logged(log)
  IN  FoldLeft(LAMBDA a, k : Transition(a, es[k], es[k + 1]), seen,
               [k \in 1 .. Len(es) - 1 |-> k])

-----------------------------------------------------------------------------
(* read_spike_trace: rows for the instructions after the trampoline         *)

Row(l)   == [pc |-> l.pc, e |-> l.e, gpr |-> <<>>, mode |-> ""]
Yield(a) == a.rows \o a.instr    \* the instruction in hand, if there is one

ReadLine(a, l) ==
  IF a.ended THEN a
  ELSE IF a.in_trampoline THEN
    [a EXCEPT !.in_trampoline = ~(l.kind = "core" /\ l.pc = TrampolineEnd)]
  ELSE IF l.kind = "core" THEN
    [a EXCEPT !.rows = Yield(a), !.instr = <<Row(l)>>, !.ended = l.e.op = "ecall"]
  ELSE IF a.instr = <<>> THEN a
  ELSE IF l.kind = "illegal" THEN [a EXCEPT !.rows = Yield(a), !.instr = <<>>]
  ELSE IF l.kind = "commit" THEN
    [a EXCEPT !.instr[1].mode = l.mode,
              !.instr[1].gpr = IF l.val = None THEN @ ELSE Append(@, l.val)]
  ELSE a

read_spike_trace(log) ==
  Yield(FoldLeft(ReadLine, [in_trampoline |-> TRUE, instr |-> <<>>, rows |-> <<>>,
                            ended |-> FALSE], log))

-----------------------------------------------------------------------------
(* trace_compare                                                            *)

f_instr     == {"fadd.s", "fld"}       \* f_instr and d_instr
Swaps       == {"csrrw", "csrrs"}      \* three operands, the register second
ignore_list == {<<"csrw", "minstret">>, <<"mret", "">>, <<"sret", "">>, <<"ebreak", "">>,
                <<"csrw", "mepc">>, <<"csrwi", "mstatus">>, <<"csrs", "mstatus">>,
                <<"csrs", "medeleg">>, <<"csrw", "medeleg">>, <<"csrw", "mstatus">>,
                <<"ecall", "">>, <<"csrr", "mtval">>}
SwapsIgnored == {"fcsr", "medeleg", "mstatus", "mcause", "fflags", "scause", "sstatus"}

\* equal as floating-point numbers
SameNumber(v, w) == v = w \/ {v, w} = {"+0", "-0"} \/ {v, w} \subseteq {"nan1", "nan2"}

\* the comparison of an instruction is dropped, whatever differs
Ignored(e) == \/ <<e.op, e.csr>> \in ignore_list
              \/ e.op \in Swaps /\ e.csr \in SwapsIgnored
              \/ e.rd = "zero"
\* the control registers that are compared: of Rocket not fflags, and never frm
Compared == {"mstatus", "mcause", "medeleg"}
              \cup IF options.toplevel = "BoomTile" THEN {"fflags"} ELSE {}

IsDelayed(rtl, i) == rtl[i].kind = "delayed"
MinOf(S) == CHOOSE i \in S : \A j \in S : i <= j

\* mutant of NextLine: one line at most is passed over
NextLine_One(rtl, i, row) ==
  IF i \in DOMAIN rtl /\ IsDelayed(rtl, i) THEN i + 1 ELSE i
\* the line, from line i on, that the next row is compared with: lines of late
\* results are passed over, and on Rocket an exception at another pc
NextLine(rtl, i, row) ==
  LET next == MinOf({k \in i .. Len(rtl) + 1 : k \in DOMAIN rtl => ~IsDelayed(rtl, k)})
  IN  IF /\ next \in DOMAIN rtl /\ options.toplevel = "RocketTile"
         /\ rtl[next].exc /\ rtl[next].pc # row.pc
        THEN next + 1 ELSE next

\* an exception of the comparison is caught and ends it, with what was found before
CompareRow(a, row, rtl) ==
  LET i     == NextLine(rtl, a.next, row)
      line  == rtl[i]
      e     == row.e
      mode  == IF row.mode = "" THEN a.mode ELSE row.mode
      write == e.op \in {"csrw", "csrwi"}
      isa   == IF write \/ row.gpr = <<>> THEN "0" ELSE row.gpr[1]
      late  == {k \in i + 1 .. Len(rtl) : IsDelayed(rtl, k) /\ rtl[k].reg = e.rd}
      wdata == IF write \/ e.op \in {"j", "ret"} THEN "0"
               ELSE IF line.val = "deadbeef" /\ late # {} THEN rtl[MinOf(late)].val ELSE line.val
      lost  == wdata = "deadbeef" /\ i < Len(rtl)
      differ   == \/ isa # wdata \/ mode # line.mode
                  \/ \E n \in Compared : e.csrs[n] # line.csrs[n]
      dropped  == \/ line.exc \/ Ignored(e)
                  \/ e.op \in f_instr /\ isa # wdata /\ SameNumber(isa, wdata)
      mismatch == IF differ THEN ~dropped ELSE a.mismatch
      \* where FS differs, the instruction before is looked at: of the first row there is none
      unnamed  == differ /\ a.first /\ e.csrs.mstatus.FS # line.csrs.mstatus.FS
  IN  IF a.stopped THEN a
      \* no line is left, or one that cannot be read: the exception is caught
      ELSE IF i \notin DOMAIN rtl \/ IsDelayed(rtl, i) THEN [a EXCEPT !.stopped = TRUE]
      ELSE IF line.pc # row.pc THEN [a EXCEPT !.return_val = -1, !.stopped = TRUE]
      ELSE IF lost \/ unnamed THEN [a EXCEPT !.stopped = TRUE]
      ELSE [next |-> i + 1, mode |-> mode, mismatch |-> mismatch, first |-> FALSE,
            return_val |-> IF mismatch THEN -1 ELSE a.return_val,
            stopped |-> differ /\ i = Len(rtl)]

trace_compare(rows, rtl) ==
  LET starts == {x \in 1 .. Window : ~IsDelayed(rtl, x) /\ rtl[x].pc = Entry}
      first  == IF starts = {} THEN 1 ELSE MinOf(starts)
  IN  FoldLeft(LAMBDA a, row : CompareRow(a, row, rtl),
               [next |-> first, mode |-> "", mismatch |-> FALSE, first |-> TRUE,
                return_val |-> 0, stopped |-> FALSE], rows).return_val

-----------------------------------------------------------------------------
(* sigChecker.check: the registers in the order they are compared, with how *)
(* the RTL's value may differ from Spike's                                  *)

Registers == <<"x1", "f1", "sstatus", "scause", "stval", "mstatus", "mcause", "mtval", "data">>
Differences(r) ==
  {"same", "other"} \cup
    CASE r = "f1"      -> {"one_off"}
      [] r = "mstatus" -> {"mprv", "fs_dirty"}
      [] r = "sstatus" -> {"fs_dirty"}
      [] r = "scause"  -> {"bit4"}
      [] r = "stval"   -> {"isa_zero", "rtl_zero"}
      [] r = "mtval"   -> {"isa_zero", "rtl_zero"}
      [] OTHER         -> {}

\* a difference that is accepted
Accepted(r, d) ==
  d \in {"one_off", "mprv", "fs_dirty", "bit4", "isa_zero"} \/ (r = "stval" /\ d = "rtl_zero")

\* an accepted difference sets the flag again, also after another register; the
\* flag of the x registers is that of the f registers too
Flag(r) == CASE r \in {"x1", "f1"} -> "xreg_match"
             [] r = "data" -> "data_match"
             [] OTHER -> "csr_match"
AllMatch == [xreg_match |-> TRUE, csr_match |-> TRUE, data_match |-> TRUE]
\* mutant of check: the flags are those of the last register
check_Last(s) ==
  FoldLeft(LAMBDA a, r : [a EXCEPT ![Flag(r)] = s[r] = "same" \/ Accepted(r, s[r])],
           AllMatch, Registers) = AllMatch
check(s) ==
  FoldLeft(LAMBDA a, r : IF s[r] = "same" THEN a
                         ELSE [a EXCEPT ![Flag(r)] = Accepted(r, s[r])],
           AllMatch, Registers) = AllMatch

-----------------------------------------------------------------------------
(* A test: Spike runs it, its log is searched, the RTL runs it, and traces  *)
(* and signatures are compared.                                             *)

NoFault == [kind |-> None, at |-> 0, val |-> None]
Same    == [r \in ToSet(Registers) |-> "same"]
Signatures ==
  UNION {{[Same EXCEPT ![r] = d, ![q] = e] : d \in Differences(r), e \in Differences(q)}
         : r, q \in ToSet(Registers)}

Init ==
  /\ options \in [ALL_CSR : BOOLEAN, FP_CSR : BOOLEAN, toplevel : {"RocketTile", "BoomTile"}]
  /\ phase = "get" /\ test = <<>> /\ events = 0
  /\ known = [comb_t |-> {}, comb_priv |-> {}, comb_func |-> {}] /\ past = {} /\ count = 0
  /\ chk = 0 /\ match = TRUE /\ fault = NoFault /\ sig = Same

\* Spike runs a test, which ends when an instruction asks for it
RunIsa ==
  /\ phase = "get" /\ events < MaxEvents
  /\ test' \in UNION {[1 .. n -> Events] : n \in 1 .. MaxLen}
  /\ \A k \in 1 .. Len(test') - 1 : test'[k].op # "ecall"
  /\ phase' = "log" /\ events' = events + Len(test') /\ events' <= MaxEvents
  /\ UNCHANGED <<options, known, chk, match, fault, sig, past, count>>

\* a test without a new transition is dropped
Extract ==
  /\ phase = "log"
  /\ LET log == SpikeLog(test)
         es  == Logged(log)
         found == extract_transitions(known @@ [trns |-> 0], log)
     IN  /\ known' = [n \in DOMAIN known |-> found[n]]
         /\ count' = count + found.trns
         /\ past' = past \cup {<<es[k], es[k + 1]>> : k \in 1 .. Len(es) - 1}
         /\ IF found.trns = 0 THEN phase' = "get" /\ test' = <<>>
            ELSE phase' = "rtl" /\ UNCHANGED test
  /\ UNCHANGED <<options, chk, match, fault, sig, events>>

\* what one wrong instruction of the RTL may do to its line
Faults == {NoFault}
  \cup {[kind |-> kind, at |-> k, val |-> None]
           : kind \in {"pc", "mode", "FS", "mstatus", "fflags", "frm"}, k \in DOMAIN test}
  \cup {[kind |-> "val", at |-> k, val |-> v] : k \in DOMAIN test, v \in Values}
WrongCsrs(c, kind) ==
  CASE kind = "FS"      -> [c EXCEPT !.mstatus.FS = "wrong"]
    [] kind = "mstatus" -> [c EXCEPT !.mstatus.rest = "wrong"]
    [] kind \in {"fflags", "frm"} -> [c EXCEPT ![kind] = "wrong"]
    [] OTHER -> c
RtlEvent(e, k, f) ==
  LET g == [e EXCEPT !.val = IF f.kind = "val" THEN f.val ELSE @,
                     !.mode = IF f.kind = "mode" THEN "wrong" ELSE @,
                     !.csrs = WrongCsrs(@, f.kind)]
  IN  IF f.at = k THEN g @@ [pc |-> IF f.kind = "pc" THEN Other ELSE k]
      ELSE e @@ [pc |-> k]

\* a result is late by any time, but back before its register is written again
Late ==
  UNION {{w \in [L -> DOMAIN test] :
            \A k \in L : w[k] >= k /\ \A i \in k + 1 .. w[k] : test[i].rd # test[k].rd}
         : L \in SUBSET {k \in DOMAIN test : test[k].op \in {"div", "fld"}}}

Compare ==
  /\ phase = "rtl"
  /\ \E f \in Faults, late \in Late, other \in {0} \cup (DOMAIN test \ {1}) :
       /\ f.kind = "val" => f.val # test[f.at].val
       /\ other # 0 => options.toplevel = "RocketTile"
       /\ fault' = f
       /\ chk' = trace_compare(read_spike_trace(SpikeLog(test)),
                               RtlLog([k \in DOMAIN test |-> RtlEvent(test[k], k, f)], late, other))
  /\ phase' = "check"
  /\ UNCHANGED <<options, test, known, match, sig, past, count, events>>

\* the signatures may differ in two registers; the traces say nothing of that
Check ==
  /\ phase = "check"
  /\ sig' \in IF events > SigEvents THEN {Same} ELSE Signatures
  /\ match' = check(sig')
  /\ phase' = "verdict" /\ fault' = NoFault /\ chk' = 0 /\ test' = <<>>
  /\ UNCHANGED <<options, known, past, count, events>>

\* the next test
NextTest ==
  /\ phase = "verdict"
  /\ phase' = "get" /\ match' = TRUE /\ sig' = Same
  /\ UNCHANGED <<options, test, known, chk, fault, past, count, events>>

Next == RunIsa \/ Extract \/ Compare \/ Check \/ NextTest
Spec == Init /\ [][Next]_vars

-----------------------------------------------------------------------------
(* Properties                                                               *)

\* Of all the logs so far each change of the selected registers is counted
\* once, by the instruction that made it, whatever the tests and their order;
\* one that only writes the register it names is not (extract_transitions).
TransitionsCounted ==
  LET made(F(_), pairs) ==
        {t \in {<<InstrName(pc[1]), F(pc[1].csrs), F(pc[2].csrs)>> : pc \in pairs} : t[2] # t[3]}
      unskipped == {pc \in past : ~Skip(pc[1], pc[2])}
  IN  count = IF options.ALL_CSR THEN Cardinality(made(Seen, past))
              ELSE Cardinality(made(Float, unskipped))
                     + IF options.FP_CSR THEN 0 ELSE Cardinality(made(Private, unskipped))

\* The comparison of the traces reports a test if and only if the RTL did
\* something wrong at an instruction that is compared, wherever late results
\* and exceptions stand in its log (read_spike_trace, trace_compare).  Left out
\* is a wrong exception of Rocket: it is passed over, and whether the next line
\* shows it depends on late results; and a wrong FS field at the first instruction,
\* which ends the comparison with no mismatch (the split of instr_str_p raises).
PassedOver == options.toplevel = "RocketTile" /\ fault.kind = "pc" /\ test[fault.at].trap # None
FirstFS    == fault.kind = "FS" /\ fault.at = 1
FaultsReported ==
  phase = "check" /\ ~PassedOver /\ ~FirstFS =>
    LET e == test[fault.at]
        visible ==
          CASE fault.kind = None -> FALSE
            [] fault.kind = "pc" -> TRUE
            [] fault.kind = "frm" -> FALSE
            [] e.trap # None \/ Ignored(e) -> FALSE
            [] fault.kind = "val" -> /\ e.op \notin {"csrw", "csrwi", "j", "ret"}
                                     /\ ~(e.op \in f_instr /\ SameNumber(e.val, fault.val))
            [] fault.kind = "fflags" -> options.toplevel = "BoomTile"
            [] OTHER -> TRUE
    IN  chk = -1 <=> visible

\* A test is reported for its signature only if a register differs in a way
\* that is not accepted, and such a register is found unless another difference
\* is accepted, which may reset the flag (sigChecker.check).
SignatureFair ==
  phase = "verdict" =>
    LET wrong    == {r \in DOMAIN sig : sig[r] # "same" /\ ~Accepted(r, sig[r])}
        accepted == {r \in DOMAIN sig : sig[r] # "same" /\ Accepted(r, sig[r])}
    IN  /\ ~match => wrong # {}
        /\ match => \A r \in wrong : \E q \in accepted : Flag(q) = Flag(r)
=============================================================================
